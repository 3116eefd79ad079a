--------------------------- MODULE FileCopyProofs ---------------------------
(***************************************************************************)
(* File copies are whole, for any number of uploads and downloads of any   *)
(* size, and any number of crashes and power losses.                       *)
(***************************************************************************)
EXTENDS FileCopy, SequenceTheorems, TLAPS

\* What UploadFile has received is what streamTo sent, and the end of the stream
\* comes after the last chunk of the source.
InFlight ==
    \A u \in Upload :
        /\ got[u] <= sent[u] /\ sent[u] <= size[u]
        /\ u \in eof => sent[u] = size[u]
        /\ cli[u] = "idle" <=> spc[u] = "none"

\* Past the loop the temporary file holds the source, past Sync all of it is on
\* the disk, and a file that was put in place was past both.
Complete ==
    /\ \A u \in Upload :
         /\ spc[u] \in {"sync", "rename", "reply"} => got[u] = size[u]
         /\ spc[u] \in {"rename", "reply"} => flushed[u] = got[u]
         /\ spc[u] = "reply" => u \in renamed
    /\ \A u \in renamed :
         /\ got[u] = size[u] /\ flushed[u] = size[u]
         /\ spc[u] \in {"reply", "ended"}

\* Success was sent, and heard, only by uploads that were put in place, and an
\* answer is the end of its handler.
Honest ==
    \A u \in Upload :
        /\ answer[u] = "ok" \/ cli[u] = "ok" => u \in renamed
        /\ answer[u] # "none" => spc[u] = "ended"

\* What the path has named is the old file or a renamed one, whole.
NamesWhole ==
    /\ target \in names
    /\ \A f \in names : f = OldFile \/ (f.of \in renamed /\ f.chunks = size[f.of])

\* An open file keeps its content under a download, whatever the path names.
CopyFaithful ==
    \A d \in Download :
        /\ Whole(dfile[d])
        /\ dpc[d] = "idle" => dgot[d] = <<>>
        /\ Len(dgot[d]) <= dfile[d].chunks
        /\ \A i \in 1..Len(dgot[d]) : dgot[d][i] = dfile[d].of

\* The inductive invariant.
CopyInv ==
    /\ TypeOK /\ NoTempLeft /\ InFlight /\ Complete /\ Honest /\ NamesWhole
    /\ CopyFaithful /\ DownloadWhole

-----------------------------------------------------------------------------
(* What the invariant is for *)

LEMMA CopyInvIsEnough == CopyInv => TargetWhole /\ OkMeansReplaced
<1> SUFFICES ASSUME CopyInv PROVE TargetWhole /\ OkMeansReplaced
  OBVIOUS
<1>1. TargetWhole
  BY DEF CopyInv, NamesWhole, TargetWhole, Whole, TypeOK
<1>2. ASSUME NEW u \in renamed PROVE size[u] <= MaxChunks
  BY CopyAssumption, <1>2 DEF CopyInv, Complete, TypeOK
<1> QED
  BY <1>1, <1>2 DEF CopyInv, Honest, OkMeansReplaced

\* A download that has all the chunks of the file it opened has that file.
LEMMA CopiedIsContent ==
    ASSUME CopyInv, NEW d \in Download, Len(dgot[d]) >= dfile[d].chunks
    PROVE  dgot[d] = Content(dfile[d])
<1>1. /\ dgot[d] \in Seq(Upload \cup {Old})
      /\ dfile[d] \in File
      /\ Len(dgot[d]) <= dfile[d].chunks
      /\ \A i \in 1..Len(dgot[d]) : dgot[d][i] = dfile[d].of
  BY DEF CopyInv, TypeOK, CopyFaithful
<1>2. Len(dgot[d]) = dfile[d].chunks
  BY <1>1, CopyAssumption DEF File
<1>3. dgot[d] = [i \in 1..Len(dgot[d]) |-> dgot[d][i]]
  BY <1>1, IsASeq
<1> QED
  BY <1>1, <1>2, <1>3 DEF Content

LEMMA InitCopyInv == Init => CopyInv
<1> SUFFICES ASSUME Init PROVE CopyInv
  OBVIOUS
<1> USE CopyAssumption DEF Init
<1>1. OldFile \in File
  BY DEF OldFile, File
<1>2. Content(OldFile) \in Seq(Upload \cup {Old})
  BY IsASeq DEF OldFile, Content
<1>3. TypeOK
  BY <1>1, <1>2, EmptySeq DEF TypeOK
<1>4. NoTempLeft /\ InFlight /\ Complete /\ Honest /\ NamesWhole
  BY <1>3 DEF TypeOK, NoTempLeft, InFlight, Complete, Honest, NamesWhole
<1>5. CopyFaithful
  BY EmptySeq DEF CopyFaithful, Whole, OldFile
<1>6. DownloadWhole
  BY DEF DownloadWhole
<1> QED
  BY <1>3, <1>4, <1>5, <1>6 DEF CopyInv

-----------------------------------------------------------------------------
(* The invariant is inductive *)

\* The parts about uploads.
UploadPart == TypeOK /\ NoTempLeft /\ InFlight /\ Complete /\ Honest /\ NamesWhole

\* A step that opens no file and copies nothing leaves the downloads as they are.
LEMMA DownloadsUndisturbed ==
    ASSUME CopyInv, UNCHANGED <<size, dfile, dgot, dst>>,
           \A d \in Download : dpc'[d] = "idle" => dpc[d] = "idle"
    PROVE  CopyFaithful' /\ DownloadWhole'
  BY DEF CopyInv, CopyFaithful, DownloadWhole, Whole

LEMMA ClientStep ==
    ASSUME CopyInv, NEW u \in Upload, Client(u) PROVE UploadPart'
<1> USE CopyAssumption
    DEF CopyInv, UploadPart, TypeOK, NoTempLeft, Running, InFlight, Complete, Honest,
        NamesWhole, serverVars, downloadVars
<1>1. CASE OpenStream(u)
  BY <1>1 DEF OpenStream
<1>2. CASE SendChunk(u)
  BY <1>2 DEF SendChunk
<1>3. CASE CloseSend(u)
  BY <1>3 DEF CloseSend
<1>4. CASE GivesUp(u)
  BY <1>4 DEF GivesUp
<1>5. CASE LearnAnswer(u)
  BY <1>5 DEF LearnAnswer
<1> QED
  BY <1>1, <1>2, <1>3, <1>4, <1>5 DEF Client

LEMMA ServerStep ==
    ASSUME CopyInv, NEW u \in Upload, Server(u) PROVE UploadPart'
<1> USE CopyAssumption
    DEF CopyInv, UploadPart, TypeOK, NoTempLeft, Running, InFlight, Complete, Honest,
        NamesWhole, clientVars, downloadVars
<1>1. CASE CreateTemp(u)
  BY <1>1 DEF CreateTemp
<1>2. CASE CheckContext(u)
  BY <1>2 DEF CheckContext
<1>3. CASE RecvChunk(u)
  BY <1>3 DEF RecvChunk
<1>4. CASE RecvEOF(u)
  BY <1>4 DEF RecvEOF
<1>5. CASE Sync(u)
  BY <1>5 DEF Sync
<1>6. CASE Rename(u)
  BY <1>6 DEF Rename, File
<1>7. CASE SendAndClose(u)
  BY <1>7 DEF SendAndClose, Finish
<1>8. CASE UploadFails(u)
  BY <1>8 DEF UploadFails, Finish
<1> QED
  BY <1>1, <1>2, <1>3, <1>4, <1>5, <1>6, <1>7, <1>8 DEF Server

LEMMA CopyStep ==
    ASSUME CopyInv, NEW d \in Download, Copy(d) PROVE CopyInv'
<1> USE CopyAssumption DEF clientVars, serverVars
<1>0. UploadPart /\ CopyFaithful /\ DownloadWhole
  BY DEF CopyInv, UploadPart
<1>1. UNCHANGED <<clientVars, serverVars, deaths>>
  BY DEF Copy, OpenFile, CopyChunk, CopyEnds, CopyFails
<1>2. (NoTempLeft /\ InFlight /\ Complete /\ Honest /\ NamesWhole)'
  BY <1>0, <1>1 DEF UploadPart, NoTempLeft, Running, InFlight, Complete, Honest, NamesWhole
<1>3. CASE OpenFile(d)
  <2>1. Whole(target)
    BY CopyInvIsEnough DEF TargetWhole
  <2>2. TypeOK'
    BY <1>0, <1>1, <1>3 DEF UploadPart, TypeOK, OpenFile
  <2>3. CopyFaithful'
    BY <1>0, <1>1, <1>3, <2>1 DEF UploadPart, TypeOK, CopyFaithful, OpenFile, Whole, File
  <2>4. DownloadWhole'
    BY <1>0, <1>1, <1>3 DEF DownloadWhole, OpenFile
  <2> QED BY <1>2, <2>2, <2>3, <2>4 DEF CopyInv
<1>4. CASE CopyChunk(d)
  <2>1. dfile[d].of \in Upload \cup {Old} /\ dgot[d] \in Seq(Upload \cup {Old})
    BY <1>0 DEF UploadPart, TypeOK, File
  <2>2. /\ Append(dgot[d], dfile[d].of) \in Seq(Upload \cup {Old})
        /\ Len(Append(dgot[d], dfile[d].of)) = Len(dgot[d]) + 1
        /\ \A i \in 1..Len(dgot[d]) : Append(dgot[d], dfile[d].of)[i] = dgot[d][i]
        /\ Append(dgot[d], dfile[d].of)[Len(dgot[d]) + 1] = dfile[d].of
    BY <2>1, AppendProperties
  <2>3. TypeOK'
    BY <1>0, <1>1, <1>4, <2>2 DEF UploadPart, TypeOK, CopyChunk
  <2>4. CopyFaithful'
    <3> SUFFICES ASSUME NEW e \in Download
                 PROVE  /\ Whole(dfile[e])'
                        /\ dpc'[e] = "idle" => dgot'[e] = <<>>
                        /\ Len(dgot'[e]) <= dfile'[e].chunks
                        /\ \A i \in 1..Len(dgot'[e]) : dgot'[e][i] = dfile'[e].of
      BY DEF CopyFaithful
    <3>1. CASE e # d
      BY <1>0, <1>1, <1>4, <3>1 DEF UploadPart, TypeOK, CopyFaithful, CopyChunk, Whole
    <3>2. CASE e = d
      <4>1. dgot'[d] = Append(dgot[d], dfile[d].of)
        BY <1>0, <1>4 DEF UploadPart, TypeOK, CopyChunk
      <4>2. dfile[d].chunks \in Nat /\ Len(dgot[d]) \in Nat
        BY <1>0, <2>1 DEF UploadPart, TypeOK, File
      <4> QED BY <1>0, <1>1, <1>4, <2>2, <3>2, <4>1, <4>2 DEF CopyFaithful, CopyChunk, Whole
    <3> QED BY <3>1, <3>2
  <2>5. DownloadWhole'
    BY <1>0, <1>1, <1>4 DEF DownloadWhole, CopyChunk
  <2> QED BY <1>2, <2>3, <2>4, <2>5 DEF CopyInv
<1>5. CASE CopyEnds(d)
  <2>1. dgot[d] = Content(dfile[d]) /\ Whole(dfile[d])
    BY <1>0, <1>5, CopiedIsContent DEF CopyEnds, CopyFaithful
  <2>2. dgot[d] \in {Content(OldFile)} \cup {Content([of |-> u, chunks |-> size[u]]) : u \in Upload}
    BY <2>1 DEF Whole, Content
  <2>3. TypeOK'
    BY <1>0, <1>1, <1>5 DEF UploadPart, TypeOK, CopyEnds
  <2>4. CopyFaithful'
    BY <1>0, <1>1, <1>5 DEF UploadPart, TypeOK, CopyFaithful, CopyEnds, Whole
  <2>5. DownloadWhole'
    <3> DEFINE Versions ==
            {Content(OldFile)} \cup {Content([of |-> u, chunks |-> size[u]]) : u \in Upload}
    <3>1. \A e \in Download : dst[e] \in Versions
      BY <1>0 DEF DownloadWhole
    <3>2. dgot[d] \in Versions
      BY <2>2
    <3>3. Versions' = Versions
      BY <1>1 DEF Content, OldFile
    <3> HIDE DEF Versions
    <3>4. \A e \in Download : dst'[e] \in Versions
      BY <1>0, <1>5, <3>1, <3>2 DEF UploadPart, TypeOK, CopyEnds
    <3>5. \A e \in Download : dst'[e] \in Versions'
      BY <3>3, <3>4
    <3> QED BY <3>5 DEF DownloadWhole, Versions
  <2> QED BY <1>2, <2>3, <2>4, <2>5 DEF CopyInv
<1>6. CASE CopyFails(d)
  <2>1. TypeOK'
    BY <1>0, <1>1, <1>6 DEF UploadPart, TypeOK, CopyFails
  <2>2. UNCHANGED <<size, dfile, dgot, dst>>
    BY <1>1, <1>6 DEF CopyFails
  <2>3. ASSUME NEW e \in Download, dpc'[e] = "idle" PROVE dpc[e] = "idle"
    BY <1>0, <1>6, <2>3 DEF UploadPart, TypeOK, CopyFails
  <2>4. CopyFaithful' /\ DownloadWhole'
    BY <2>2, <2>3, DownloadsUndisturbed
  <2> QED BY <1>2, <2>1, <2>4 DEF CopyInv
<1> QED
  BY <1>3, <1>4, <1>5, <1>6 DEF Copy

\* A power loss finds the whole file again, because it was flushed before it
\* was renamed.
LEMMA OnDiskIsWhole ==
    ASSUME CopyInv, NEW f \in names, NEW g \in OnDisk(f) PROVE g = f
<1>1. CASE f.of = Old
  BY <1>1 DEF OnDisk
<1>2. CASE f.of # Old
  <2>1. f.of \in renamed /\ f.of \in Upload /\ f.chunks = size[f.of] /\ f \in File
    BY <1>2 DEF CopyInv, NamesWhole, OldFile, TypeOK
  <2>2. flushed[f.of] = f.chunks /\ f.chunks \in Nat
    BY <2>1, CopyAssumption DEF CopyInv, Complete, File
  <2>3. PICK n \in flushed[f.of]..f.chunks : g = [f EXCEPT !.chunks = n]
    BY <1>2 DEF OnDisk
  <2>4. n = f.chunks
    BY <2>2, <2>3
  <2> QED BY <2>1, <2>3, <2>4 DEF File
<1> QED BY <1>1, <1>2

LEMMA DeathStep ==
    ASSUME CopyInv, Crash \/ PowerLoss PROVE UploadPart'
<1> USE CopyAssumption
<1>0. UploadPart
  BY DEF CopyInv, UploadPart
<1>1. AgentDies
  BY DEF Crash, PowerLoss
<1>2. target' \in names /\ target' \in names' /\ names' \subseteq names
  BY <1>0, OnDiskIsWhole DEF UploadPart, NamesWhole, Crash, PowerLoss
<1>3. TypeOK'
  <2>1. Running \subseteq Upload /\ deaths' \in 0..MaxDeaths
    BY <1>0, <1>1 DEF UploadPart, TypeOK, AgentDies, Running
  <2>2. target' \in File /\ names' \subseteq File
    BY <1>0, <1>2 DEF UploadPart, TypeOK
  <2> QED BY <1>0, <1>1, <2>1, <2>2 DEF UploadPart, TypeOK, AgentDies, clientVars
<1>4. (NoTempLeft /\ InFlight /\ Complete /\ Honest)'
  BY <1>0, <1>1 DEF UploadPart, TypeOK, NoTempLeft, InFlight, Complete, Honest, AgentDies, Running,
                    clientVars
<1>5. NamesWhole'
  BY <1>0, <1>1, <1>2 DEF UploadPart, NamesWhole, AgentDies, clientVars
<1> QED
  BY <1>3, <1>4, <1>5 DEF UploadPart

LEMMA NextCopyInv == CopyInv /\ [Next]_vars => CopyInv'
<1> SUFFICES ASSUME CopyInv, [Next]_vars PROVE CopyInv'
  OBVIOUS
<1> USE DEF clientVars, serverVars, downloadVars
<1>1. ASSUME NEW u \in Upload, Client(u) PROVE CopyInv'
  <2>1. UNCHANGED <<size, downloadVars>>
    BY <1>1 DEF Client, OpenStream, SendChunk, CloseSend, GivesUp, LearnAnswer
  <2> QED BY <1>1, <2>1, ClientStep, DownloadsUndisturbed DEF CopyInv, UploadPart
<1>2. ASSUME NEW u \in Upload, Server(u) PROVE CopyInv'
  <2>1. UNCHANGED <<size, downloadVars>>
    BY <1>2 DEF Server, CreateTemp, CheckContext, RecvChunk, RecvEOF, Sync, Rename, SendAndClose,
                UploadFails
  <2> QED BY <1>2, <2>1, ServerStep, DownloadsUndisturbed DEF CopyInv, UploadPart
<1>3. ASSUME NEW d \in Download, Copy(d) PROVE CopyInv'
  BY <1>3, CopyStep
<1>4. CASE Crash \/ PowerLoss
  <2>1. /\ UNCHANGED <<size, dfile, dgot, dst>>
        /\ \A d \in Download : dpc'[d] = "idle" => dpc[d] = "idle"
    BY <1>4 DEF Crash, PowerLoss, AgentDies
  <2> QED BY <1>4, <2>1, DeathStep, DownloadsUndisturbed DEF CopyInv, UploadPart
<1>5. CASE UNCHANGED vars
  <2>1. UploadPart'
    BY <1>5 DEF vars, CopyInv, UploadPart, TypeOK, NoTempLeft, Running, InFlight, Complete,
                Honest, NamesWhole
  <2> QED BY <1>5, <2>1, DownloadsUndisturbed DEF vars, CopyInv, UploadPart
<1> QED
  BY <1>1, <1>2, <1>3, <1>4, <1>5 DEF Next

-----------------------------------------------------------------------------
(* The theorems *)

LEMMA CopyInvHolds == Spec => []CopyInv
  BY InitCopyInv, NextCopyInv, PTL DEF Spec

\* The guest path and the client's hold whole files at every moment, whichever
\* end of which copy fails when, also after power losses.
THEOREM CopiesAreWhole == Spec => []CopyWhole
<1>1. CopyInv => CopyWhole
  BY CopyInvIsEnough DEF CopyInv, CopyWhole
<1> QED BY CopyInvHolds, <1>1, PTL

\* Success means that the file was put in place, none over the limit is, and only
\* a handler that died leaves its temporary file.
THEOREM UploadsAreHonest == Spec => []UploadInv
<1>1. CopyInv => UploadInv
  BY CopyInvIsEnough DEF CopyInv, UploadInv
<1> QED BY CopyInvHolds, <1>1, PTL

-----------------------------------------------------------------------------
(* FileCopy implements FileRegister *)

RegisterUps == [u \in Upload |-> Phase(spc[u])]
RegisterTold == [u \in Upload |-> IF cli[u] \in {"ok", "error"} THEN cli[u] ELSE "none"]
RegisterDown == [d \in Download |-> IF dpc[d] \in {"ok", "error"} THEN "ended" ELSE dpc[d]]
RegisterSeen == [d \in Download |-> Content(dfile[d])]

\* What of the register a step can be seen to leave alone.
LEMMA SameFiles ==
    ASSUME UNCHANGED <<size, target, names, renamed>>
    PROVE  /\ UNCHANGED <<Content(target), renamed>>
           /\ {Content(f) : f \in names}' = {Content(f) : f \in names}
           /\ [u \in Upload \cup {Old} |-> Version(u)]' = [u \in Upload \cup {Old} |-> Version(u)]
  BY DEF Version

LEMMA ClientRegisters ==
    ASSUME CopyInv, NEW u \in Upload, Client(u) PROVE [Register!Next]_Register!registerVars
<1>0. /\ UNCHANGED <<size, target, names, renamed, downloadVars>>
      /\ TypeOK /\ InFlight /\ Honest
  BY DEF Client, OpenStream, SendChunk, CloseSend, GivesUp, LearnAnswer, serverVars, CopyInv
<1>1. UNCHANGED <<RegisterDown, RegisterSeen, dst>>
  BY <1>0 DEF RegisterDown, RegisterSeen, downloadVars
<1>2. CASE OpenStream(u)
  <2>1. RegisterUps[u] = "idle" /\ RegisterUps' = [RegisterUps EXCEPT ![u] = "running"]
    BY <1>0, <1>2 DEF OpenStream, RegisterUps, Phase, TypeOK, InFlight
  <2>2. RegisterTold' = RegisterTold
    BY <1>0, <1>2 DEF OpenStream, RegisterTold, TypeOK
  <2>3. Register!Start(u)
    BY <1>0, <1>1, <2>1, <2>2, SameFiles
       DEF Register!Start, RegisterUps, RegisterTold, RegisterDown, RegisterSeen
  <2> QED BY <2>3 DEF Register!Next
<1>3. CASE SendChunk(u) \/ CloseSend(u)
  <2>1. RegisterTold' = RegisterTold
    BY <1>0, <1>3 DEF SendChunk, CloseSend, RegisterTold, TypeOK
  <2>2. RegisterUps' = RegisterUps
    BY <1>0, <1>3 DEF SendChunk, CloseSend, RegisterUps, serverVars
  <2> QED BY <1>0, <1>1, <2>1, <2>2, SameFiles
             DEF Register!registerVars, RegisterUps, RegisterTold, RegisterDown, RegisterSeen
<1>4. CASE GivesUp(u) \/ LearnAnswer(u)
  <2>1. PICK s \in {"ok", "error"} :
           /\ cli[u] \in {"sending", "closing"} /\ cli' = [cli EXCEPT ![u] = s]
           /\ s = "ok" => answer[u] = "ok"
    BY <1>0, <1>4 DEF GivesUp, LearnAnswer, TypeOK
  <2>2. RegisterTold[u] = "none" /\ RegisterTold' = [RegisterTold EXCEPT ![u] = s]
    BY <1>0, <2>1 DEF RegisterTold, TypeOK
  <2>3. RegisterUps' = RegisterUps /\ RegisterUps[u] # "idle"
    BY <1>0, <1>4, <2>1 DEF GivesUp, LearnAnswer, serverVars, RegisterUps, Phase, InFlight, TypeOK
  <2>4. s = "ok" => u \in renamed /\ RegisterUps[u] = "ended"
    BY <1>0, <2>1 DEF Honest, RegisterUps, Phase
  <2>5. Register!Tell(u, s)
    BY <1>0, <1>1, <2>2, <2>3, <2>4, SameFiles
       DEF Register!Tell, RegisterUps, RegisterTold, RegisterDown, RegisterSeen
  <2> QED BY <2>5 DEF Register!Next
<1> QED BY <1>2, <1>3, <1>4 DEF Client

LEMMA ServerRegisters ==
    ASSUME CopyInv, NEW u \in Upload, Server(u) PROVE [Register!Next]_Register!registerVars
<1>0. /\ UNCHANGED <<size, cli, downloadVars>>
      /\ TypeOK /\ Complete
  BY DEF Server, CreateTemp, CheckContext, RecvChunk, RecvEOF, Sync, Rename, SendAndClose,
         UploadFails, clientVars, CopyInv
<1>1. UNCHANGED <<RegisterTold, RegisterDown, RegisterSeen, dst>>
  BY <1>0 DEF RegisterTold, RegisterDown, RegisterSeen, downloadVars
<1>2. CASE CreateTemp(u) \/ CheckContext(u) \/ RecvChunk(u) \/ RecvEOF(u) \/ Sync(u)
  <2>1. RegisterUps' = RegisterUps
    BY <1>0, <1>2 DEF CreateTemp, CheckContext, RecvChunk, RecvEOF, Sync, RegisterUps, Phase, TypeOK
  <2>2. UNCHANGED <<target, names, renamed>>
    BY <1>2 DEF CreateTemp, CheckContext, RecvChunk, RecvEOF, Sync
  <2> QED BY <1>0, <1>1, <2>1, <2>2, SameFiles
             DEF Register!registerVars, RegisterUps, RegisterTold, RegisterDown, RegisterSeen
<1>3. CASE Rename(u)
  <2>1. RegisterUps' = RegisterUps /\ RegisterUps[u] = "running" /\ u \notin renamed
    BY <1>0, <1>3 DEF Rename, RegisterUps, Phase, TypeOK, Complete
  <2>2. target' = [of |-> u, chunks |-> size[u]]
    BY <1>0, <1>3 DEF Rename, Complete
  <2>3. Content(target') = [w \in Upload \cup {Old} |-> Version(w)][u]
    BY <2>2, CopyAssumption DEF Version
  <2>4. {Content(f) : f \in names}' = {Content(f) : f \in names} \cup {Content(target')}
    BY <1>3 DEF Rename
  <2>5. [w \in Upload \cup {Old} |-> Version(w)]' = [w \in Upload \cup {Old} |-> Version(w)]
    BY <1>0 DEF Version
  <2>6. renamed' = renamed \cup {u}
    BY <1>3 DEF Rename
  <2>7. Register!Replace(u)
    BY <1>1, <2>1, <2>3, <2>4, <2>5, <2>6
       DEF Register!Replace, RegisterUps, RegisterTold, RegisterDown, RegisterSeen
  <2> QED BY <2>7 DEF Register!Next
<1>4. CASE SendAndClose(u) \/ UploadFails(u)
  <2>1. RegisterUps[u] = "running" /\ RegisterUps' = [RegisterUps EXCEPT ![u] = "ended"]
    BY <1>0, <1>4 DEF SendAndClose, UploadFails, Finish, RegisterUps, Phase, TypeOK
  <2>2. UNCHANGED <<target, names, renamed>>
    BY <1>4 DEF SendAndClose, UploadFails
  <2>3. Register!End(u)
    BY <1>0, <1>1, <2>1, <2>2, SameFiles
       DEF Register!End, RegisterUps, RegisterTold, RegisterDown, RegisterSeen
  <2> QED BY <2>3 DEF Register!Next
<1> QED BY <1>2, <1>3, <1>4 DEF Server

LEMMA CopyRegisters ==
    ASSUME CopyInv, NEW d \in Download, Copy(d) PROVE [Register!Next]_Register!registerVars
<1>0. /\ UNCHANGED <<clientVars, serverVars>>
      /\ TypeOK
  BY DEF Copy, OpenFile, CopyChunk, CopyEnds, CopyFails, CopyInv
<1>1. UNCHANGED <<RegisterUps, RegisterTold, size, target, names, renamed>>
  BY <1>0 DEF RegisterUps, RegisterTold, clientVars, serverVars
<1>2. CASE OpenFile(d)
  <2>1. /\ RegisterDown[d] = "idle" /\ RegisterDown' = [RegisterDown EXCEPT ![d] = "copy"]
        /\ dst' = dst
    BY <1>0, <1>2 DEF OpenFile, RegisterDown, TypeOK
  <2>2. RegisterSeen' = [RegisterSeen EXCEPT ![d] = Content(target)]
    BY <1>0, <1>2 DEF OpenFile, RegisterSeen, TypeOK
  <2>3. Register!Open(d)
    BY <1>1, <2>1, <2>2, SameFiles
       DEF Register!Open, RegisterUps, RegisterTold, RegisterDown, RegisterSeen
  <2> QED BY <2>3 DEF Register!Next
<1>3. CASE CopyChunk(d)
  <2>1. UNCHANGED <<RegisterDown, RegisterSeen, dst>>
    BY <1>3 DEF CopyChunk, RegisterDown, RegisterSeen
  <2> QED BY <1>1, <2>1, SameFiles
             DEF Register!registerVars, RegisterUps, RegisterTold, RegisterDown, RegisterSeen
<1>4. CASE CopyEnds(d)
  <2>1. /\ RegisterDown[d] = "copy" /\ RegisterDown' = [RegisterDown EXCEPT ![d] = "ended"]
        /\ RegisterSeen' = RegisterSeen
    BY <1>0, <1>4 DEF CopyEnds, RegisterDown, RegisterSeen, TypeOK
  <2>2. dgot[d] = RegisterSeen[d]
    BY <1>4, CopiedIsContent DEF CopyEnds, RegisterSeen
  <2>3. dst' = [dst EXCEPT ![d] = RegisterSeen[d]]
    BY <1>4, <2>2 DEF CopyEnds
  <2>4. Register!Deliver(d)
    BY <1>1, <2>1, <2>3, SameFiles
       DEF Register!Deliver, RegisterUps, RegisterTold, RegisterDown, RegisterSeen
  <2> QED BY <2>4 DEF Register!Next
<1>5. CASE CopyFails(d)
  <2>1. /\ RegisterDown[d] # "ended" /\ RegisterDown' = [RegisterDown EXCEPT ![d] = "ended"]
        /\ RegisterSeen' = RegisterSeen /\ dst' = dst
    BY <1>0, <1>5 DEF CopyFails, RegisterDown, RegisterSeen, TypeOK
  <2>2. Register!Fail(d)
    BY <1>1, <2>1, SameFiles
       DEF Register!Fail, RegisterUps, RegisterTold, RegisterDown, RegisterSeen
  <2> QED BY <2>2 DEF Register!Next
<1> QED BY <1>2, <1>3, <1>4, <1>5 DEF Copy

LEMMA DeathRegisters ==
    ASSUME CopyInv, Crash \/ PowerLoss PROVE [Register!Next]_Register!registerVars
<1>0. AgentDies /\ TypeOK
  BY DEF Crash, PowerLoss, CopyInv
<1>1. RegisterUps' = [u \in Upload |-> IF RegisterUps[u] = "running" THEN "ended" ELSE RegisterUps[u]]
  BY <1>0 DEF AgentDies, RegisterUps, Phase, Running, TypeOK
<1>2. RegisterDown' = [d \in Download |-> IF RegisterDown[d] = "copy" THEN "ended" ELSE RegisterDown[d]]
  BY <1>0 DEF AgentDies, RegisterDown, TypeOK
<1>3. UNCHANGED <<RegisterTold, RegisterSeen, dst, renamed, size>>
  BY <1>0 DEF AgentDies, RegisterTold, RegisterSeen, clientVars
<1>4. [u \in Upload \cup {Old} |-> Version(u)]' = [u \in Upload \cup {Old} |-> Version(u)]
  BY <1>3 DEF Version
<1>5. \/ Content(target)' = Content(target) /\ {Content(f) : f \in names}' = {Content(f) : f \in names}
      \/ /\ Content(target)' \in {Content(f) : f \in names}
         /\ {Content(f) : f \in names}' = {Content(target)'}
  <2>1. CASE Crash
    BY <2>1 DEF Crash
  <2>2. CASE PowerLoss
    BY <2>2, OnDiskIsWhole DEF PowerLoss
  <2> QED BY <2>1, <2>2
<1>6. Register!Die
  BY <1>1, <1>2, <1>3, <1>4, <1>5
     DEF Register!Die, RegisterUps, RegisterTold, RegisterDown, RegisterSeen
<1> QED BY <1>6 DEF Register!Next

\* File copies are atomic: every step of the two ends of the streams, of the
\* crashes and of the power losses is a step of the register of whole files, or
\* cannot be seen there.
THEOREM CopyImplementsRegister == Spec => CopiesAreAtomic
<1>1. Init => Register!Init
  <2> SUFFICES ASSUME Init PROVE Register!Init
    OBVIOUS
  <2>1. ASSUME NEW f \in File PROVE Content(f) \in Seq(Upload \cup {Old})
    BY <2>1, CopyAssumption, IsASeq DEF File, Content
  <2>2. OldFile \in File /\ size \in [Upload -> 0..MaxChunks + 1]
    BY CopyAssumption DEF Init, OldFile, File
  <2>3. \A u \in Upload \cup {Old} : Version(u) \in Seq(Upload \cup {Old})
    BY <2>1, <2>2 DEF Version, File
  <2>4. Version(Old) = Content(target) /\ {Content(f) : f \in names} = {Content(target)}
    BY DEF Version, Init
  <2> QED BY <2>3, <2>4 DEF Register!Init, Init, Phase
<1>2. CopyInv /\ [Next]_vars => [Register!Next]_Register!registerVars
  <2> SUFFICES ASSUME CopyInv, [Next]_vars PROVE [Register!Next]_Register!registerVars
    OBVIOUS
  <2>1. CASE UNCHANGED vars
    <3>1. /\ UNCHANGED <<size, target, names, renamed, dst>>
          /\ UNCHANGED <<RegisterUps, RegisterTold, RegisterDown, RegisterSeen>>
      BY <2>1 DEF vars, clientVars, serverVars, downloadVars,
                  RegisterUps, RegisterTold, RegisterDown, RegisterSeen
    <3> QED BY <3>1, SameFiles
               DEF Register!registerVars, RegisterUps, RegisterTold, RegisterDown, RegisterSeen
  <2> QED BY <2>1, ClientRegisters, ServerRegisters, CopyRegisters, DeathRegisters DEF Next
<1> QED BY <1>1, <1>2, CopyInvHolds, PTL DEF Spec, CopiesAreAtomic, Register!Spec
=============================================================================
