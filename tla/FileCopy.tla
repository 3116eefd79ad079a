------------------------------ MODULE FileCopy ------------------------------
(***************************************************************************)
(* Copying files to and from the guest: the client's streamTo and copyFrom *)
(* (client/filesystem.go) and the agent's UploadFile and DownloadFile      *)
(* (services/filesystem/service.go), all on one guest path.                *)
(*                                                                         *)
(* A file is the upload it comes from and how many of its chunks it holds. *)
(* The agent process may crash and the guest may lose power.  Temporary    *)
(* names are never reused (os.CreateTemp draws them at random).            *)
(***************************************************************************)
EXTENDS Naturals, Sequences

CONSTANTS
    Upload,       \* calls of streamTo
    Download,     \* calls of copyFrom
    Sources,      \* what the uploads may be of: how many chunks each
    MaxChunks,    \* the 2 GiB limit, in chunks
    Old,          \* the upload that made the file that is there at first
    MaxDeaths     \* bound: crashes of the agent and power losses of the guest

ASSUME CopyAssumption ==
    /\ Old \notin Upload
    /\ MaxChunks \in Nat \ {0}
    /\ Sources \subseteq [Upload -> 0..MaxChunks + 1]
    /\ MaxDeaths \in Nat

VARIABLES
    size,      \* size[u]: the chunks of the source of u
    cli,       \* cli[u]: streamTo
    sent,      \* sent[u]: chunks sent
    eof,       \* uploads whose client has closed its side of the stream
    reset,     \* uploads whose client has cancelled the stream, or is gone
    spc,       \* spc[u]: UploadFile
    got,       \* got[u]: chunks received and written to the temporary file
    flushed,   \* flushed[u]: chunks of it that are on the disk
    answer,    \* answer[u]: the status UploadFile returned
    temp,      \* uploads whose temporary file exists
    target,    \* the file at the guest path
    names,     \* every file at that path since the last power loss
    dpc,       \* dpc[d]: DownloadFile and copyFrom
    dfile,     \* dfile[d]: the file DownloadFile has opened
    dgot,      \* dgot[d]: the chunks in the client's temporary file
    dst,       \* dst[d]: the chunks of the file at the client's path
    deaths,    \* crashes and power losses so far
    orphaned,  \* history: uploads whose handler died without its deferred calls
    renamed    \* history: uploads that were renamed into place

clientVars == <<size, cli, sent, eof, reset>>
serverVars == <<spc, got, flushed, answer, temp, target, names, orphaned, renamed>>
downloadVars == <<dpc, dfile, dgot, dst>>
vars == <<clientVars, serverVars, downloadVars, deaths>>

File == [of : Upload \cup {Old}, chunks : 0..MaxChunks + 1]
OldFile == [of |-> Old, chunks |-> 1]

\* The chunks of a file, each told by the upload it comes from.
Content(f) == [i \in 1..f.chunks |-> f.of]

TypeOK ==
    /\ size \in [Upload -> 0..MaxChunks + 1]
    /\ cli \in [Upload -> {"idle", "sending", "closing", "ok", "error"}]
    /\ sent \in [Upload -> 0..MaxChunks + 1]
    /\ eof \in SUBSET Upload /\ reset \in SUBSET Upload
    /\ spc \in [Upload -> {"none", "create", "check", "recv", "sync", "rename", "reply", "ended"}]
    /\ got \in [Upload -> 0..MaxChunks]
    /\ flushed \in [Upload -> 0..MaxChunks]
    /\ answer \in [Upload -> {"none", "ok", "error"}]
    /\ temp \in SUBSET Upload
    /\ target \in File /\ names \in SUBSET File
    /\ dpc \in [Download -> {"idle", "copy", "ok", "error"}]
    /\ dfile \in [Download -> File]
    /\ dgot \in [Download -> Seq(Upload \cup {Old})]
    /\ dst \in [Download -> Seq(Upload \cup {Old})]
    /\ deaths \in 0..MaxDeaths
    /\ orphaned \in SUBSET Upload /\ renamed \in SUBSET Upload

Init ==
    /\ size \in Sources
    /\ cli = [u \in Upload |-> "idle"]
    /\ sent = [u \in Upload |-> 0]
    /\ eof = {} /\ reset = {}
    /\ spc = [u \in Upload |-> "none"]
    /\ got = [u \in Upload |-> 0]
    /\ flushed = [u \in Upload |-> 0]
    /\ answer = [u \in Upload |-> "none"]
    /\ temp = {}
    /\ target = OldFile /\ names = {OldFile}
    /\ dpc = [d \in Download |-> "idle"]
    /\ dfile = [d \in Download |-> OldFile]
    /\ dgot = [d \in Download |-> <<>>]
    /\ dst = [d \in Download |-> Content(OldFile)]
    /\ deaths = 0
    /\ orphaned = {} /\ renamed = {}

-----------------------------------------------------------------------------
(* streamTo *)

\* The stream is opened, the path is sent and UploadFile starts on it.
OpenStream(u) ==
    /\ cli[u] = "idle"
    /\ cli' = [cli EXCEPT ![u] = "sending"]
    /\ spc' = [spc EXCEPT ![u] = "create"]
    /\ UNCHANGED <<size, sent, eof, reset, got, flushed, answer, temp, target, names,
                   orphaned, renamed, downloadVars, deaths>>

SendChunk(u) ==
    /\ cli[u] = "sending" /\ sent[u] < size[u]
    /\ sent' = [sent EXCEPT ![u] = @ + 1]
    /\ UNCHANGED <<size, cli, eof, reset, serverVars, downloadVars, deaths>>

CloseSend(u) ==
    /\ cli[u] = "sending" /\ sent[u] = size[u]
    /\ cli' = [cli EXCEPT ![u] = "closing"]
    /\ eof' = eof \cup {u}
    /\ UNCHANGED <<size, sent, reset, serverVars, downloadVars, deaths>>

\* The source cannot be read, the hour is over or the client is killed: the
\* stream is cancelled.
GivesUp(u) ==
    /\ cli[u] \in {"sending", "closing"}
    /\ cli' = [cli EXCEPT ![u] = "error"]
    /\ reset' = reset \cup {u}
    /\ UNCHANGED <<size, sent, eof, serverVars, downloadVars, deaths>>

\* Send fails or CloseAndRecv returns: the client has the status.
LearnAnswer(u) ==
    /\ cli[u] \in {"sending", "closing"} /\ answer[u] # "none"
    /\ cli' = [cli EXCEPT ![u] = answer[u]]
    /\ UNCHANGED <<size, sent, eof, reset, serverVars, downloadVars, deaths>>

-----------------------------------------------------------------------------
(* UploadFile *)

CreateTemp(u) ==
    /\ spc[u] = "create"
    /\ temp' = temp \cup {u}
    /\ spc' = [spc EXCEPT ![u] = "check"]
    /\ UNCHANGED <<clientVars, got, flushed, answer, target, names, orphaned, renamed,
                   downloadVars, deaths>>

\* The context is looked at before each Recv.
CheckContext(u) ==
    /\ spc[u] = "check" /\ u \notin reset
    /\ spc' = [spc EXCEPT ![u] = "recv"]
    /\ UNCHANGED <<clientVars, got, flushed, answer, temp, target, names, orphaned, renamed,
                   downloadVars, deaths>>

\* A chunk arrives, the file is not too large with it, and it is written.
RecvChunk(u) ==
    /\ spc[u] = "recv" /\ got[u] < sent[u] /\ got[u] < MaxChunks
    /\ got' = [got EXCEPT ![u] = @ + 1]
    /\ spc' = [spc EXCEPT ![u] = "check"]
    /\ UNCHANGED <<clientVars, flushed, answer, temp, target, names, orphaned, renamed,
                   downloadVars, deaths>>

\* Seeded bug: the break leaves the switch and not the loop.
RecvEOFLoops(u) ==
    /\ spc[u] = "recv" /\ got[u] = sent[u] /\ u \in eof
    /\ spc' = [spc EXCEPT ![u] = "check"]
    /\ UNCHANGED <<clientVars, got, flushed, answer, temp, target, names, orphaned, renamed,
                   downloadVars, deaths>>

RecvEOF(u) ==
    /\ spc[u] = "recv" /\ got[u] = sent[u] /\ u \in eof
    /\ spc' = [spc EXCEPT ![u] = "sync"]
    /\ UNCHANGED <<clientVars, got, flushed, answer, temp, target, names, orphaned, renamed,
                   downloadVars, deaths>>

\* Seeded bug: the temporary file is not flushed.
SyncNot(u) ==
    /\ spc[u] = "sync"
    /\ spc' = [spc EXCEPT ![u] = "rename"]
    /\ UNCHANGED <<clientVars, got, flushed, answer, temp, target, names, orphaned, renamed,
                   downloadVars, deaths>>

Sync(u) ==
    /\ spc[u] = "sync"
    /\ flushed' = [flushed EXCEPT ![u] = got[u]]
    /\ spc' = [spc EXCEPT ![u] = "rename"]
    /\ UNCHANGED <<clientVars, got, answer, temp, target, names, orphaned, renamed,
                   downloadVars, deaths>>

\* Seeded bug: the temporary file is removed only after a successful rename.
FinishKeepsTemp(u, status) ==
    /\ spc' = [spc EXCEPT ![u] = "ended"]
    /\ answer' = [answer EXCEPT ![u] = status]
    /\ temp' = IF status = "ok" THEN temp \ {u} ELSE temp

\* The handler returns and its deferred calls remove the temporary file.
Finish(u, status) ==
    /\ spc' = [spc EXCEPT ![u] = "ended"]
    /\ answer' = [answer EXCEPT ![u] = status]
    /\ temp' = temp \ {u}

Rename(u) ==
    /\ spc[u] = "rename"
    /\ spc' = [spc EXCEPT ![u] = "reply"]
    /\ target' = [of |-> u, chunks |-> got[u]]
    /\ names' = names \cup {target'}
    /\ temp' = temp \ {u}
    /\ renamed' = renamed \cup {u}
    /\ UNCHANGED <<clientVars, got, flushed, answer, orphaned, downloadVars, deaths>>

\* SendAndClose.
SendAndClose(u) ==
    /\ spc[u] = "reply"
    /\ Finish(u, "ok")
    /\ UNCHANGED <<clientVars, got, flushed, target, names, orphaned, renamed, downloadVars, deaths>>

\* CreateTemp, a write, Sync, Rename or SendAndClose fails, the context is done,
\* Recv fails because of it, or the file is too large.
UploadFails(u) ==
    /\ \/ spc[u] \in {"create", "sync", "rename", "reply"}
       \/ spc[u] \in {"check", "recv"} /\ u \in reset
       \/ spc[u] = "recv" /\ got[u] < sent[u]
    /\ Finish(u, "error")
    /\ UNCHANGED <<clientVars, got, flushed, target, names, orphaned, renamed, downloadVars, deaths>>

-----------------------------------------------------------------------------
(* DownloadFile and copyFrom *)

OpenFile(d) ==
    /\ dpc[d] = "idle"
    /\ dfile' = [dfile EXCEPT ![d] = target]
    /\ dpc' = [dpc EXCEPT ![d] = "copy"]
    /\ UNCHANGED <<clientVars, serverVars, dgot, dst, deaths>>

\* Seeded bug: the path is opened again for each chunk.
CopyChunkReopens(d) ==
    /\ dpc[d] = "copy" /\ Len(dgot[d]) < target.chunks
    /\ dfile' = [dfile EXCEPT ![d] = target]
    /\ dgot' = [dgot EXCEPT ![d] = Append(@, target.of)]
    /\ UNCHANGED <<clientVars, serverVars, dpc, dst, deaths>>

\* A chunk is read in the guest, sent, and written to the client's temporary file.
CopyChunk(d) ==
    /\ dpc[d] = "copy" /\ Len(dgot[d]) < dfile[d].chunks
    /\ dgot' = [dgot EXCEPT ![d] = Append(@, dfile[d].of)]
    /\ UNCHANGED <<clientVars, serverVars, dpc, dfile, dst, deaths>>

\* The stream ends without an error and the client renames its temporary file.
CopyEnds(d) ==
    /\ dpc[d] = "copy" /\ Len(dgot[d]) >= dfile[d].chunks
    /\ dst' = [dst EXCEPT ![d] = dgot[d]]
    /\ dpc' = [dpc EXCEPT ![d] = "ok"]
    /\ UNCHANGED <<clientVars, serverVars, dfile, dgot, deaths>>

CopyFails(d) ==
    /\ dpc[d] \in {"idle", "copy"}
    /\ dpc' = [dpc EXCEPT ![d] = "error"]
    /\ UNCHANGED <<clientVars, serverVars, dfile, dgot, dst, deaths>>

-----------------------------------------------------------------------------
(* Crashes *)

Running == {u \in Upload : spc[u] \notin {"none", "ended"}}

\* The handlers die without their deferred calls, and the clients see their
\* connection end.
AgentDies ==
    /\ deaths < MaxDeaths
    /\ deaths' = deaths + 1
    /\ spc' = [u \in Upload |-> IF u \in Running THEN "ended" ELSE spc[u]]
    /\ answer' = [u \in Upload |-> IF u \in Running THEN "error" ELSE answer[u]]
    /\ orphaned' = orphaned \cup Running
    /\ dpc' = [d \in Download |-> IF dpc[d] = "copy" THEN "error" ELSE dpc[d]]
    /\ UNCHANGED <<clientVars, got, flushed, renamed, temp, dfile, dgot, dst>>

Crash ==
    /\ AgentDies
    /\ UNCHANGED <<target, names>>

\* What of a file is found on the disk: a prefix that holds at least what was
\* flushed.
OnDisk(f) ==
    IF f.of = Old THEN {f}
    ELSE {[f EXCEPT !.chunks = n] : n \in flushed[f.of]..f.chunks}

\* The directory is not flushed, so any file the path has named since the last
\* power loss may be found there.
PowerLoss ==
    /\ AgentDies
    /\ \E f \in names : target' \in OnDisk(f)
    /\ names' = {target'}

-----------------------------------------------------------------------------

Client(u) == OpenStream(u) \/ SendChunk(u) \/ CloseSend(u) \/ GivesUp(u) \/ LearnAnswer(u)

Server(u) ==
    \/ CreateTemp(u) \/ CheckContext(u) \/ RecvChunk(u) \/ RecvEOF(u)
    \/ Sync(u) \/ Rename(u) \/ SendAndClose(u) \/ UploadFails(u)

Copy(d) == OpenFile(d) \/ CopyChunk(d) \/ CopyEnds(d) \/ CopyFails(d)

Next ==
    \/ \E u \in Upload : Client(u) \/ Server(u)
    \/ \E d \in Download : Copy(d)
    \/ Crash \/ PowerLoss

Spec == Init /\ [][Next]_vars

\* Both ends go on as long as they can; nobody has to give up.
Fairness ==
    \A u \in Upload :
        /\ WF_vars(Server(u))
        /\ WF_vars(SendChunk(u) \/ CloseSend(u) \/ LearnAnswer(u))

FairSpec == Spec /\ Fairness

-----------------------------------------------------------------------------
(* Properties *)

Whole(f) == f = OldFile \/ (f.of \in Upload /\ f.chunks = size[f.of])

\* The guest path holds a whole file: the old one or one upload from its first to
\* its last chunk, whichever side fails, also after a power loss.
TargetWhole == Whole(target)

\* A download puts one whole version in place, also when uploads replace the
\* file while it is read, and leaves the client's file alone when it fails.
DownloadWhole ==
    \A d \in Download :
        dst[d] \in {Content(OldFile)} \cup {Content([of |-> u, chunks |-> size[u]]) : u \in Upload}

\* Neither end of a copy ever shows a part of a file or a mixture of two.
CopyWhole == TargetWhole /\ DownloadWhole

\* A client that is told success has had its file put in place, and one that was
\* too large never is.
OkMeansReplaced ==
    /\ \A u \in Upload : cli[u] = "ok" => u \in renamed
    /\ \A u \in renamed : size[u] <= MaxChunks

\* Only a handler that died leaves its temporary file behind.
NoTempLeft == temp \subseteq Running \cup orphaned

\* An upload is honest about its outcome, keeps to the limit and leaves no debris.
UploadInv == TypeOK /\ OkMeansReplaced /\ NoTempLeft

\* The files the path may hold, whole.
Version(u) == IF u = Old THEN Content(OldFile) ELSE Content([of |-> u, chunks |-> size[u]])

Phase(p) == IF p = "none" THEN "idle" ELSE IF p = "ended" THEN "ended" ELSE "running"

Register == INSTANCE FileRegister WITH
    version <- [u \in Upload \cup {Old} |-> Version(u)],
    path <- Content(target),
    past <- {Content(f) : f \in names},
    placed <- renamed,
    up <- [u \in Upload |-> Phase(spc[u])],
    told <- [u \in Upload |-> IF cli[u] \in {"ok", "error"} THEN cli[u] ELSE "none"],
    down <- [d \in Download |-> IF dpc[d] \in {"ok", "error"} THEN "ended" ELSE dpc[d]],
    seen <- [d \in Download |-> Content(dfile[d])],
    copy <- dst

\* Uploads and downloads are atomic: chunk by chunk as they go, with failures of
\* both ends and the loss of the process or of power, UploadFile replaces the
\* path in one step, before success is told, and copyFrom delivers what the path
\* held at one moment.
CopiesAreAtomic == Register!Spec

\* Every upload ends on both sides.
UploadEnds ==
    \A u \in Upload : (cli[u] = "sending") ~> (cli[u] \in {"ok", "error"} /\ spc[u] = "ended")
=============================================================================
