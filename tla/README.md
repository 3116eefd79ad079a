# TLA+ verification of phoenix-guest-agent

phoenix-guest-agent runs inside a virtual machine and answers gRPC requests of
the hypervisor: guest information, file transfer, freezing filesystems for a
snapshot, network configuration, an on-demand SSH server. This directory holds
TLA+ models of the parts of it that keep state shared by several goroutines or
outliving the process, the TLC configurations that check them on small
instances, and TLAPS proofs of the central properties for all instances. Paths
such as `core/filesystem.go` are relative to the root of the repository.

    tlc -config FSFreeze.cfg FSFreeze       # one of the runs below
    tlapm FSFreezeProofs.tla                # the proofs, one module each:
                                            # SSHServerProofs, SSHSessionProofs,
                                            # SSHChannelProofs, AgentDeviceProofs,
                                            # FileCopyProofs, StatPollerProofs,
                                            # RequestsProofs

`PROJECT.json` is the index: components, runs, the source lines each definition
models, the hazards, the findings and the theorems.

## 1. The system

| Component | State | Operations | Who it meets |
|---|---|---|---|
| Freeze gate (`core/filesystem.go`, `core/server.go`, `services/interceptors/pre_handler.go`) | `Server.locked`; frozen superblocks in the kernel | Freeze, Unfreeze, the unary interceptor | every unary request; the kernel, which outlives the agent |
| Agent start and stop (`cmd/agent/agent_server.go`, `main.go`) | errgroup context, listener channel, gRPC server | open, scan and bind listeners, Serve, GracefulStop, signals | systemd, the network, requests in progress |
| SSH server life cycle (`internal/secure_shell/server.go`) | under `srv.mu`: listeners, connections, two wait groups, `doneChan` | Serve, HandleConn, Shutdown, Close | clients, `core/secure_shell` which starts and stops it |
| SSH session (`internal/secure_shell/session.go`, `core/secure_shell/server.go`) | session fields, `winch`, exit status, the channel | request loop, handler, resizing goroutine, Exit | the client, the command or shell |
| SSH signals and breaks (`internal/secure_shell/session.go`) | `sigCh`, `sigBuf`, `breakCh`, the session mutex | Signals, Break, request loop, flushing goroutines | the handler, the receiver of its channels |
| Guest statistics (`core/stat_poller.go`, `core/guest_stat.go`) | one `GuestInfo` updated in place, a mutex | Run, update, Stat, GetInfo | the kernel, utmp, requests |
| File transfer (`services/filesystem/service.go`, `client/filesystem.go`) | temporary file, target, the stream | UploadFile, DownloadFile, streamTo, copyFrom | the client, the disk |
| Umask (`core/filesystem.go`) | the umask of the process | SetFileMode, CreateDir | each other, shells of the SSH server |
| Virtio serial device (`internal/devconn`) | one device, its mutex, one connection | Listen, Accept, Close | gRPC, GracefulStop |
| SSH user key and login (`core/server.go`, `core/secure_shell/server.go`, `client/secure_shell.go`) | the key pair of this process, the client's key file | generate, publish, GetUserKey, exec of ssh(1), handshake | restarts of the agent, kills of the client |
| SSH port forwarding (`internal/secure_shell/tcpip.go`, `agent.go`) | map of listeners by address, pairs of copiers | forward, cancel, end of a connection, proxying | not registered by the agent |
| Network requests (`core/network.go`) and initialisation (`cmd/agent/netinit.go`, `internal/cloudinit`) | the kernel's links, addresses and routes; a mount | add and delete addresses and routes, link up and down, list routes; configure and deconfigure | each other (two processes), the host that unplugs |
| Mount table, users and groups (`core/filesystem_utils.go`) | none: read for every request | GetMountPoints, GetOSUsers, GetOSGroups, SetFileOwner | FreezeFileSystems |
| Certificates, version, clients, generated API | none between requests | one call each | |

### What is hard, and what makes each part correct

- **Freeze gate.** Filesystems are visited one ioctl at a time while other
  requests run; the flag is set before the first and cleared after the last, by
  requests that may overlap, fail half way, or die with the process, and the
  kernel keeps what they did. Correct: an agent that is not locked has left
  nothing frozen; an operator can always get back; nobody waits for ever.
- **Start and stop.** Listeners come up while the agent stops. Correct: nothing
  is left behind and the stop completes.
- **SSH server.** Close and Shutdown empty the maps while goroutines that own
  counts are still leaving. Correct: exact counts, everything open reachable,
  Shutdown waits for what it found, the stop is not lost.
- **SSH session and signals.** Unlocked reads of fields that are still written,
  a blocking send on a channel that may have no reader, sends with the mutex held.
  Correct: no send on a closed channel, the terminal follows the client's window, a
  status before the close, no signal lost, no deadlock.
- **Statistics.** Fields are read after the mutex was released. Correct: nothing
  older than the request, no mixture without an overlap, always an answer.
- **File transfer.** Failure of either side or power loss at any step. Correct:
  the path always names one whole file, success means replaced, no debris.
- **Serial device.** Accept sleeps with the mutex held that Close needs, and
  Close pulls the device from under its user. Correct: one connection at a time, and
  the stop still completes.
- **Network.** netinit makes a dozen netlink calls, any of which fails, and is
  run again over what it left. Correct: success means configured, a repetition
  succeeds, a request does not take the agent down.
- **Umask, tables.** Process-wide state and files of the guest that are not
  always in order. Correct: undisturbed requests are exact and the damage of
  overlapping ones is bounded; names resolve as the files say; every filesystem
  that can be frozen is listed, which holds but for those on device-mapper and
  loop devices.
- **Key, forwarding.** State looked up again by a key that may mean another one
  by now. Correct: a key opens the door of the process that gave it; a listener
  does not outlive its connection; a proxy closes both its ends.

## 2. Modules and the code

One TLA+ step is a region the code runs without giving others a chance that the
properties could notice: a critical section, one system call, one channel
operation. Data is reduced to what the properties distinguish: a filesystem, a
listener or a connection is a model value, a file is the upload it comes from
and a number of chunks, a statistic is the number of the poll that wrote it.
Definitions whose comment starts with "Seeded bug" are not part of any
specification. They are variants of the definition they precede, used to see
that the properties notice such a bug.

**FreezeGate** is the abstract specification: a gate that is closed, open or
unknown, and a set of frozen filesystems that grows only behind a gate that is
not open; the gate opens only when nothing is frozen.

**FSFreeze** models the requests. `Refuse`/`Admit` are the interceptor: unary
methods other than GetInfo and Unfreeze are refused while `locked`; the check of
the stream interceptor is commented out in the code, so uploads are never
refused. `Read` is a request that only reads, answered in one step.
`ListToFreeze`, `Lock`, `FreezeOne`, `FreezeReturn` are FreezeFileSystems, `ListToThaw`, `ThawOne`, `Unlock` are UnfreezeFileSystems,
`FreezeOrThawFails` every early return of both. A writer (`Write`) sleeps while
its filesystem is frozen. `Opened` models the mount point of a filesystem that
was unmounted after the list was read: the ioctl reaches the filesystem below.
`NewServer` is the new process, unlocked whatever the kernel holds frozen;
`GracefulStop`, `SecondSignal` (signals are no longer caught after the first)
and `Crash` lead to it. Two history variables: `clean[h]` says that an Unfreeze
saw all frozen filesystems and met no Freeze, `sound` that the flag was last
cleared by such an Unfreeze, or by a process that started over nothing frozen.

**SSHServer** has one action per critical section of `srv.mu` and per step
between them. History: `stopped` (the Serves in Accept at a stop) and `awaited`
(the connections a Shutdown or Close found).

**SSHSession** is one session: `Requests` and `Loop` are the request loop,
`Handler` and `CommandOrShellEnds` the handler goroutine with the Exit(0) after
it, `Resize` the goroutine that ranges over `winch`. The loop writes
`sess.pty.Window` without a lock while sess.Pty() may be copying it: `reads` holds
what such a copy may find, and `CopyWindow` takes the two numbers of a window from
it one by one. The agent's handler makes no use of the sizes in its copy; the
terminal gets them through `winch`. **SSHSignals** is the signal and break part of
the same file, with the handler as the client of the package (the agent's own
handler registers no channel). Signals starts a goroutine whose range over `sigBuf`
is evaluated later and without the mutex: `ReadBuffer` finds what was there when
the goroutine was started and any part of what was appended since, possibly with
`Garbage` where the new length is ahead of the memory it belongs to.

**AgentServe** is ListenAndServe: the set-up, which may fail and return
(`SetUp`, `SetUpFails`), the listener goroutine, the main goroutine
that meets it on the unbuffered channel, the Serves, and the stopping goroutine.
grpc-go is external: Serve closes its listener and fails on a server that was
stopped, GracefulStop closes the listeners and waits for the requests.
**AgentDevice** extends it with the main listener in its two forms, a vsock socket
or the serial port: steps of AgentServe are conjoined with what they do to the
device (`DeviceGracefulStop` needs the mutex, `DeviceServeStops` the return of
Accept), and the device adds its own. It refines AgentServe, which is proved. A
connection on the device is over when its transport has called Close. Since
DeviceConn.Close closes nothing, a Read which that transport has begun may still be
waiting in the file; it is outside the model.

**StatPoller** is Run, update field by field in the order of the code, and
GetInfo with its reads in the other order. Each function that fills a part of
GuestInfo is an action (`Sysinfo`, `UpdateMemStatFields`, `UpdateUtsnameFields`,
`GetBlockdevStat`); the users come from utmp (`ViaUtmpFile`) or, without a utmp file
(`NoUtmp`), from logind (`ViaSystemd`). **FileCopy** is one guest path with
concurrent uploads and downloads, both ends of each stream, crash and power
loss: a file keeps at least what was flushed, and since the directory is not
flushed the path may name any file it has named since the last power loss.
Temporary names are assumed not to be reused. **FileRegister** is the abstract
specification of it: a path that is a register of whole files, replaced by an
upload in one step while its handler runs, before success is told, and delivered
by a download as it was at one moment. `Register` in FileCopy is the mapping.

**Network** is one interface with its addresses and routes, netinit as a process
that takes one step per system or netlink call (`pc` names the next one; `FindMarker`
and `FindDevice` are the search for the NoCloud marker and its device), and the
agent's requests, which may come between any two of them. An address of the
configuration is an address and the way it is written, because netinit compares
text. The kernel's rules (which gateways are reachable, what an interface loses
when it goes down, which addresses go with the first one of an IPv4 subnet when it
is deleted) are external, and listing the addresses of an interface that has been
replaced meanwhile finds none and is no error. `NameRoutes` is the loop of GetRouteList that
ignores the error of InterfaceByIndex; whether an interceptor of the gRPC library
recovers from the nil dereference is left open. `fault` and `changes` remember
that a call failed for a reason of its own, or that somebody else changed the
network during this run of netinit.

**Umask** has a step for each system call of SetFileMode and CreateDir on one path;
a mode is a set of bits. MkdirAll leaves a directory that is there as it is and
succeeds; the guest may make, change or remove the path at any time. **OSTables** turns the contents of mounts, passwd and group into
the list of mount points and the owner of a file. `ReadAccount` and `ReadMount`
are one turn of the code's loops, so that a table is read line by line, and the
properties compare the result with a definition that has no loop. A number may be
negative, ids wrap at 32 bits, and one that is -1 by then makes chown(2) keep the
owner or group the file has. The files can
be opened and read, and chown(2) itself is not refused.
**SSHAccess** is the key pair of each start of the agent, its publication by a
goroutine, the client up to its exec of ssh(1), and the login.

**ForwardedTCP** is the map of remote forwardings with the three goroutines that
go to it by address; `strays` remembers the forwardings whose entry another one
overwrote or deleted, or whose accept loop broke. **SSHProxy** is what becomes of an accepted
socket, a direct-tcpip channel or an agent connection: its two copiers, each with
the deferred closes after its io.Copy, one by one.

`MCRequests` puts Network, Umask, OSTables and SSHAccess side by side, and
`MCChannels` does the same with SSHSession, ForwardedTCP and SSHProxy. These parts share no
state, so in each behaviour one of them moves (`part`): every behaviour of every
part is explored, and their states add up instead of multiplying. `MCFileCopy`
gives the sizes of the uploads; `…Proofs` hold the proofs. Liveness properties
are stated after the fairness they need.

## 3. Runs

| Run | Instance | Shows |
|---|---|---|
| `freeze` | 2 goroutines, 2 filesystems, 2 Freezes, 1 error, 2 mount changes, 2 stops or crashes | `GateSound`, `UnfreezeThawsAll`, and that FSFreeze implements FreezeGate; `EventuallyRecovered`, `EveryRequestReturns`, `StopEnds`: all but a graceful stop that waits for a writer on a frozen filesystem comes to an end |
| `ssh_server` | 2 Serves, 1 connection, 2 stops, 1 temporary error | `WgCounts`, `OpenIsTracked`, `ShutdownWaited`; `StopsEnd`, `StoppedServeReturns` |
| `ssh_signals` | 3 signals, a buffer of 2, 3 registrations, 1 break | `SignalsInv` (nothing lost, live signals in order); `HandlerFinishes`, `BufferedArrives` |
| `agent_serve` | vsock or serial port, 2 addresses, 2 rescans, 2 requests | `ServeInv`, `NothingLeftOfDevice`; `StopCompletes` |
| `stat_poller` | 1 request at a time, repeated; 3 polls | `PollerInv` (replies are fresh), `QuietReplyIsOnePoll`; `RequestAnswered` |
| `file_copy` | an upload of 0, 1 or 3 chunks and one of 2 against a limit of 2, 1 download, 1 crash or power loss | `UploadInv` (success means replaced, no temporary file left), `CopyWhole`, and that FileCopy implements FileRegister (`CopiesAreAtomic`); `UploadEnds` |
| `requests` | Network: 4 addresses, two of them of one IPv4 subnet and one a host address, one more destination, 3 configurations, 2 disturbances per netinit. Umask: 2 requests, 2 permission bits, 1 special bit, 3 modes. OSTables: passwd and group of up to 2 lines, mount tables of up to 3. SSHAccess: 2 clients, 3 starts | `NetinitDelivers`, `NetinitRepeats`, `NetworkSound`; `UmaskSound`; `OwnerResolves`, `MountsCovered`; `AccessSound` |
| `ssh_channels` | SSHSession: 5 requests. ForwardedTCP: 2 connections, 2 forwardings, a fixed port and port 0. SSHProxy: 1 proxied socket, reused | `SessionInv` (sends are safe, the terminal follows), `HandlerInputsStable`, `StatusBeforeClose`, `SessionEnds`; `ForwardInv`, `ForwardEnds`, `DeadEntriesGo`; `ProxyInv`, `ProxyEnds` |

The type invariant of a module is part of its first invariant; that of FSFreeze
and SSHServer is part of the invariants that are proved.

### Disagreements between the code and what it says

Each of these runs checks a sentence of a comment, a log or a message, and TLC
finds a behaviour of the code that contradicts it.

| Run | Sentence | What happens |
|---|---|---|
| `freeze_overlap` | "unfreeze all frozen guest filesystems" (`cmd/client/usage.go:90`) | An Unfreeze beside a Freeze visits a filesystem before it is frozen and answers success. |
| `ssh_server_lost_stop` | Serve returns ErrServerClosed after Shutdown or Close (`internal/secure_shell/server.go:14`) | A Shutdown or Close before `trackListener` is lost: Serve resets `doneChan` and accepts for ever. |
| `ssh_session_status` | "Command exited with error" (`core/secure_shell/server.go:243`) | The error is shadowed and the status sent is 0. |
| `freeze_scope` | "freeze all freezable guest filesystems" (`cmd/client/usage.go:86`) | A filesystem on a dm- device mounted by its /dev/mapper link (LVM, dm-crypt), or on a loop device, is left out of the list without an error. |

Smaller ones show in the properties as the exceptions they have to make:

- `StoppedServeReturns`: a second Serve may reset `doneChan` before the first has
  looked at it, which then returns a plain error.
- `ShutdownWaited` speaks of established connections: one still in its handshake
  is not counted, and Shutdown does not wait for it.
- `HandlerInputsStable`: `sess.pty.Window` is written under the running handler, so
  what sess.Pty() returns may be half of one size and half of another.
- `SessionEnds`: a window change that no shell reads blocks the request loop,
  which then never sees that the client is gone.
- `LiveInOrder` (in `SignalsInv`) speaks of live signals: a signal that arrives after the
  registration may overtake the buffered ones. `OnceIsExact` (also there) is
  about a handler that calls Signals once: with a second call the unlocked read of
  `sigBuf` may bring a value that was never a signal.
- `ServeInv` counts connections on the device, not the Reads that closed ones may
  have left behind in it.
- `StopCompletes` starts from a cancelled context: when no listener could be
  opened, "No one server has been launched. Exit" is logged and the agent waits
  for a signal.
- `QuietReplyIsOnePoll` excludes overlapped and failed polls: readiness is a
  non-zero Uptime, the first field an update writes, so an early answer may lack
  the others.
- `NetinitRepeats`: an address that is not written canonically ("2001:DB8::1/64")
  is not found among the assigned ones, so a second netinit fails with it; and a
  deconfigure fails when deleting one address of a subnet has taken another along.
- `NetworkSound`: a route without an interface in the table, or an interface
  unplugged between the two calls, is a nil dereference in GetRouteList.
- `UmaskSound`: two overlapping requests may leave the agent, and every shell
  started later, with umask 0; setuid, setgid and sticky are dropped; a CreateDir
  that finds a directory answers success whatever mode that has.
- `OwnerResolves`: an owner or group that comes to the id -1 is a success that
  changes nothing.
- `AccessSound`: a client before the key is published gets an empty key without
  an error, and the key file of a client that became ssh(1) stays.
- `MountsCovered` speaks of filesystems on neither a dm- nor a loop device, and
  lists one that is mounted through a link once per mount.
- `ForwardEnds`: a listener whose map entry another forwarding overwrote or
  deleted stays open after its connection.
- The interceptor's "All filesystems are frozen" is about the flag, which is set
  before the first filesystem is frozen.

### Bounds

Every bound is a constant named in its module. Two goroutines are needed for any
race between requests; one fault, and one crash beside a stop, suffice to put each
kind of accident at every point, the second Freeze lets it happen before and after
a recovery, and with two mount changes a filesystem unmounted while frozen comes
back. The theorems of section 5 remove these bounds for every safety property of
the passing runs. A filesystem that cannot be frozen takes part in `freeze_overlap`
and in the theorems. Two Serves allow the reuse of the server and two stops a Close beside a Shutdown.
Five requests cover pty-req, env, a shell and two window changes, the number that
fills and then blocks `winch`. The signal buffer of 128 is 2, and 3 signals
overflow it or arrive between a registration and the read of the buffer. The 20 rescans are 2. Three polls give an answer a first, a stale and
a fresh value; requests are independent of each other, so one at a time,
repeated, is enough. The two uploads cover every number of
chunks from the empty file to one over the limit, and a file of two chunks beside
one of one is what a download could mix.

netinit may be repeated without bound, so that what one run left is what the next
one finds; two addresses of one subnet let one go with the other; the three
configurations have both families with gateways and a route,
a host address that needs a link route, an address in another spelling, and one
netlink does not parse; the three modes have the bit the umask takes, lack it, or
have a special one. Two table lines make a name occur twice, three mount
lines a device, a link and a duplicate of either. Three starts of the agent give a
client a key of the past, and one of the process before. Two forwardings of one
address are what the map can confuse; a connection ends only once.

`SpareHandler` in FSFreeze keeps one goroutine of the bounded set free of
writers; gRPC starts a goroutine for every request, so Unfreeze can always run.

### Deadlock and fairness

Deadlock is checked in `requests`, `stat_poller` and `freeze_overlap`. It is off
where the system really ends: ListenAndServe returns, an SSH server stops, a
session is over, the copies are done, the connections with their forwardings have
ended, and in `freeze`, where a writer asleep on a frozen filesystem keeps
GracefulStop waiting and the stopped server admits no Unfreeze that would wake it;
the liveness properties say this is the only such case.

Weak fairness of goroutine steps is the Go scheduler; strong fairness of steps
that take a mutex (Signals, Exit, Stat, and the Close of the serial port inside
GracefulStop, which competes with an Accept that takes the mutex again and again)
rests on sync.Mutex not starving a waiter. `freeze` assumes in addition that the
operator repeats Unfreeze (strong fairness of its admission) and that a process
that ends is started again by systemd. Requests in AgentServe end, and so do
connections on a closed device; both ends of an upload go on while they can; an
SSH client closes a channel the server has closed, or its connection ends, and
answers a request for a channel. The copiers of a proxied socket go on, which
supposes peers that read what is written to them (`ProxyEnds`): a write to one that
never does would keep its copier from seeing the end of its source. A poll goes on,
which supposes that the D-Bus and statfs calls it makes return (`RequestAnswered`).
Nothing makes anybody call Serve, a client hang
up or finish a handshake, an open listener fail, a command or shell end, an
operator signal the agent, the poller tick, a forwarding be asked for or
cancelled, a peer of a proxied socket stop sending, a write to one fail, or the
utmp loop end.
`requests` is a safety run: what its parts promise is what a call returns.

## 4. Hazards

`PROJECT.json` lists them with the line where each bites and the properties that
would catch it. One has no property: the torn slice header in GetInfo, which is
below the granularity of StatPoller. Some are of outcomes the code does allow: the
route without an interface, the empty early key, the key file left to ssh(1), the
stray listeners, the mixed answer of an overlapped GetInfo. There the property names
the outcome as its exception, and what it establishes is that nothing worse happens.

## 5. What is proved

For every value of the constants, checked by TLAPS. **FSFreezeProofs** assumes
`FSAssumption` (Root is a filesystem that can be frozen) and proves

- `TypeCorrect`: `Spec => []TypeOK`;
- `GateIsSound`: `Spec => []GateSound`;
- `CleanUnfreezeThawsAll`: `Spec => UnfreezeThawsAll`;
- `AgentImplementsGate`: `Spec => Gate!Spec`, the refinement.

`GateSound` is not inductive: the step that clears the flag must know that
nothing is frozen. The inductive invariant is `GateInv`, the conjunction of
`TypeOK`, `GateSound`, `LoopIsLocked` (whoever freezes has the flag set under
it, or the flag is not to be believed) and `CleanThaw` (what is frozen beside a
clean Unfreeze is among what it has yet to visit, still mounted, and nobody
freezes). `CleanThaw` gives `frozen = {}` at `Unlock`; `LoopIsLocked` covers
`FreezeOne`. The refinement maps each step with the same invariant.

**SSHServerProofs** assumes `ServerAssumption` (finitely many Serves and
connections) and proves `WaitGroupsExact`, `OpenAlwaysTracked` and
`ShutdownWaits`. The counts are cardinalities of the sets of goroutines between
Add and Done, so each Add or Done adds or removes one element, and the
decrements stay in Nat. `ShutdownWaited` needs `AwaitedWereTracked`: the
connections a stop found are past their handshake, so a zero count of
connections means they have ended. `SrvInv` conjoins them.

**AgentDeviceProofs** assumes `ServeAssumption` (the main listener is not an
address) and proves `DeviceImplementsServe` (`DeviceSpec => Spec`, every step of
the composition is a step of AgentServe or a stutter of it), `ServeHolds`
(`[]ServeInv`) and `ReturnsClean` (`[]NothingLeftOfDevice`). `SocketOwned` needs to
know that an address is bound and offered once and that GracefulStop finds every
Serve (`Hands`); `NothingLeft` needs the order of the stop (`StopOrder`), and that a
set-up that failed has started none of the goroutines. Both are
proved for AgentServe and carried over by the refinement; on top of them
`AcceptHeld` says that the device's Accept belongs to a Serve and sleeps only while
nobody uses an open device.

**SSHSessionProofs** proves `SendsAreSafe`, `InputsStandStill` and
`StatusComesFirst` for any number of requests. `WinchOwned` (only the loop makes
and closes `winch`) gives the first; `HandlerOrder` (what holds at each place of
the handler, such as that one about to return has closed the channel or run a
shell) gives the two action properties. `TerminalFollows` needs of `WinchOwned` that
a pty's size stays in `winch` until somebody reads it, so that the terminal is behind
the window by what `winch` and the loop hold and by nothing else.

**FileCopyProofs** assumes `CopyAssumption` (sources of at most one chunk over a
limit of at least one, which is where an upload is cut off) and proves
`CopiesAreWhole` and `UploadsAreHonest` for any
number of uploads, downloads, crashes and power losses. `CopyInv` follows a chunk
from the client to the path: what was received was sent (`InFlight`); past the
loop the temporary file is complete and past Sync it is on the disk (`Complete`),
so a power loss finds only whole files among those the path has named
(`NamesWhole`); success is sent after the rename and ends the handler (`Honest`);
an open file keeps its content under a download (`CopyFaithful`). With the same
invariant `CopyImplementsRegister` (`Spec => CopiesAreAtomic`) maps every step to
one of FileRegister: `Rename` is its `Replace`, a power loss finds an earlier whole
file, `CopyEnds` delivers what `OpenFile` saw, and chunks are invisible.

**StatPollerProofs** assumes only that the bound on polls is a number
(`PollsAssumption`) and proves `RepliesAreFresh` and `QuietRepliesAreWhole` for any
requests. An answer in the making is the hard part: `ReadFresh` says that the
fields read so far are not older than the start, `ReadQuiet` that, nobody having
written since, they are those of a GuestInfo of one poll, and `UpdatedInOrder` that
the fields written so far are those of the poll; `LogindLast` that logind is
asked for the last field.

**SSHChannelProofs** has the three parts of the SSH package beside a session. Under
`ForwardAssumption` (port 0 is no fixed port; forwardings are numbered) it proves
`ForwardsAgree`: `KeysRight` (what is found under an address is a listener of that
address) makes every close one of the causes of `ClosedForCause`, `HandlersKnow`
and `Asked` follow a listener between its creation and its entry. Under
`SignalsAssumption` (the bounds are numbers) it proves `SignalsAccounted`:
`LiveInOrder` needs `Numbered` (the signal in the loop's hands is the newest and
was not received) and `BufferedApart` (the flushing goroutines send no live one,
whatever part of the buffer they find).
`ProxiesAreWatched` assumes nothing and proves `ProxyInv` of SSHProxy; `Staged` says
what a pipe has at each stage of its life.

**RequestsProofs** has the parts that `MCRequests` puts side by side.

- Umask, under `UmaskAssumption` (the umask consists of permission bits, modes are
  sets of bits and a path without a mode is told apart from them):
  `UmaskIsSound`. `OldKnown` (a request remembers the original umask or none) bounds
  the damage; `Alone` (without an overlap the one request that has swapped holds the
  original) gives exactness.
- SSHAccess, under `AccessAssumption` (there is a first start): `AccessIsSound`.
  `DoorKeys` ties the two copies of the key pair to the start of the agent, `KeysOld`
  says that no client is ahead of it, `InWhileReady` that a login ends with its
  server.
- Network, under `NetworkAssumption` (host addresses are IPv4 addresses, the
  families are disjoint, routes are not named like the gateways, configurations are
  of their type and there is one): `NetinitAlwaysDelivers`, `NetinitCanBeRepeated`
  and `NetworkIsSound`. `NetInv` is a loop invariant for each stage of netinit:
  `Controlled` and `MountTracked` say which stage may be reached how,
  `NetworkKnown`, `AddrsGiven` and `RoutesGiven` what is known of the network as long
  as nobody else has changed it. That the default route is accepted rests on the
  first IPv4 address, which exists because every non-empty set of numbers has a
  least one (`LeastNumber`).
- OSTables, under `TablesAssumption` (tables are sequences of lines, ids and numbers
  are integers, and they wrap somewhere): `OwnersResolve` and `MountsAreCovered`, for tables of any length. The
  loop invariants are `Reads` (the map has the names of the lines read so far, each
  with the id of its last line) and `Covers` (every filesystem among them is listed);
  the invariant of the specification says they hold of the line the scanner has
  come to, and so does without induction over tables.

Three things were changed because the proofs asked for it. `GatewaysFrom` and
`ListRoutes` had a CASE with overlapping guards, whose value TLA+ does not
determine and TLC takes from the first; they are nested IFs now. OSTables used folds
over a whole table and became a machine that reads a line in a step, as the code
does. SSHProxy closed both ends of a socket in one step, which made an invariant of
them hold by construction; the two deferred calls are steps of their own now, and a
copier may also return because a write fails.

The inductive invariants were checked by TLC on the instances of the runs before
they were proved. Only model-checked are the liveness properties (fairness and
ENABLED are outside TLAPS's reach here): `EventuallyRecovered`,
`EveryRequestReturns`, `StopEnds`, `StopsEnd`, `StoppedServeReturns`, `SessionEnds`,
`HandlerFinishes`, `BufferedArrives`, `StopCompletes`, `RequestAnswered`,
`UploadEnds`, `ForwardEnds`, `DeadEntriesGo`, `ProxyEnds`.

## 6. Not modelled

Certificates and TLS configuration, command-line parsing and printing, generated
protobuf code, SSH options, context values and the parsing of SSH payloads (a
payload parses or is refused), the newline rewriting of session output, requests
that only read (GetInterfaceList; file hashes and stats beyond their admission and
answer), a Read left behind on the serial device by a closed connection,
gateways and routes of a cloud-init configuration that are malformed, and the
parsing of versions, which nothing in the agent calls. Which bytes a key, a
certificate or a file consists of is left out everywhere. StatPoller's fields are
atomic.

## 7. Plan

Modelled, in this order: FreezeGate and FSFreeze, SSHServer, SSHSession,
SSHSignals, AgentServe, StatPoller, FileCopy, AgentDevice, Network, Umask,
OSTables, SSHAccess, ForwardedTCP and SSHProxy. Proved: FSFreeze, SSHServer,
AgentDevice, SSHSession, FileCopy, StatPoller, SSHSignals, ForwardedTCP, Umask,
SSHProxy, SSHAccess, Network, OSTables.

Left, in the order of its worth:

1. What the liveness properties need of the state, as invariants that can be proved:
   whoever waits for a mutex, a channel or a wait group waits for somebody who can
   move (SSHServer, SSHSession, StatPoller).
2. An abstract specification of the SSH server's life cycle (serving, stopping,
   stopped) that SSHServer implements.
