----------------------------- MODULE SSHAccess -----------------------------
(***************************************************************************)
(* How a client of the agent gets a shell: the agent makes a key pair when *)
(* it starts (core/server.go, core/secure_shell/server.go) and hands out   *)
(* the private key over gRPC; the client (client/secure_shell.go) asks for *)
(* it, writes it to a temporary file and becomes ssh(1), which logs in.    *)
(* The key is published by a goroutine the requests do not wait for, the   *)
(* agent may be restarted at any time, and each step of the client fails.  *)
(***************************************************************************)
EXTENDS Naturals

CONSTANTS
    Client,       \* clients
    MaxBoots      \* bound: starts of the agent

ASSUME AccessAssumption == MaxBoots \in Nat \ {0}

VARIABLES
    boot,       \* which start of the agent this is; its key pair has this number
    sshd,       \* the goroutine of NewServer
    served,     \* the private key GetUserKey hands out, 0 for none
    accepted,   \* the public key that opens the door, 0 for none
    handlers,   \* the channel types with a handler
    client,     \* client[c]: the step client c is at
    key,        \* key[c]: the key it was given, 0 for an empty answer
    file,       \* file[c]: its temporary key file is there
    chan        \* chan[c]: the channel it asked for last

agentSide == <<boot, sshd, served, accepted, handlers>>
clientSide == <<client, key, file, chan>>
accessVars == <<agentSide, clientSide>>

\* "in", "denied", "refused" and "cut" are how far ssh(1) came.
ClientStep == {"idle", "ask", "create", "write", "chmod", "exec", "remove", "error",
               "killed", "login", "in", "denied", "refused", "cut"}

AccessTypeOK ==
    /\ boot \in 1..MaxBoots
    /\ sshd \in {"off", "generate", "publish", "listen", "serve", "ready", "failed", "down"}
    /\ served \in 0..MaxBoots /\ accepted \in 0..MaxBoots
    /\ handlers \subseteq {"session", "default"}
    /\ client \in [Client -> ClientStep]
    /\ key \in [Client -> 0..MaxBoots]
    /\ file \in [Client -> BOOLEAN]
    /\ chan \in [Client -> {"none", "session", "rejected"}]

AccessInit ==
    /\ boot = 1 /\ sshd = "generate"
    /\ served = 0 /\ accepted = 0 /\ handlers = {}
    /\ client = [c \in Client |-> "idle"]
    /\ key = [c \in Client |-> 0]
    /\ file = [c \in Client |-> FALSE]
    /\ chan = [c \in Client |-> "none"]

-----------------------------------------------------------------------------
(* The agent *)

\* Seeded bug: the public key is made of another key pair.
GenerateKeyTwice ==
    /\ sshd = "generate"
    /\ sshd' = "publish" /\ accepted' = IF boot = 1 THEN 1 ELSE boot - 1
    /\ UNCHANGED <<boot, served, handlers, clientSide>>

\* secure_shell.NewServer: one RSA key, and its public half.
GenerateKey ==
    /\ sshd = "generate"
    /\ sshd' = "publish" /\ accepted' = boot
    /\ UNCHANGED <<boot, served, handlers, clientSide>>

\* srv.sshUserKey = sshSrv.UserPrivateKey, read without a lock by GetUserKey.
Publish ==
    /\ sshd = "publish"
    /\ sshd' = "listen" /\ served' = boot
    /\ UNCHANGED <<boot, accepted, handlers, clientSide>>

\* vsock.Listen, and the options of the server.
ListenVsock ==
    /\ sshd = "listen"
    /\ sshd' = "serve"
    /\ UNCHANGED <<boot, served, accepted, handlers, clientSide>>

\* Serve begins with ensureHandlers and ensureHostSigner.
EnsureHandlers ==
    /\ sshd = "serve"
    /\ sshd' = "ready" /\ handlers' = {"session"}
    /\ UNCHANGED <<boot, served, accepted, clientSide>>

\* The goroutine logs the error and returns; a key once published stays.
StartFails ==
    /\ sshd \in {"generate", "listen", "serve"}
    /\ sshd' = "failed"
    /\ UNCHANGED <<boot, served, accepted, handlers, clientSide>>

\* The process ends; its SSH connections end with it.
AgentEnds ==
    /\ sshd # "down"
    /\ sshd' = "down" /\ served' = 0 /\ accepted' = 0 /\ handlers' = {}
    /\ client' = [c \in Client |-> IF client[c] = "in" THEN "cut" ELSE client[c]]
    /\ chan' = [c \in Client |-> "none"]
    /\ UNCHANGED <<boot, key, file>>

\* Without SSH, or in legacy mode, there is no goroutine.
AgentStarts ==
    /\ sshd = "down" /\ boot < MaxBoots
    /\ boot' = boot + 1
    /\ sshd' \in {"generate", "off"}
    /\ UNCHANGED <<served, accepted, handlers, clientSide>>

-----------------------------------------------------------------------------
(* ExecSecureShellClient *)

At(c, from, to) == client[c] = from /\ client' = [client EXCEPT ![c] = to]

\* The endpoint is a vsock address; socat and ssh are found.
Begin(c) ==
    /\ At(c, "idle", "ask")
    /\ UNCHANGED <<agentSide, key, file, chan>>

\* An answer without a key is no error.
GetUserKey(c) ==
    /\ sshd # "down"
    /\ At(c, "ask", "create")
    /\ key' = [key EXCEPT ![c] = served]
    /\ UNCHANGED <<agentSide, file, chan>>

CreateTemp(c) ==
    /\ At(c, "create", "write")
    /\ file' = [file EXCEPT ![c] = TRUE]
    /\ UNCHANGED <<agentSide, key, chan>>

WriteKey(c) ==
    /\ At(c, "write", "chmod")
    /\ UNCHANGED <<agentSide, key, file, chan>>

Chmod(c) ==
    /\ At(c, "chmod", "exec")
    /\ UNCHANGED <<agentSide, key, file, chan>>

\* syscall.Exec: the client is ssh(1) now, and its deferred calls never run.
Exec(c) ==
    /\ At(c, "exec", "login")
    /\ UNCHANGED <<agentSide, key, file, chan>>

\* An error before there is a file returns; after that the deferred calls run.
ClientFails(c) ==
    /\ \/ At(c, "idle", "error") \/ At(c, "ask", "error") \/ At(c, "create", "error")
       \/ At(c, "write", "remove") \/ At(c, "chmod", "remove") \/ At(c, "exec", "remove")
    /\ UNCHANGED <<agentSide, key, file, chan>>

\* After a second's sleep.
RemoveKey(c) ==
    /\ At(c, "remove", "error")
    /\ file' = [file EXCEPT ![c] = FALSE]
    /\ UNCHANGED <<agentSide, key, chan>>

\* The client is interrupted; nothing deferred runs.
Killed(c) ==
    /\ \E s \in {"ask", "create", "write", "chmod", "exec", "remove"} : At(c, s, "killed")
    /\ UNCHANGED <<agentSide, key, file, chan>>

\* The user starts the client again; a file that was left is not its own.
Again(c) ==
    /\ client[c] \in {"error", "killed", "in", "denied", "refused", "cut"}
    /\ client' = [client EXCEPT ![c] = "idle"]
    /\ key' = [key EXCEPT ![c] = 0]
    /\ file' = [file EXCEPT ![c] = FALSE]
    /\ chan' = [chan EXCEPT ![c] = "none"]
    /\ UNCHANGED agentSide

-----------------------------------------------------------------------------
(* The SSH connection *)

\* The PublicKeyHandler; KeysEqual is false when there is no key.
KeysEqual(a, b) == a # 0 /\ b # 0 /\ a = b

\* The server accepts connections from Listen on, but answers when it serves.
Handshake(c) ==
    /\ sshd = "ready"
    /\ At(c, "login", IF KeysEqual(key[c], accepted) THEN "in" ELSE "denied")
    /\ UNCHANGED <<agentSide, key, file, chan>>

\* Nobody listens on the port.
Refused(c) ==
    /\ sshd \notin {"serve", "ready"}
    /\ At(c, "login", "refused")
    /\ UNCHANGED <<agentSide, key, file, chan>>

\* HandleConn gives each channel to the handler of its type, or to "default".
OpenChannel(c, t) ==
    /\ client[c] = "in"
    /\ chan' = [chan EXCEPT ![c] = IF {t, "default"} \cap handlers # {} THEN "session" ELSE "rejected"]
    /\ UNCHANGED <<agentSide, client, key, file>>

AccessNext ==
    \/ GenerateKey \/ Publish \/ ListenVsock \/ EnsureHandlers \/ StartFails
    \/ AgentEnds \/ AgentStarts
    \/ \E c \in Client :
         \/ Begin(c) \/ GetUserKey(c) \/ CreateTemp(c) \/ WriteKey(c) \/ Chmod(c) \/ Exec(c)
         \/ ClientFails(c) \/ RemoveKey(c) \/ Killed(c) \/ Again(c)
         \/ Handshake(c) \/ Refused(c)
         \/ \E t \in {"session", "direct-tcpip"} : OpenChannel(c, t)

AccessSpec == AccessInit /\ [][AccessNext]_accessVars

-----------------------------------------------------------------------------
(* Properties *)

\* A key that was handed out opens the door of the process that handed it out:
\* a login is denied only to a client that came before the key was published,
\* or whose agent was restarted since; and nobody is in with an older key.
KeyOpensDoor ==
    \A c \in Client :
        /\ client[c] = "denied" => key[c] = 0 \/ key[c] < boot
        /\ client[c] = "in" => key[c] = boot

\* A client that returns an error leaves no key file; only one that was
\* killed or became ssh(1) does.
KeyFileGone ==
    \A c \in Client : client[c] \in {"idle", "ask", "create", "error"} => ~file[c]

\* What a client of the SSH server can rely on, over restarts of the agent and
\* kills of the client.
AccessSound == AccessTypeOK /\ KeyOpensDoor /\ KeyFileGone
=============================================================================
