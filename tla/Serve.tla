------------------------------- MODULE Serve -------------------------------
(***************************************************************************)
(* The life of the daemon around its requests: the socket it opens or is   *)
(* given (internal/daemon/daemon.go, Listen), the server that accepts and  *)
(* drains (Serve), the process and its signals (cmd/ksuite-maild/main.go), *)
(* and the command line at the other end (internal/udsclient/udsclient.go, *)
(* cmd/ksuite-mail/read_commands.go).                                      *)
(*                                                                         *)
(* In production systemd owns the socket and starts the daemon for a       *)
(* connection; in development a daemon binds the path itself, and nothing  *)
(* keeps a second one from being started.                                  *)
(***************************************************************************)
EXTENDS Naturals, FiniteSets

CONSTANTS
    Daemon,         \* processes; a name is used again after an exit
    Client,         \* commands that run at the same time
    Mode,           \* the deployments: "systemd", "path"
    MaxStops,       \* bound on signals, crashes and failures to accept
    MaxStarts       \* bound on the daemons started by hand

ASSUME ServeAssumption ==
    /\ Mode \subseteq {"systemd", "path"}
    /\ "systemd" \notin Daemon /\ "none" \notin Daemon
    /\ MaxStops \in Nat /\ MaxStarts \in Nat

VARIABLES
    mode,
    file,           \* the socket the path in /run leads to
    open,           \* the sockets somebody listens on
    phase,          \* the daemons
    client,         \* the commands
    stops, starts,  \* bounds
    met             \* history: daemons that wanted the path at the same time

vars == <<mode, file, open, phase, client, stops, starts, met>>

-----------------------------------------------------------------------------
(* Data *)

Socket == Daemon \cup {"systemd"}

\* A daemon in "failed" has lost its listener and waits for a signal.
Phase == {"off", "remove", "bind", "chmod", "serving", "failed", "draining"}

Starting == {"remove", "bind", "chmod"}

\* A command is in the backlog of a socket, with a handler of a daemon, or has
\* its answer; ErrUnreachable tells the last three apart no more.
Waits(s)  == [at |-> "queue", where |-> s]
Served(d) == [at |-> "handler", where |-> d]
Idle      == [at |-> "idle", where |-> "none"]
Ended(how) == [at |-> how, where |-> "none"]

Command == {Idle} \cup {Waits(s) : s \in Socket} \cup {Served(d) : d \in Daemon}
           \cup {Ended(how) : how \in {"answered", "refused", "cut", "late"}}

SocketOf(d) == IF mode = "systemd" THEN "systemd" ELSE d

Become(d, p) == phase' = [phase EXCEPT ![d] = p]

\* The kernel resets the connections that are left at a socket or a process.
Cut(lost) == client' = [c \in Client |-> IF client[c] \in lost THEN Ended("cut")
                                                               ELSE client[c]]

-----------------------------------------------------------------------------
(* The command line *)

\* do: the dial is refused where nobody listens.
Dial(c) ==
    /\ client[c] = Idle
    /\ client' = [client EXCEPT ![c] = IF file \in open THEN Waits(file)
                                                      ELSE Ended("refused")]
    /\ UNCHANGED <<mode, file, open, phase, stops, starts, met>>

\* The timeout of the client; a handler that has the request goes on alone.
GiveUp(c) ==
    /\ client[c].at \in {"queue", "handler"}
    /\ client' = [client EXCEPT ![c] = Ended("late")]
    /\ UNCHANGED <<mode, file, open, phase, stops, starts, met>>

\* The command has printed its envelope; the next one is called.
NextCommand(c) ==
    /\ client[c].at \in {"answered", "refused", "cut", "late"}
    /\ client' = [client EXCEPT ![c] = Idle]
    /\ UNCHANGED <<mode, file, open, phase, stops, starts, met>>

-----------------------------------------------------------------------------
(* Start *)

\* systemd starts the service for a connection, and only one of it.
Activate(d) ==
    /\ mode = "systemd"
    /\ \A e \in Daemon : phase[e] = "off"
    /\ \E c \in Client : client[c] = Waits("systemd")
    /\ Become(d, "serving")
    /\ UNCHANGED <<mode, file, open, client, stops, starts, met>>

\* Somebody starts a daemon.
Launch(d) ==
    /\ mode = "path"
    /\ phase[d] = "off"
    /\ starts < MaxStarts
    /\ starts' = starts + 1
    /\ Become(d, "remove")
    /\ LET rivals == {e \in Daemon : phase[e] \in Starting \cup {"serving"}}
       IN met' = IF rivals = {} THEN met \ {d} ELSE met \cup rivals \cup {d}
    /\ UNCHANGED <<mode, file, open, client, stops>>

\* Mutant: only a socket nobody listens on is removed - but it is not.
RemoveSocket_Kept(d) ==
    /\ phase[d] = "remove"
    /\ Become(d, "bind")
    /\ UNCHANGED <<mode, file, open, client, stops, starts, met>>

\* pathListener removes whatever is at the path, in use or not...
RemoveSocket(d) ==
    /\ phase[d] = "remove"
    /\ file' = "none"
    /\ Become(d, "bind")
    /\ UNCHANGED <<mode, open, client, stops, starts, met>>

\* ... binds, unless another daemon was faster...
Bind(d) ==
    /\ phase[d] = "bind"
    /\ IF file = "none"
       THEN file' = d /\ open' = open \cup {d} /\ Become(d, "chmod")
       ELSE Become(d, "off") /\ UNCHANGED <<file, open>>
    /\ UNCHANGED <<mode, client, stops, starts, met>>

\* ... and sets the mode of what is there; if nothing is, it closes again.
Chmod(d) ==
    /\ phase[d] = "chmod"
    /\ IF file # "none"
       THEN Become(d, "serving") /\ UNCHANGED <<open, client>>
       ELSE /\ Become(d, "off")
            /\ open' = open \ {d}
            /\ Cut({Waits(d)})
    /\ UNCHANGED <<mode, file, stops, starts, met>>

-----------------------------------------------------------------------------
(* Serve *)

Accept(d, c) ==
    /\ phase[d] = "serving"
    /\ client[c] = Waits(SocketOf(d))
    /\ client' = [client EXCEPT ![c] = Served(d)]
    /\ UNCHANGED <<mode, file, open, phase, stops, starts, met>>

\* A handler answers; a shutdown lets it go on.
Reply(d, c) ==
    /\ client[c] = Served(d)
    /\ client' = [client EXCEPT ![c] = Ended("answered")]
    /\ UNCHANGED <<mode, file, open, phase, stops, starts, met>>

\* Mutant: the path is removed for a listener of systemd too.
CloseListener_UnlinksAny(d) ==
    /\ open' = open \ {d}
    /\ file' = "none"
    /\ Cut({Waits(d)})

\* Closing a listener of its own unlinks the path, whoever has bound it since;
\* the one of systemd stays open in systemd.
CloseListener(d) ==
    /\ open' = open \ {d}
    /\ file' = IF mode = "path" THEN "none" ELSE file
    /\ Cut({Waits(d)})

Stopped ==
    /\ stops < MaxStops
    /\ stops' = stops + 1
    /\ UNCHANGED <<mode, starts, met>>

\* SIGTERM or SIGINT ends the context: the listener is closed at once.  Before
\* signal.NotifyContext is called a signal kills (see Kill).
Signal(d) ==
    /\ phase[d] \in {"serving", "failed"}
    /\ Become(d, "draining")
    /\ IF phase[d] = "serving" THEN CloseListener(d)
                               ELSE UNCHANGED <<open, file, client>>
    /\ Stopped

\* srv.Serve returns on its own and closes the listener; Serve then waits for
\* the shutdown goroutine, which waits for a signal.
AcceptFails(d) ==
    /\ phase[d] = "serving"
    /\ Become(d, "failed")
    /\ CloseListener(d)
    /\ Stopped

\* Mutant: Shutdown has no time limit.
Exit_Patient(d) ==
    /\ phase[d] = "draining"
    /\ \A c \in Client : client[c] # Served(d)
    /\ Become(d, "off")
    /\ UNCHANGED <<mode, file, open, client, stops, starts, met>>

\* Mutant: the path is removed once more at the end.
Exit_Unlinks(d) ==
    /\ phase[d] = "draining"
    /\ Become(d, "off")
    /\ Cut({Served(d)})
    /\ file' = IF mode = "path" THEN "none" ELSE file
    /\ UNCHANGED <<mode, open, stops, starts, met>>

\* Shutdown returns when no handler is left or its time is over, and the process
\* ends with the handlers it still has.
Exit(d) ==
    /\ phase[d] = "draining"
    /\ Become(d, "off")
    /\ Cut({Served(d)})
    /\ UNCHANGED <<mode, file, open, stops, starts, met>>

\* A crash, or a signal while Listen is at work: the path stays.
Kill(d) ==
    /\ phase[d] # "off"
    /\ Become(d, "off")
    /\ open' = open \ {d}
    /\ Cut({Served(d), Waits(d)})
    /\ UNCHANGED file
    /\ Stopped

-----------------------------------------------------------------------------
(* The specification *)

Init ==
    /\ mode \in Mode
    /\ file = IF mode = "systemd" THEN "systemd" ELSE "none"
    /\ open = {file} \ {"none"}
    /\ phase = [d \in Daemon |-> "off"]
    /\ client = [c \in Client |-> Idle]
    /\ stops = 0
    /\ starts = 0
    /\ met = {}

Next ==
    \/ \E c \in Client : Dial(c) \/ GiveUp(c) \/ NextCommand(c)
    \/ \E d \in Daemon :
          \/ Activate(d) \/ Launch(d)
          \/ RemoveSocket(d) \/ Bind(d) \/ Chmod(d)
          \/ \E c \in Client : Accept(d, c) \/ Reply(d, c)
          \/ Signal(d) \/ AcceptFails(d) \/ Exit(d) \/ Kill(d)

Spec == Init /\ [][Next]_vars

\* systemd starts the service, a server accepts, and a shutdown ends.  Nothing
\* is assumed of handlers and clients.
Fairness ==
    \A d \in Daemon :
        /\ WF_vars(Activate(d))
        /\ WF_vars(Exit(d))
        /\ \A c \in Client : WF_vars(Accept(d, c))

FairSpec == Spec /\ Fairness

-----------------------------------------------------------------------------
(* Correctness *)

TypeOK ==
    /\ mode \in {"systemd", "path"}
    /\ file \in Socket \cup {"none"}
    /\ open \subseteq Socket
    /\ phase \in [Daemon -> Phase]
    /\ client \in [Client -> Command]
    /\ stops \in Nat /\ starts \in Nat
    /\ met \subseteq Daemon

\* Under socket activation no command is ever refused, and the only ones cut off
\* are those a handler has when its process ends: no signal, crash or failing
\* accept loop closes the socket on a command that waits (the comment of Serve).
SocketSurvives ==
    [][mode = "systemd" => \A c \in Client :
         /\ client'[c].at # "refused"
         /\ client'[c].at = "cut" /\ client[c].at # "cut" =>
              \E d \in Daemon : client[c] = Served(d) /\ (Exit(d) \/ Kill(d))
      ]_vars

\* And whoever waits there is taken on, by this daemon or a new one - unless an
\* accept loop has failed: its process stays, waits for a signal, and keeps
\* systemd from starting another one.
QueueServed ==
    \A c \in Client :
        client[c] = Waits("systemd")
            ~> client[c].at # "queue" \/ \E d \in Daemon : phase[d] = "failed"

\* The path leads to the daemon that serves, if no other one wanted the path
\* since it was started: a daemon still draining does no harm.
ServingMeansReachable ==
    \A d \in Daemon :
        mode = "path" /\ phase[d] = "serving" /\ d \notin met
            => file = d /\ d \in open

\* A socket file left by a crash never keeps a daemon from starting.
StaleFileHarmless ==
    [][\A d \in Daemon : Bind(d) /\ d \notin met => phase'[d] # "off"]_vars

-----------------------------------------------------------------------------
(* The inductive invariant behind the safety properties *)

\* Daemons that systemd starts find their socket open, and nobody waits at another.
Activated ==
    mode = "systemd" =>
        /\ file = "systemd" /\ file \in open
        /\ \A c \in Client :
              /\ client[c].at # "refused"
              /\ client[c].at = "queue" => client[c].where = "systemd"
        /\ \A d \in Daemon : phase[d] \notin Starting

Wants(d) == phase[d] \in Starting \cup {"serving"}

\* A daemon without rivals has the path to itself.
Undisputed ==
    \A d \in Daemon : mode = "path" /\ Wants(d) /\ d \notin met =>
        /\ \A e \in Daemon : Wants(e) => e = d
        /\ phase[d] = "bind" => file = "none"
        /\ phase[d] \in {"chmod", "serving"} => file = d /\ d \in open

ServeInv == TypeOK /\ Activated /\ Undisputed

=============================================================================
