----------------------------- MODULE ServeProofs -----------------------------
(***************************************************************************)
(* Theorems about Serve, for any daemons and commands: the socket survives *)
(* what happens to the daemons, and leads to the one that serves.          *)
(***************************************************************************)
EXTENDS Serve, TLAPS

USE DEF Starting

-----------------------------------------------------------------------------
(* Types *)

LEMMA CommandType ==
    /\ Idle \in Command
    /\ \A s \in Socket : Waits(s) \in Command
    /\ \A d \in Daemon : Served(d) \in Command
    /\ \A how \in {"answered", "refused", "cut", "late"} : Ended(how) \in Command
BY DEF Command

\* The socket of a daemon is one that exists.
LEMMA SocketType ==
    /\ Daemon \subseteq Socket /\ "systemd" \in Socket
    /\ \A d \in Daemon : SocketOf(d) \in Socket /\ d # "systemd" /\ d # "none"
BY ServeAssumption DEF Socket, SocketOf

\* Connections are reset, and nothing else happens to a command.
LEMMA CutType ==
    ASSUME client \in [Client -> Command], NEW lost, Cut(lost)
    PROVE  /\ client' \in [Client -> Command]
           /\ \A c \in Client : client'[c] = client[c] \/ client'[c] = Ended("cut")
BY CommandType DEF Cut

LEMMA BecomeType ==
    ASSUME phase \in [Daemon -> Phase], NEW d \in Daemon, NEW p \in Phase,
           Become(d, p)
    PROVE  /\ phase' \in [Daemon -> Phase] /\ phase'[d] = p
           /\ \A e \in Daemon \ {d} : phase'[e] = phase[e]
BY DEF Become

-----------------------------------------------------------------------------
(* The command line *)

\* What a command may be where systemd listens.
Kept(k) == k.at # "refused" /\ (k.at = "queue" => k.where = "systemd")

\* A step of one command that is not refused where systemd listens.
LEMMA CommandStep ==
    ASSUME ServeInv, NEW c \in Client, NEW k \in Command,
           client' = [client EXCEPT ![c] = k],
           mode = "systemd" => Kept(k),
           UNCHANGED <<mode, file, open, phase, stops, starts, met>>
    PROVE  ServeInv'
<1>1. TypeOK'
  BY DEF ServeInv, TypeOK
<1>2. Activated'
  BY DEF ServeInv, TypeOK, Activated, Kept
<1>3. Undisputed'
  BY DEF ServeInv, Undisputed, Wants
<1>4. QED
  BY <1>1, <1>2, <1>3 DEF ServeInv

LEMMA ClientStep ==
    ASSUME ServeInv, NEW c \in Client, Dial(c) \/ GiveUp(c) \/ NextCommand(c)
    PROVE  ServeInv'
<1>1. CASE Dial(c)
  <2>1. open \subseteq Socket
        /\ (mode = "systemd" => file \in open /\ file = "systemd")
    BY DEF ServeInv, TypeOK, Activated
  <2>2. PICK k : k = IF file \in open THEN Waits(file) ELSE Ended("refused")
    OBVIOUS
  <2>3. k \in Command /\ (mode = "systemd" => Kept(k))
    BY <2>1, <2>2, CommandType DEF Waits, Kept
  <2>4. QED
    BY <1>1, <2>2, <2>3, CommandStep DEF Dial
<1>2. CASE GiveUp(c)
  <2>1. Ended("late") \in Command /\ Kept(Ended("late"))
    BY CommandType DEF Ended, Kept
  <2>2. QED
    BY <1>2, <2>1, CommandStep DEF GiveUp
<1>3. CASE NextCommand(c)
  <2>1. Idle \in Command /\ Kept(Idle)
    BY CommandType DEF Idle, Kept
  <2>2. QED
    BY <1>3, <2>1, CommandStep DEF NextCommand
<1>4. QED
  BY <1>1, <1>2, <1>3

LEMMA AcceptStep ==
    ASSUME ServeInv, NEW d \in Daemon, NEW c \in Client, Accept(d, c) \/ Reply(d, c)
    PROVE  ServeInv'
<1>1. CASE Accept(d, c)
  <2>1. Served(d) \in Command /\ Kept(Served(d))
    BY CommandType DEF Served, Kept
  <2>2. QED
    BY <1>1, <2>1, CommandStep DEF Accept
<1>2. CASE Reply(d, c)
  <2>1. Ended("answered") \in Command /\ Kept(Ended("answered"))
    BY CommandType DEF Ended, Kept
  <2>2. QED
    BY <1>2, <2>1, CommandStep DEF Reply
<1>3. QED
  BY <1>1, <1>2

-----------------------------------------------------------------------------
(* Start *)

LEMMA ActivateStep ==
    ASSUME ServeInv, NEW d \in Daemon, Activate(d)
    PROVE  ServeInv'
<1>1. /\ mode = "systemd" /\ mode' = mode
      /\ UNCHANGED <<file, open, client, stops, starts, met>>
      /\ phase' \in [Daemon -> Phase] /\ phase'[d] = "serving"
      /\ \A e \in Daemon \ {d} : phase'[e] = phase[e]
  BY BecomeType DEF Activate, ServeInv, TypeOK, Phase
<1>2. TypeOK' /\ Activated'
  BY <1>1 DEF ServeInv, TypeOK, Activated
<1>3. QED
  BY <1>1, <1>2 DEF ServeInv, Undisputed

\* A daemon that is launched is without rivals or known not to be.
LEMMA LaunchStep ==
    ASSUME ServeInv, NEW d \in Daemon, Launch(d)
    PROVE  ServeInv'
<1> DEFINE rivals == {e \in Daemon : phase[e] \in Starting \cup {"serving"}}
<1>1. /\ mode = "path" /\ mode' = mode /\ phase[d] = "off"
      /\ UNCHANGED <<file, open, client, stops>> /\ starts' = starts + 1
      /\ met' = IF rivals = {} THEN met \ {d} ELSE met \cup rivals \cup {d}
      /\ phase' \in [Daemon -> Phase] /\ phase'[d] = "remove"
      /\ \A e \in Daemon \ {d} : phase'[e] = phase[e]
  BY BecomeType DEF Launch, ServeInv, TypeOK, Phase
<1>2. TypeOK' /\ Activated'
  BY <1>1 DEF ServeInv, TypeOK, Activated
<1>3. ASSUME NEW e \in Daemon, Wants(e)', e \notin met'
      PROVE  e = d /\ \A x \in Daemon : Wants(x)' => x = d
  BY <1>1, <1>3 DEF Wants
<1>4. Undisputed'
  BY <1>1, <1>3 DEF Undisputed
<1>5. QED
  BY <1>2, <1>4 DEF ServeInv

\* The three steps of pathListener.
LEMMA ListenStep ==
    ASSUME ServeInv, NEW d \in Daemon, RemoveSocket(d) \/ Bind(d) \/ Chmod(d)
    PROVE  ServeInv'
<1>1. mode = "path" /\ mode' = mode /\ Wants(d)
  BY DEF ServeInv, TypeOK, Activated, RemoveSocket, Bind, Chmod, Wants
<1>2. PICK p \in {"off", "bind", "chmod", "serving"} : Become(d, p)
  BY DEF RemoveSocket, Bind, Chmod
<1>3. /\ phase' \in [Daemon -> Phase] /\ phase'[d] = p
      /\ \A e \in Daemon \ {d} : phase'[e] = phase[e]
  BY <1>2, BecomeType DEF ServeInv, TypeOK, Phase
<1>4. UNCHANGED <<stops, starts, met>>
  BY DEF RemoveSocket, Bind, Chmod
<1>5. client' \in [Client -> Command]
  BY CutType DEF RemoveSocket, Bind, Chmod, ServeInv, TypeOK
<1>6. file' \in Socket \cup {"none"} /\ open' \subseteq Socket
  BY SocketType DEF RemoveSocket, Bind, Chmod, ServeInv, TypeOK
<1>7. TypeOK' /\ Activated'
  BY <1>1, <1>3, <1>4, <1>5, <1>6 DEF ServeInv, TypeOK, Activated
<1>8. ASSUME NEW e \in Daemon, Wants(e)', e \notin met'
      PROVE  /\ \A x \in Daemon : Wants(x)' => x = e
             /\ phase'[e] = "bind" => file' = "none"
             /\ phase'[e] \in {"chmod", "serving"} => file' = e /\ e \in open'
  <2>1. Wants(e) /\ e \notin met
    BY <1>1, <1>3, <1>4, <1>8 DEF Wants
  <2>2. e = d /\ \A x \in Daemon : Wants(x) => x = e
    BY <1>1, <2>1 DEF ServeInv, Undisputed
  <2>3. \A x \in Daemon : Wants(x)' => x = e
    BY <1>3, <2>2 DEF Wants
  <2>4. /\ phase[d] = "bind" => file = "none"
        /\ phase[d] \in {"chmod", "serving"} => file = d /\ d \in open
    BY <1>1, <2>1, <2>2 DEF ServeInv, Undisputed
  <2>5. d # "none" /\ phase'[d] # "off"
    BY <1>3, <1>8, <2>2, SocketType DEF Wants
  <2>6. /\ phase'[d] = "bind" => file' = "none"
        /\ phase'[d] \in {"chmod", "serving"} => file' = d /\ d \in open'
    BY <1>2, <1>3, <2>4, <2>5 DEF RemoveSocket, Bind, Chmod, Become
  <2>7. QED
    BY <2>2, <2>3, <2>6
<1>9. Undisputed'
  BY <1>8 DEF Undisputed
<1>10. QED
  BY <1>7, <1>9 DEF ServeInv

-----------------------------------------------------------------------------
(* Stop *)

\* A daemon that stops takes no socket but its own, and only one that wanted
\* the path takes that.
LEMMA StopStep ==
    ASSUME ServeInv, NEW d \in Daemon, NEW p \in {"off", "failed", "draining"},
           Become(d, p), open' \in {open, open \ {d}},
           file' = file \/ (file' = "none" /\ mode = "path" /\ Wants(d)),
           client' = client \/ \E lost : Cut(lost),
           UNCHANGED <<mode, starts, met>>, stops' \in Nat
    PROVE  ServeInv'
<1>1. /\ phase' \in [Daemon -> Phase] /\ phase'[d] = p
      /\ \A e \in Daemon \ {d} : phase'[e] = phase[e]
  BY BecomeType DEF ServeInv, TypeOK, Phase
<1>2. /\ client' \in [Client -> Command]
      /\ \A c \in Client : client'[c] = client[c] \/ client'[c] = Ended("cut")
  BY CutType DEF ServeInv, TypeOK
<1>3. file' \in Socket \cup {"none"} /\ open' \subseteq Socket
  BY DEF ServeInv, TypeOK
<1>4. TypeOK'
  BY <1>1, <1>2, <1>3 DEF ServeInv, TypeOK
<1>5. Activated'
  <2> SUFFICES ASSUME mode = "systemd" PROVE Activated'
    BY DEF Activated
  <2>1. file' = "systemd" /\ file' \in open'
    BY SocketType DEF ServeInv, Activated
  <2>2. Ended("cut").at = "cut"
    BY DEF Ended
  <2>3. QED
    BY <1>1, <1>2, <2>1, <2>2 DEF ServeInv, Activated
<1>6. ASSUME NEW e \in Daemon, mode = "path", Wants(e)', e \notin met'
      PROVE  /\ \A x \in Daemon : Wants(x)' => x = e
             /\ phase'[e] = "bind" => file' = "none"
             /\ phase'[e] \in {"chmod", "serving"} => file' = e /\ e \in open'
  <2>1. e # d /\ phase'[e] = phase[e] /\ Wants(e)
    BY <1>1, <1>6 DEF Wants
  <2>2. /\ \A x \in Daemon : Wants(x) => x = e
        /\ phase[e] = "bind" => file = "none"
        /\ phase[e] \in {"chmod", "serving"} => file = e /\ e \in open
    BY <1>6, <2>1 DEF ServeInv, Undisputed
  <2>3. \A x \in Daemon : Wants(x)' => x = e
    BY <1>1, <2>2 DEF Wants
  <2>4. file' = file
    BY <2>1, <2>2
  <2>5. QED
    BY <2>1, <2>2, <2>3, <2>4
<1>7. Undisputed'
  BY <1>6 DEF Undisputed
<1>8. QED
  BY <1>4, <1>5, <1>7 DEF ServeInv

LEMMA EndStep ==
    ASSUME ServeInv, NEW d \in Daemon,
           Signal(d) \/ AcceptFails(d) \/ Exit(d) \/ Kill(d)
    PROVE  ServeInv'
<1>1. stops \in Nat /\ stops + 1 \in Nat
  BY DEF ServeInv, TypeOK
<1>3. CASE Signal(d) \/ AcceptFails(d)
  <2>1. PICK p \in {"failed", "draining"} : Become(d, p)
    BY <1>3 DEF Signal, AcceptFails
  <2>2. CASE phase[d] = "serving"
    BY <1>1, <1>3, <2>1, <2>2, StopStep
       DEF Signal, AcceptFails, CloseListener, Stopped, Wants
  <2>3. CASE phase[d] # "serving"
    BY <1>1, <1>3, <2>1, <2>3, StopStep DEF Signal, AcceptFails, Stopped
  <2>4. QED
    BY <2>2, <2>3
<1>4. CASE Exit(d)
  BY <1>1, <1>4, StopStep DEF Exit
<1>5. CASE Kill(d)
  BY <1>1, <1>5, StopStep DEF Kill, Stopped
<1>6. QED
  BY <1>3, <1>4, <1>5

-----------------------------------------------------------------------------
(* The theorems *)

LEMMA ServeStep == ServeInv /\ [Next]_vars => ServeInv'
<1> SUFFICES ASSUME ServeInv, [Next]_vars PROVE ServeInv'
  OBVIOUS
<1>1. CASE UNCHANGED vars
  BY <1>1 DEF vars, ServeInv, TypeOK, Activated, Undisputed, Wants
<1>2. QED
  BY <1>1, ClientStep, AcceptStep, ActivateStep, LaunchStep, ListenStep, EndStep
     DEF Next

LEMMA ServeInvariant == Spec => []ServeInv
<1>1. Init => ServeInv
  <2> SUFFICES ASSUME Init PROVE ServeInv
    OBVIOUS
  <2>1. TypeOK
    BY SocketType, CommandType, ServeAssumption DEF Init, TypeOK, Phase
  <2>2. Activated /\ Undisputed
    BY DEF Init, Activated, Undisputed, Wants, Idle
  <2>3. QED
    BY <2>1, <2>2 DEF ServeInv
<1>2. QED
  BY <1>1, ServeStep, PTL DEF Spec

\* What a step cuts off where systemd listens is with a handler of a process that
\* ends: nobody waits at a socket that a daemon closes.
LEMMA CutStep ==
    ASSUME ServeInv, Next, mode = "systemd",
           NEW c \in Client, client'[c].at = "cut", client[c].at # "cut"
    PROVE  \E d \in Daemon : client[c] = Served(d) /\ (Exit(d) \/ Kill(d))
<1>1. /\ client \in [Client -> Command] /\ client'[c] # client[c]
      /\ client[c].at = "queue" => client[c].where = "systemd"
  BY DEF ServeInv, TypeOK, Activated
<1>2. \A d \in Daemon : client[c] # Waits(d)
  BY <1>1, SocketType DEF Waits
<1>3. ASSUME NEW e \in Client, Dial(e) \/ GiveUp(e) \/ NextCommand(e)
      PROVE  FALSE
  BY <1>1, <1>3 DEF Dial, GiveUp, NextCommand, Waits, Ended, Idle
<1>4. ASSUME NEW d \in Daemon, NEW e \in Client, Accept(d, e) \/ Reply(d, e)
      PROVE  FALSE
  BY <1>1, <1>4 DEF Accept, Reply, Served, Ended
<1>5. ASSUME NEW d \in Daemon,
             Activate(d) \/ Launch(d) \/ RemoveSocket(d) \/ Bind(d)
      PROVE  FALSE
  BY <1>1, <1>5 DEF Activate, Launch, RemoveSocket, Bind
<1>6. ASSUME NEW d \in Daemon, NEW lost, Cut(lost) PROVE client[c] \in lost
  BY <1>1, <1>6 DEF Cut
<1>7. ASSUME NEW d \in Daemon, Chmod(d) \/ Signal(d) \/ AcceptFails(d)
      PROVE  FALSE
  <2>1. client' = client \/ Cut({Waits(d)})
    BY <1>7 DEF Chmod, Signal, AcceptFails, CloseListener
  <2>2. QED
    BY <1>1, <1>2, <1>6, <2>1
<1>8. ASSUME NEW d \in Daemon, Exit(d) \/ Kill(d) PROVE client[c] = Served(d)
  <2>1. Cut({Served(d)}) \/ Cut({Served(d), Waits(d)})
    BY <1>8 DEF Exit, Kill
  <2>2. QED
    BY <1>2, <1>6, <2>1
<1>9. QED
  BY <1>3, <1>4, <1>5, <1>7, <1>8 DEF Next

\* Under socket activation no command is refused, and none is cut off but by the
\* end of the process whose handler has it: no shutdown, crash or failing accept
\* loop closes or unlinks the socket of systemd.
THEOREM SocketOutlivesDaemons == Spec => SocketSurvives
<1>1. ServeInv /\ ServeInv' /\ [Next]_vars
        => [mode = "systemd" => \A c \in Client :
              /\ client'[c].at # "refused"
              /\ client'[c].at = "cut" /\ client[c].at # "cut" =>
                   \E d \in Daemon : client[c] = Served(d) /\ (Exit(d) \/ Kill(d))]_vars
  <2> SUFFICES ASSUME ServeInv, ServeInv', Next, mode = "systemd",
                      NEW c \in Client
               PROVE  /\ client'[c].at # "refused"
                      /\ client'[c].at = "cut" /\ client[c].at # "cut" =>
                           \E d \in Daemon :
                             client[c] = Served(d) /\ (Exit(d) \/ Kill(d))
    OBVIOUS
  <2>1. mode' = mode
    BY DEF Next, Dial, GiveUp, NextCommand, Activate, Launch, RemoveSocket, Bind,
           Chmod, Accept, Reply, Signal, AcceptFails, Exit, Kill, Stopped
  <2>2. client'[c].at # "refused"
    BY <2>1 DEF ServeInv, Activated
  <2>3. QED
    BY <2>2, CutStep
<1>2. QED
  BY <1>1, ServeInvariant, PTL DEF Spec, SocketSurvives

\* The path leads to the daemon that serves, unless two wanted it at a time.
THEOREM PathLeadsToServer == Spec => []ServingMeansReachable
<1>1. ServeInv => ServingMeansReachable
  BY DEF ServeInv, Undisputed, Wants, ServingMeansReachable
<1>2. QED
  BY <1>1, ServeInvariant, PTL

\* A daemon that is alone at the path binds it, whatever a crash left there.
THEOREM RestartBinds == Spec => StaleFileHarmless
<1>1. ServeInv /\ [Next]_vars
        => [\A d \in Daemon : Bind(d) /\ d \notin met => phase'[d] # "off"]_vars
  <2> SUFFICES ASSUME ServeInv, NEW d \in Daemon, Bind(d), d \notin met
               PROVE  phase'[d] # "off"
    OBVIOUS
  <2>1. phase[d] = "bind" /\ mode = "path" /\ Wants(d)
    BY DEF Bind, ServeInv, TypeOK, Activated, Wants
  <2>2. file = "none"
    BY <2>1 DEF ServeInv, Undisputed
  <2>3. Become(d, "chmod")
    BY <2>2 DEF Bind
  <2>4. QED
    BY <2>3, BecomeType DEF ServeInv, TypeOK, Phase
<1>2. QED
  BY <1>1, ServeInvariant, PTL DEF Spec, StaleFileHarmless

=============================================================================
