------------------------------- MODULE Startup -------------------------------
(***************************************************************************)
(* Servers that are started, killed and started again on one port.  From   *)
(* v1.3 on the constructor of Sockets sets SO_REUSEADDR, so that a server  *)
(* can be restarted while connections of its predecessor are in TIME_WAIT  *)
(* (doc/Notes_for_Version_1_3.md:27-41); v1.0 to v1.2 set nothing.  Each   *)
(* system call is a step, and the asserts on their results end a process.  *)
(* The usual names are prefixed: ProcessProofs extends Thread as well.     *)
(***************************************************************************)
EXTENDS FiniteSets, Integers

CONSTANTS
    Servers,    \* processes that serve the port
    Old         \* those of v1.0 to v1.2

ASSUME OldAssumption == IsFiniteSet(Servers) /\ Old \subseteq Servers

VARIABLES
    pc,         \* how far each process is
    option,     \* the option on its listening socket, and on what it accepts
    open,       \* processes with connections
    lingering   \* processes whose connections outlive them

portVars == <<pc, option, open, lingering>>

Options == {"none", "REUSEADDR", "REUSEPORT"}

PortTypeOK ==
    /\ pc \in [Servers -> {"off", "created", "bound", "serving", "failed"}]
    /\ option \in [Servers -> Options]
    /\ open \subseteq {s \in Servers : pc[s] = "serving"}
    /\ lingering \subseteq Servers

PortInit ==
    /\ pc = [s \in Servers |-> "off"]
    /\ option = [s \in Servers |-> "none"]
    /\ open = {}
    /\ lingering = {}

-----------------------------------------------------------------------------
(* The port is taken, for a socket with option o, by one with option p:       *)
(* SO_REUSEADDR on both helps unless the other listens, SO_REUSEPORT always.  *)
Excludes(p, listens, o) ==
    \/ p # o
    \/ o = "none"
    \/ o = "REUSEADDR" /\ listens

(* bind() and listen() look for conflicts; a process does not conflict with   *)
(* itself.                                                                    *)
PortTaken(s) ==
    \/ \E t \in Servers \ {s} : pc[t] \in {"bound", "serving"}
                                /\ Excludes(option[t], pc[t] = "serving", option[s])
    \/ \E t \in lingering : Excludes(option[t], FALSE, option[s])

(* Mutants: the option is forgotten; the other one is taken. *)
ReuseNothing(s) == "none"
ReusePort(s) == IF s \in Old THEN "none" ELSE "REUSEPORT"

(* Sockets::setReuseAddr() *)
ReuseAddr(s) == IF s \in Old THEN "none" ELSE "REUSEADDR"

(* Sockets::Sockets() *)
Create(s) ==
    /\ pc[s] \in {"off", "failed"}
    /\ pc' = [pc EXCEPT ![s] = "created"]
    /\ option' = [option EXCEPT ![s] = ReuseAddr(s)]
    /\ UNCHANGED <<open, lingering>>

(* assert(ret != -1), and the process goes on. *)
Assert(s, success, place) ==
    /\ pc' = [pc EXCEPT ![s] = IF success THEN place ELSE "failed"]
    /\ UNCHANGED <<option, open, lingering>>

(* The constructor of Acceptor binds its socket. *)
Bind(s) == pc[s] = "created" /\ Assert(s, ~PortTaken(s), "bound")

(* TcpServer::start() and Acceptor::listen() *)
Listen(s) == pc[s] = "bound" /\ Assert(s, ~PortTaken(s), "serving")

Accept(s) ==
    /\ pc[s] = "serving"
    /\ open' = open \cup {s}
    /\ UNCHANGED <<pc, option, lingering>>

(* A process is killed at any moment.  The kernel closes its connections:     *)
(* they linger if the peers did not close them first.                         *)
Kill(s) ==
    /\ pc[s] \in {"created", "bound", "serving"}
    /\ pc' = [pc EXCEPT ![s] = "off"]
    /\ open' = open \ {s}
    /\ lingering' \in {lingering, lingering \cup (open \cap {s})}
    /\ UNCHANGED option

(* TIME_WAIT ends. *)
Expire(s) ==
    /\ s \in lingering
    /\ lingering' = lingering \ {s}
    /\ UNCHANGED <<pc, option, open>>

PortNext ==
    \E s \in Servers :
        \/ Create(s)
        \/ Bind(s)
        \/ Listen(s)
        \/ Accept(s)
        \/ Kill(s)
        \/ Expire(s)

PortSpec == PortInit /\ [][PortNext]_portVars

-----------------------------------------------------------------------------
(* However starts interleave, two processes never listen on the port: of two  *)
(* that were both bound one is stopped by the assertion in listen().          *)
(* (Sockets.cpp:19-40)                                                        *)
OneListener == Cardinality({s \in Servers : pc[s] = "serving"}) <= 1

(* Nothing of an old version has the port. *)
NoneOld ==
    /\ lingering \cap Old = {}
    /\ \A s \in Old : pc[s] \notin {"bound", "serving"}

(* A server of v1.3 or later fails to start only while another one listens,   *)
(* or where the port is held by a version that did not set the option; what   *)
(* is left of a killed predecessor does not stop it.                          *)
(* (Sockets.cpp:19-24, doc/Notes_for_Version_1_3.md:40)                       *)
RestartSucceeds ==
    [][\A s \in Servers \ Old :
         pc'[s] = "failed" /\ pc[s] # "failed" /\ NoneOld
           => \E t \in Servers \ {s} : pc[t] = "serving"]_portVars
=============================================================================
