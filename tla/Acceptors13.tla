---------------------------- MODULE Acceptors13 -----------------------------
(***************************************************************************)
(* The daytime server of v1.3/Test/AcceptorTest.cpp: two Acceptors on one  *)
(* EventLoop, whose callback writes the time to the new connection and     *)
(* closes it.  A peer may reset between accept() and write().              *)
(***************************************************************************)
EXTENDS Peers, EarlyChannel, SequencesExt

CONSTANTS
    Acceptors,      \* the acceptors, in the order of their numbers
    Port,           \* the acceptor that each peer connects to
    Time            \* what the callback writes

VARIABLES
    chan,       \* acceptChannel_ of each acceptor
    listenning, \* the acceptors whose listen() was called
    pc,         \* where the loop is
    active,     \* activeChannels_ still to handle
    who,        \* the connection whose callback runs
    told        \* history: who was told the time, in order

vars == <<network, chan, listenning, pc, active, who, told>>

TypeOK ==
    /\ NetworkTypeOK
    /\ chan \in [Acceptors -> ChannelType]
    /\ listenning \subseteq Acceptors
    /\ pc \in {"setup", "poll", "batch", "callback", "dead"}
    /\ active \subseteq Acceptors
    /\ who \in Peers
    /\ told \in Seq(Peers)

(* The constructors: sockets bound, nothing registered. *)
Init ==
    /\ NetworkInit
    /\ chan = [a \in Acceptors |-> NewChannel]
    /\ listenning = {}
    /\ pc = "setup"
    /\ active = {}
    /\ who \in Peers
    /\ told = <<>>

(* Who waits at an acceptor: their places in the queue, and the first one. *)
Waiting(a) == {i \in 1..Len(backlog) : Port[backlog[i]] = a}
FirstOf(a) == CHOOSE i \in Waiting(a) : \A j \in Waiting(a) : i <= j

(* Acceptor::listen(), called once for each acceptor in turn. *)
Listen(a) ==
    /\ pc = "setup"
    /\ a \notin listenning
    /\ \A b \in Acceptors \ listenning : a <= b
    /\ listenning' = listenning \cup {a}
    /\ chan' = [chan EXCEPT ![a] = EnabledReadable(@)]
    /\ UNCHANGED <<network, pc, active, who, told>>

EnterLoop ==
    /\ pc = "setup"
    /\ listenning = Acceptors
    /\ pc' = "poll"
    /\ UNCHANGED <<network, chan, listenning, active, who, told>>

Ready(a) == Reported(chan[a], IF Waiting(a) # {} THEN {"IN"} ELSE {})

Poll ==
    /\ pc = "poll"
    /\ \E a \in Acceptors : Ready(a) # {}
    /\ active' = {a \in Acceptors : Ready(a) # {}}
    /\ chan' = [a \in Acceptors |->
                  IF a \in active' THEN [chan[a] EXCEPT !.revents = Ready(a)] ELSE chan[a]]
    /\ pc' = "batch"
    /\ UNCHANGED <<network, listenning, who, told>>

(* Sockets::accept() asserts that accept4() found a descriptor. *)
AcceptFails(a) == Waiting(a) = {} \/ FreeFds = {}

(* Acceptor::accept(), up to newConnectionCallback_. *)
Accept(a) ==
    /\ pc = "batch"
    /\ a \in active
    /\ active' = active \ {a}
    /\ IF AcceptFails(a)
       THEN pc' = "dead" /\ UNCHANGED <<network, who>>
       ELSE LET p == backlog[FirstOf(a)] IN
              /\ sock' = [sock EXCEPT ![p].at = "open", ![p].fd = LowestFree]
              /\ backlog' = RemoveAt(backlog, FirstOf(a))
              /\ who' = p
              /\ pc' = "callback"
              /\ UNCHANGED sent
    /\ UNCHANGED <<chan, listenning, told>>

(* newConnection(): write(), whose result is ignored, and close(). *)
NewConnection ==
    /\ pc = "callback"
    /\ IF RaisesSigpipe(sock[who])
       THEN pc' = "dead" /\ UNCHANGED <<sock, told>>
       ELSE /\ told' = Append(told, who)
            /\ sock' = [sock EXCEPT ![who] = AfterClose(AfterSend(@, Time))]
            /\ pc' = "batch"
    /\ UNCHANGED <<backlog, sent, chan, listenning, active, who>>

EndBatch ==
    /\ pc = "batch"
    /\ active = {}
    /\ pc' = "poll"
    /\ UNCHANGED <<network, chan, listenning, active, who, told>>

LoopStep ==
    \/ EnterLoop
    \/ Poll
    \/ NewConnection
    \/ EndBatch
    \/ \E a \in Acceptors : Listen(a) \/ Accept(a)

(* A connection is refused where nobody listens. *)
PeersMove ==
    /\ pc # "dead"
    /\ PeerStep
    /\ \A p \in Peers : sock'[p].at = sock[p].at \/ Port[p] \in listenning
    /\ UNCHANGED <<chan, listenning, pc, active, who, told>>

Next == LoopStep \/ PeersMove
Spec == Init /\ [][Next]_vars /\ WF_vars(LoopStep)

-----------------------------------------------------------------------------
(* The assertion on accept4() never fails: an event that waits in the batch   *)
(* still has its connection, and every descriptor is free again before the    *)
(* next accept().  (Sockets.cpp:48, AcceptorTest.cpp:22)                      *)
AcceptSucceeds == pc = "batch" => \A a \in active : ~AcceptFails(a)

(* The clients of one acceptor are told in the order in which they came, each *)
(* once, although the two queues are served from one loop.                    *)
(* (Acceptor.cpp:25-42)                                                       *)
ToldInOrder ==
    \A i, j \in 1..Len(told) : i < j /\ Port[told[i]] = Port[told[j]] =>
        told[i] < told[j]
=============================================================================
