---------------------------- MODULE ProcessProofs ----------------------------
(***************************************************************************)
(* For any number of Thread objects: threadFunc_ runs once, after start()  *)
(* and before join() returns, even if workers run before their objects are *)
(* complete; and of a worker that does not, start() never comes between    *)
(* the look at started_ and the wait.  For any number of processes: one    *)
(* listens on the port, and a killed server can be started again.          *)
(***************************************************************************)
EXTENDS Thread, Startup, FiniteSetTheorems, TLAPS

USE EarlyRunAssumption

Begun == {"ready", "running", "done"}

(* main is in one call at a time. *)
BusyInv ==
    /\ \A t, u \in busy : t = u
    /\ \A t \in Threads : life[t] \in {"thread", "cv"} => t \in busy

(* What has happened to one object fits where its worker is. *)
ObjectInv(t) ==
    /\ at[t] = "none" <=> life[t] = "raw"
    /\ runs[t] = 1 <=> at[t] \in {"running", "done"}
    /\ at[t] \in Begun => started[t]
    /\ started[t] => life[t] \in {"made", "destroyed"}
    /\ joined[t] => started[t]
    /\ joined[t] /\ t \notin busy => at[t] = "done"
    /\ life[t] = "destroyed" => t \notin busy
    /\ fault = "none" /\ life[t] = "destroyed" => started[t]

IInv ==
    /\ TypeOK
    /\ BusyInv
    /\ \A t \in Threads : ObjectInv(t)
    /\ DeathCauses

USE DEF Stages, Places, Begun

LEMMA InitIInv == Init => IInv
BY DEF Init, IInv, TypeOK, BusyInv, ObjectInv, DeathCauses

LEMMA MainIInv ==
    ASSUME IInv, NEW t \in Threads,
           \/ ConstructThread(t) \/ Start(t) \/ QueryStarted(t) \/ Join(t)
           \/ Destroy(t) \/ MainStep(t)
    PROVE  IInv'
<1> USE DEF IInv, TypeOK, BusyInv, ObjectInv, DeathCauses, MainIdle
<1>1. CASE ConstructThread(t)
  BY <1>1 DEF ConstructThread
<1>2. CASE Start(t)
  BY <1>2 DEF Start, Notified
<1>3. CASE QueryStarted(t)
  BY <1>3 DEF QueryStarted
<1>4. CASE Join(t)
  BY <1>4 DEF Join
<1>5. CASE Destroy(t)
  BY <1>5 DEF Destroy
<1>6. CASE ConstructCv(t)
  BY <1>6 DEF ConstructCv
<1>7. CASE ConstructMutex(t)
  BY <1>7 DEF ConstructMutex
<1>8. CASE JoinReturns(t)
  BY <1>8 DEF JoinReturns
<1>9. QED
  BY <1>1, <1>2, <1>3, <1>4, <1>5, <1>6, <1>7, <1>8 DEF MainStep

LEMMA WorkerIInv ==
    ASSUME IInv, NEW t \in Threads, WorkerStep(t) \/ SpuriousWakeup(t)
    PROVE  IInv'
<1> USE DEF IInv, TypeOK, BusyInv, ObjectInv, DeathCauses, MayRun
<1>1. CASE RunLock(t)
  BY <1>1 DEF RunLock
<1>2. CASE RunCheck(t)
  <2>1. /\ at[t] = "check" /\ at' = [at EXCEPT ![t] = at'[t]]
        /\ at'[t] = "wait" \/ (at'[t] = "ready" /\ started[t])
    BY <1>2 DEF RunCheck, MustWait
  <2>2. TypeOK' /\ BusyInv'
    <3>1. at' \in [Threads -> Places] /\ holder' \in [Threads -> {"free", "worker"}]
      BY <1>2, <2>1 DEF RunCheck
    <3>2. registered' \in [Threads -> BOOLEAN]
      <4>1. registered \in [Threads -> BOOLEAN]
        OBVIOUS
      <4>2. registered' = [registered EXCEPT ![t] = TRUE] \/ registered' = registered
        BY <1>2 DEF RunCheck
      <4>3. QED
        BY <4>1, <4>2
    <3>3. UNCHANGED <<life, started, joined, runs, busy, fault>>
      BY <1>2 DEF RunCheck
    <3>4. QED
      BY <3>1, <3>2, <3>3
  <2>3. \A u \in Threads : ObjectInv(u)'
    BY <1>2, <2>1 DEF RunCheck
  <2>4. DeathCauses'
    BY <1>2, <2>1 DEF RunCheck
  <2>5. QED
    BY <2>2, <2>3, <2>4
<1>3. CASE RunFunc(t)
  <2>1. runs[t] = 0
    BY <1>3 DEF RunFunc
  <2>2. QED
    BY <1>3, <2>1 DEF RunFunc
<1>4. CASE RunEnds(t)
  BY <1>4 DEF RunEnds, AfterFunc
<1>5. CASE TouchDestroyed(t)
  BY <1>5 DEF TouchDestroyed
<1>6. CASE SpuriousWakeup(t)
  BY <1>6 DEF SpuriousWakeup
<1>7. QED
  BY <1>1, <1>2, <1>3, <1>4, <1>5, <1>6 DEF WorkerStep

LEMMA NextIInv ==
    ASSUME IInv, [Next]_vars
    PROVE  IInv'
<1>1. CASE UNCHANGED vars
  BY <1>1 DEF vars, IInv, TypeOK, BusyInv, ObjectInv, DeathCauses
<1>2. QED
  BY <1>1, MainIInv, WorkerIInv DEF Next

LEMMA SpecIInv == Spec => []IInv
<1>1. IInv /\ [Next]_vars => IInv'
  BY NextIInv
<1>2. QED
  BY InitIInv, <1>1, PTL DEF Spec

(* Every object's members are of their types. *)
THEOREM ThreadType == Spec => []TypeOK
<1>1. IInv => TypeOK
  BY DEF IInv
<1>2. QED
  BY SpecIInv, <1>1, PTL

(* threadFunc_ is called once, after start() and before join() returns.      *)
(* (Thread.cpp:26-31, 50-71)                                                 *)
THEOREM ThreadRunsOnce == Spec => []RunsOnce
<1>1. IInv => RunsOnce
  <2>1. SUFFICES ASSUME IInv, NEW t \in Threads
                 PROVE  /\ runs[t] <= 1
                        /\ at[t] \in Begun => started[t]
                        /\ joined[t] /\ t \notin busy => at[t] = "done" /\ runs[t] = 1
    BY DEF RunsOnce
  <2>2. runs[t] \in 0..1 /\ ObjectInv(t)
    BY <2>1 DEF IInv, TypeOK
  <2>3. QED
    BY <2>2 DEF ObjectInv
<1>2. QED
  BY SpecIInv, <1>1, PTL

(* What ends the process.  (Thread.cpp:18-42)                                *)
THEOREM ThreadDeaths == Spec => []DeathCauses
<1>1. IInv => DeathCauses
  BY DEF IInv
<1>2. QED
  BY SpecIInv, <1>1, PTL

-----------------------------------------------------------------------------
(* The handshake holds of an object whose worker waits for its constructor:  *)
(* until then the worker is where it started.                                *)
HandInv ==
    /\ Handshake
    /\ \A t \in Threads \ EarlyRun :
          /\ life[t] \in {"raw", "thread", "cv"} => at[t] \in {"none", "lock"}
          /\ life[t] = "destroyed" /\ fault = "none" => started[t]

LEMMA HandStep ==
    ASSUME IInv, HandInv, [Next]_vars
    PROVE  HandInv'
<1> USE DEF IInv, TypeOK, BusyInv, ObjectInv, HandInv, Handshake, MainIdle, MayRun
<1>1. ASSUME NEW t \in Threads, ConstructThread(t) \/ MainStep(t)
      PROVE  HandInv'
  BY <1>1 DEF ConstructThread, MainStep, ConstructCv, ConstructMutex, JoinReturns
<1>2. ASSUME NEW t \in Threads, Start(t) \/ QueryStarted(t) \/ Join(t) \/ Destroy(t)
      PROVE  HandInv'
  BY <1>2 DEF Start, Notified, QueryStarted, Join, Destroy
<1>3. ASSUME NEW t \in Threads, WorkerStep(t) \/ SpuriousWakeup(t)
      PROVE  HandInv'
  BY <1>3 DEF WorkerStep, RunLock, RunCheck, MustWait, RunFunc, RunEnds, AfterFunc,
              TouchDestroyed, SpuriousWakeup
<1>4. CASE UNCHANGED vars
  BY <1>4 DEF vars
<1>5. QED
  BY <1>1, <1>2, <1>3, <1>4 DEF Next

(* A waiting worker is known to cv_ and was not started, if it did not run   *)
(* before its object was complete: start() cannot be missed.                 *)
THEOREM HandshakeKept == Spec => []Handshake
<1>1. Init => HandInv
  BY DEF Init, HandInv, Handshake
<1>2. IInv /\ HandInv /\ [Next]_vars => HandInv'
  BY HandStep
<1>3. HandInv => Handshake
  BY DEF HandInv
<1>4. QED
  BY SpecIInv, <1>1, <1>2, <1>3, PTL DEF Spec

-----------------------------------------------------------------------------
(* Processes on one port: the theorems on Startup.                           *)
(* A socket has the option of its version from its creation on, and what is  *)
(* left of a process has it still; one process listens.  The last is         *)
(* inductive as nobody takes SO_REUSEPORT: a process that listens excludes   *)
(* every socket, whatever the option.                                        *)
PortInv ==
    /\ PortTypeOK
    /\ \A s \in Servers :
          pc[s] # "off" \/ s \in lingering => option[s] = ReuseAddr(s)
    /\ \A s, t \in Servers : pc[s] = "serving" /\ pc[t] = "serving" => s = t

USE OldAssumption DEF Options

LEMMA ServingExcludes ==
    ASSUME PortInv, NEW s \in Servers, NEW t \in Servers \ {s},
           pc[s] = "bound", pc[t] = "serving"
    PROVE  PortTaken(s)
BY DEF PortInv, PortTypeOK, ReuseAddr, PortTaken, Excludes

LEMMA PortStep ==
    ASSUME PortInv, [PortNext]_portVars
    PROVE  PortInv'
<1> USE DEF PortInv, PortTypeOK, ReuseAddr
<1>1. ASSUME NEW s \in Servers, Create(s)
      PROVE  PortInv'
  BY <1>1 DEF Create
<1>2. ASSUME NEW s \in Servers, Bind(s)
      PROVE  PortInv'
  BY <1>2 DEF Bind, Assert
<1>3. ASSUME NEW s \in Servers, Listen(s)
      PROVE  PortInv'
  BY <1>3, ServingExcludes DEF Listen, Assert
<1>4. ASSUME NEW s \in Servers, Accept(s)
      PROVE  PortInv'
  BY <1>4 DEF Accept
<1>5. ASSUME NEW s \in Servers, Kill(s)
      PROVE  PortInv'
  BY <1>5 DEF Kill
<1>6. ASSUME NEW s \in Servers, Expire(s)
      PROVE  PortInv'
  BY <1>6 DEF Expire
<1>7. CASE UNCHANGED portVars
  BY <1>7 DEF portVars
<1>8. QED
  BY <1>1, <1>2, <1>3, <1>4, <1>5, <1>6, <1>7 DEF PortNext

LEMMA SpecPortInv == PortSpec => []PortInv
<1>1. PortInit => PortInv
  BY DEF PortInit, PortInv, PortTypeOK
<1>2. PortInv /\ [PortNext]_portVars => PortInv'
  BY PortStep
<1>3. QED
  BY <1>1, <1>2, PTL DEF PortSpec

(* Two processes never listen on the port, however many are started.          *)
(* (Sockets.cpp:19-40)                                                        *)
THEOREM PortHasOneListener == PortSpec => []OneListener
<1> DEFINE Serving == {s \in Servers : pc[s] = "serving"}
<1>1. ASSUME PortInv PROVE OneListener
  <2>1. IsFiniteSet(Serving) /\ \A s, t \in Serving : s = t
    BY <1>1, FS_Subset DEF PortInv
  <2>2. CASE Serving = {}
    BY <2>2, FS_EmptySet DEF OneListener
  <2>3. ASSUME NEW s \in Serving
        PROVE  OneListener
    <3>1. Serving = {s}
      BY <2>1, <2>3
    <3>2. Cardinality({s}) = 1
      BY FS_Singleton
    <3>3. QED
      BY <3>1, <3>2 DEF OneListener
  <2>4. QED
    BY <2>2, <2>3
<1>2. QED
  BY <1>1, SpecPortInv, PTL

(* A server that sets the option fails to start only while another one        *)
(* listens: a socket that is bound, and what is left of one, give way to it.  *)
(* (Sockets.cpp:19-24)                                                        *)
THEOREM RestartIsKept == PortSpec => RestartSucceeds
<1> DEFINE Fine == \A s \in Servers \ Old :
                     pc'[s] = "failed" /\ pc[s] # "failed" /\ NoneOld
                       => \E t \in Servers \ {s} : pc[t] = "serving"
<1>1. ASSUME PortInv, NEW s \in Servers \ Old, PortTaken(s), NoneOld,
             pc[s] # "off"
      PROVE  \E t \in Servers \ {s} : pc[t] = "serving"
  BY <1>1 DEF PortInv, PortTypeOK, PortTaken, NoneOld, ReuseAddr, Excludes
<1>2. PortInv /\ [PortNext]_portVars => [Fine]_portVars
  <2>1. SUFFICES ASSUME PortInv, PortNext, NEW s \in Servers \ Old,
                        pc'[s] = "failed", pc[s] # "failed", NoneOld
                 PROVE  \E t \in Servers \ {s} : pc[t] = "serving"
    OBVIOUS
  <2>2. PICK r \in Servers : \/ Create(r) \/ Bind(r) \/ Listen(r)
                             \/ Accept(r) \/ Kill(r) \/ Expire(r)
    BY <2>1 DEF PortNext
  <2>3. pc \in [Servers -> {"off", "created", "bound", "serving", "failed"}]
    BY <2>1 DEF PortInv, PortTypeOK
  <2>4. (Bind(r) \/ Listen(r)) /\ r = s /\ PortTaken(s)
    BY <2>1, <2>2, <2>3 DEF Create, Bind, Listen, Assert, Accept, Kill, Expire
  <2>5. QED
    BY <1>1, <2>1, <2>4 DEF Bind, Listen
<1>3. QED
  BY <1>2, SpecPortInv, PTL DEF PortSpec, RestartSucceeds
=============================================================================
