------------------------------- MODULE Thread -------------------------------
(***************************************************************************)
(* Class Thread (v1.7/src/Thread.h, Thread.cpp): one thread, here called   *)
(* main, makes, starts, joins and destroys Thread objects; the worker that *)
(* each object creates waits on a condition variable until it is started.  *)
(*                                                                         *)
(* Members are constructed in the order of their declaration: thread_,     *)
(* whose construction starts the worker, before cv_ and mutex_, whose      *)
(* constructors reset what the worker has done with them.  EarlyRun are    *)
(* the objects whose workers are scheduled that early.  main calls start() *)
(* and join() where their assertions hold, and destroys an object whenever *)
(* it likes.                                                               *)
(***************************************************************************)
EXTENDS Naturals

CONSTANTS
    Threads,        \* the Thread objects
    EarlyRun        \* those whose workers may run before their constructors have ended

ASSUME EarlyRunAssumption == EarlyRun \subseteq Threads

VARIABLES
    life,           \* how far the object is constructed, or destroyed
    started,        \* started_
    joined,         \* joined_
    registered,     \* cv_: the worker is known to wait
    holder,         \* mutex_: who has locked it
    at,             \* where the worker is
    runs,           \* how often threadFunc_ was called
    busy,           \* the object whose constructor or join() main is in, or none
    fault           \* what ended the process, or "none"

vars == <<life, started, joined, registered, holder, at, runs, busy, fault>>

Stages == {"raw", "thread", "cv", "made", "destroyed"}

Places == {"none", "lock", "check", "wait", "relock", "ready", "running", "done",
           "stuck"}

TypeOK ==
    /\ life \in [Threads -> Stages]
    /\ started \in [Threads -> BOOLEAN]
    /\ joined \in [Threads -> BOOLEAN]
    /\ registered \in [Threads -> BOOLEAN]
    /\ holder \in [Threads -> {"free", "worker"}]
    /\ at \in [Threads -> Places]
    /\ runs \in [Threads -> 0..1]
    /\ busy \in SUBSET Threads
    /\ fault \in {"none", "terminate", "query", "freed"}

Init ==
    /\ life = [t \in Threads |-> "raw"]
    /\ started = [t \in Threads |-> FALSE]
    /\ joined = [t \in Threads |-> FALSE]
    /\ registered = [t \in Threads |-> FALSE]
    /\ holder = [t \in Threads |-> "free"]
    /\ at = [t \in Threads |-> "none"]
    /\ runs = [t \in Threads |-> 0]
    /\ busy = {}
    /\ fault = "none"

-----------------------------------------------------------------------------
MainIdle == busy = {} /\ fault = "none"

(* Thread::Thread() up to thread_: the worker exists. *)
ConstructThread(t) ==
    /\ MainIdle
    /\ life[t] = "raw"
    /\ life' = [life EXCEPT ![t] = "thread"]
    /\ at' = [at EXCEPT ![t] = "lock"]
    /\ busy' = {t}
    /\ UNCHANGED <<started, joined, registered, holder, runs, fault>>

(* condition_variable's constructor forgets who waits. *)
ConstructCv(t) ==
    /\ fault = "none"
    /\ life[t] = "thread"
    /\ life' = [life EXCEPT ![t] = "cv"]
    /\ registered' = [registered EXCEPT ![t] = FALSE]
    /\ UNCHANGED <<started, joined, holder, at, runs, busy, fault>>

(* mutex's constructor forgets who has locked it; the object is complete. *)
ConstructMutex(t) ==
    /\ fault = "none"
    /\ life[t] = "cv"
    /\ life' = [life EXCEPT ![t] = "made"]
    /\ holder' = [holder EXCEPT ![t] = "free"]
    /\ busy' = {}
    /\ UNCHANGED <<started, joined, registered, at, runs, fault>>

(* Mutant: notify_one() is not called. *)
NotifiedNever(t) == at[t]

(* notify_one(): a worker that is registered has to lock the mutex again. *)
Notified(t) == IF registered[t] THEN "relock" ELSE at[t]

(* Thread::start(), from its lock to its unlock. *)
Start(t) ==
    /\ MainIdle
    /\ life[t] = "made"
    /\ ~started[t]
    /\ holder[t] = "free"
    /\ started' = [started EXCEPT ![t] = TRUE]
    /\ at' = [at EXCEPT ![t] = Notified(t)]
    /\ registered' = [registered EXCEPT ![t] = FALSE]
    /\ UNCHANGED <<life, joined, holder, runs, busy, fault>>

(* Thread::started() asserts that it is FALSE. *)
QueryStarted(t) ==
    /\ MainIdle
    /\ life[t] = "made"
    /\ started[t]
    /\ fault' = "query"
    /\ UNCHANGED <<life, started, joined, registered, holder, at, runs, busy>>

(* Thread::join() is entered. *)
Join(t) ==
    /\ MainIdle
    /\ life[t] = "made"
    /\ started[t] /\ ~joined[t]
    /\ joined' = [joined EXCEPT ![t] = TRUE]
    /\ busy' = {t}
    /\ UNCHANGED <<life, started, registered, holder, at, runs, fault>>

(* std::thread::join() returns. *)
JoinReturns(t) ==
    /\ fault = "none"
    /\ life[t] = "made" /\ t \in busy
    /\ at[t] = "done"
    /\ busy' = {}
    /\ UNCHANGED <<life, started, joined, registered, holder, at, runs, fault>>

(* ~Thread(): a thread_ that is neither joined nor detached terminates the   *)
(* process; a started worker is detached and goes on.                        *)
Destroy(t) ==
    /\ MainIdle
    /\ life[t] = "made"
    /\ life' = [life EXCEPT ![t] = "destroyed"]
    /\ fault' = IF started[t] THEN fault ELSE "terminate"
    /\ UNCHANGED <<started, joined, registered, holder, at, runs, busy>>

-----------------------------------------------------------------------------
(* The worker is scheduled, and its object is still there. *)
MayRun(t) ==
    /\ fault = "none"
    /\ life[t] = "made" \/ (t \in EarlyRun /\ life[t] \in {"thread", "cv"})

(* run() locks mutex_.  Before the mutex is constructed its memory may look  *)
(* like that of a locked one, for which nobody will ever wake the worker.    *)
RunLock(t) ==
    /\ MayRun(t)
    /\ at[t] \in {"lock", "relock"}
    /\ \/ /\ holder[t] = "free"
          /\ holder' = [holder EXCEPT ![t] = "worker"]
          /\ at' = [at EXCEPT ![t] = "check"]
       \/ /\ life[t] # "made"
          /\ at' = [at EXCEPT ![t] = "stuck"]
          /\ UNCHANGED holder
    /\ UNCHANGED <<life, started, joined, registered, runs, busy, fault>>

(* Mutants: the worker does not wait at all; it waits although it was        *)
(* started already.                                                          *)
MustWaitNever(t) == FALSE
MustWaitAlways(t) == TRUE

(* The condition of run()'s while. *)
MustWait(t) == ~started[t]

(* run() looks at started_: wait() registers and unlocks in one step. *)
RunCheck(t) ==
    /\ MayRun(t)
    /\ at[t] = "check"
    /\ IF MustWait(t)
         THEN /\ at' = [at EXCEPT ![t] = "wait"]
              /\ registered' = [registered EXCEPT ![t] = TRUE]
         ELSE /\ at' = [at EXCEPT ![t] = "ready"]
              /\ UNCHANGED registered
    /\ holder' = [holder EXCEPT ![t] = "free"]
    /\ UNCHANGED <<life, started, joined, runs, busy, fault>>

(* wait() may return for no reason. *)
SpuriousWakeup(t) ==
    /\ MayRun(t)
    /\ at[t] = "wait"
    /\ at' = [at EXCEPT ![t] = "relock"]
    /\ registered' = [registered EXCEPT ![t] = FALSE]
    /\ UNCHANGED <<life, started, joined, holder, runs, busy, fault>>

RunFunc(t) ==
    /\ MayRun(t)
    /\ at[t] = "ready"
    /\ at' = [at EXCEPT ![t] = "running"]
    /\ runs' = [runs EXCEPT ![t] = @ + 1]
    /\ UNCHANGED <<life, started, joined, registered, holder, busy, fault>>

(* Where run() goes on after threadFunc_. *)
AfterFunc == "done"

(* threadFunc_ returns; run() touches the object no more. *)
RunEnds(t) ==
    /\ fault = "none"
    /\ at[t] = "running"
    /\ at' = [at EXCEPT ![t] = AfterFunc]
    /\ UNCHANGED <<life, started, joined, registered, holder, runs, busy, fault>>

(* A detached worker uses a member of its destroyed object. *)
TouchDestroyed(t) ==
    /\ fault = "none"
    /\ life[t] = "destroyed"
    /\ at[t] \in {"lock", "relock", "check", "wait", "ready"}
    /\ fault' = "freed"
    /\ UNCHANGED <<life, started, joined, registered, holder, at, runs, busy>>

-----------------------------------------------------------------------------
(* What main does once it has begun. *)
MainStep(t) == ConstructCv(t) \/ ConstructMutex(t) \/ JoinReturns(t)

WorkerStep(t) ==
    \/ RunLock(t)
    \/ RunCheck(t)
    \/ RunFunc(t)
    \/ RunEnds(t)
    \/ TouchDestroyed(t)

Next ==
    \E t \in Threads :
        \/ ConstructThread(t)
        \/ Start(t)
        \/ QueryStarted(t)
        \/ Join(t)
        \/ Destroy(t)
        \/ MainStep(t)
        \/ WorkerStep(t)
        \/ SpuriousWakeup(t)

(* Every thread is scheduled; nobody need wake up without a reason, and main *)
(* need not start, join or destroy anything.                                 *)
Spec ==
    /\ Init /\ [][Next]_vars
    /\ \A t \in Threads : WF_vars(MainStep(t)) /\ WF_vars(WorkerStep(t))

-----------------------------------------------------------------------------
(* threadFunc_ is called once, not before start(), and has returned when     *)
(* join() returns, even if the worker runs before its object is complete.    *)
(* (Thread.cpp:26-31, 50-71)                                                 *)
RunsOnce ==
    \A t \in Threads :
        /\ runs[t] <= 1
        /\ at[t] \in {"ready", "running", "done"} => started[t]
        /\ joined[t] /\ t \notin busy => at[t] = "done" /\ runs[t] = 1

(* Only an object that is destroyed without being started or joined, or      *)
(* that is asked whether it started, ends the process.  (Thread.cpp:18-42)   *)
DeathCauses ==
    /\ fault = "freed" =>
          \E t \in Threads : life[t] = "destroyed" /\ ~joined[t] /\ at[t] # "done"
    /\ fault = "terminate" =>
          \E t \in Threads : life[t] = "destroyed" /\ ~started[t] /\ runs[t] = 0

(* Unless its worker ran before the object was complete: a worker that waits *)
(* is known to cv_ and was not started yet, so that start() finds it; one    *)
(* that looks at started_ has the lock, so that start() cannot come between  *)
(* its look and its wait; and none waits for a lock that nobody holds.       *)
(* (Thread.cpp:50-66)                                                        *)
Handshake ==
    \A t \in Threads \ EarlyRun :
        /\ at[t] = "wait" /\ life[t] = "made" => registered[t] /\ ~started[t]
        /\ at[t] = "check" <=> holder[t] = "worker"
        /\ at[t] # "stuck"

(* start() makes threadFunc_ run to its end, under the same condition,        *)
(* although wake-ups may come without a reason.                               *)
(* (doc/Notes_for_Version_multi.md: start() wakes the thread that waits)      *)
StartedRuns ==
    \A t \in Threads \ EarlyRun :
        started[t] ~> at[t] = "done" \/ fault # "none"
=============================================================================
