------------------------------ MODULE JobSystem ------------------------------
(***************************************************************************)
(* Core/Job.cpp: the JobManager, its pool of JobThreads and the queue      *)
(* between them.  The main thread creates the pool, pushes jobs and, at    *)
(* the end, releases the pool thread by thread with a stop/end handshake   *)
(* of auto-reset events; each worker loops between waiting 16 ms for its   *)
(* stop event and popping a job.  The queue is the BoundedFifo that        *)
(* AtomicQueue implements: calls of different threads overlap.             *)
(*                                                                         *)
(* The client keeps its jobs until the manager is released.  m_hBeginEvent *)
(* is left out: it is set and nothing waits for it.                        *)
(***************************************************************************)
EXTENDS Naturals, Sequences

CONSTANTS
  PoolSize,   \* JobManager::CreateInfo::m_uPoolSize, the number of CPUs
  Jobs,       \* the jobs the client may push, each once
  NoJob,      \* NULL
  Capacity,   \* slots of m_cJobs (100 in the constructor)
  Main        \* the thread that owns the manager

ASSUME PoolAssumption  == PoolSize \in Nat \ {0}
ASSUME QueueAssumption == Capacity \in Nat \ {0}
ASSUME NamesAssumption == NoJob \notin Jobs /\ Main \notin 1 .. PoolSize

Workers == 1 .. PoolSize
Threads == Workers \cup {Main}

VARIABLES
  mpc,        \* where the main thread is in Create, PushJob or Release
  count,      \* m_vThreads.size()
  current,    \* index of the JobThread being released
  object,     \* each JobThread object: "none", "live" or "deleted"
  stop, end,  \* its two auto-reset events: signalled?
  wpc,        \* where its worker is in JobThread::Update
  job,        \* the worker's pJob
  runs,       \* history: how many times each job's Update was entered
  pushed, popped, call, value, seen   \* the queue

manager == <<mpc, count, current>>
threads == <<object, stop, end>>
worker  == <<wpc, job, runs>>
queue   == <<pushed, popped, call, value>>
vars    == <<mpc, count, current, object, stop, end, wpc, job, runs,
             pushed, popped, call, value, seen>>

Fifo == INSTANCE BoundedFifo WITH Items <- Jobs, NoItem <- NoJob

MainGoto(from, to) == mpc = from /\ mpc' = to
WorkGoto(i, from, to) == wpc[i] = from /\ wpc' = [wpc EXCEPT ![i] = to]

-----------------------------------------------------------------------------
(* JobManager::Create: JobThread::Create either makes the three events and *)
(* starts the thread, or fails and the object is released and deleted.     *)

(* Mutant: one turn of the loop too many.                                  *)
NewThreadOneMore ==
  LET i == count + 1 IN
  /\ MainGoto("create", IF i > PoolSize THEN "ready" ELSE "create")
  /\ object' = [object EXCEPT ![i] = "live"]
  /\ wpc' = [wpc EXCEPT ![i] = "start"]
  /\ count' = i
  /\ UNCHANGED <<current, stop, end, job, runs, queue>>

NewThread ==
  LET i == count + 1 IN
  /\ MainGoto("create", IF i = PoolSize THEN "ready" ELSE "create")
  /\ object' = [object EXCEPT ![i] = "live"]
  /\ wpc' = [wpc EXCEPT ![i] = "start"]
  /\ count' = i
  /\ UNCHANGED <<current, stop, end, job, runs, queue>>

NewThreadFails ==
  /\ MainGoto("create", "failed")
  /\ object' = [object EXCEPT ![count + 1] = "deleted"]
  /\ UNCHANGED <<count, current, stop, end, worker, queue>>

(* JobManager::PushJob.  The result of Push is not looked at.              *)
PushJob(j) ==
  /\ \A k \in 1 .. Len(pushed) : pushed[k] # j
  /\ MainGoto("ready", "pushing")
  /\ Fifo!BeginPush(Main, j)
  /\ UNCHANGED <<count, current, threads, worker>>

PushTakesEffect ==
  /\ Fifo!Push(Main)
  /\ UNCHANGED <<manager, threads, worker>>

PushReturns ==
  /\ MainGoto("pushing", "ready")
  /\ Fifo!Return(Main)
  /\ UNCHANGED <<count, current, threads, worker>>

(* JobManager::Release, entered at the end of the program or after a       *)
(* failed Create; it walks m_vThreads.                                     *)
Release ==
  /\ mpc \in {"ready", "failed"}
  /\ mpc' = "release"
  /\ current' = 1
  /\ UNCHANGED <<count, threads, worker, queue>>

(* JobThread::Release: SetEvent(m_hStopEvent), then wait for the end event *)
(* in slices of 16 ms, close the handles and delete the object.            *)
SignalStop ==
  /\ current <= count
  /\ MainGoto("release", "wait_end")
  /\ stop' = [stop EXCEPT ![current] = TRUE]
  /\ UNCHANGED <<count, current, object, end, worker, queue>>

(* Mutant: the object is deleted without waiting for the end event.        *)
JoinThreadAtOnce ==
  /\ MainGoto("wait_end", "release")
  /\ end' = [end EXCEPT ![current] = FALSE]
  /\ object' = [object EXCEPT ![current] = "deleted"]
  /\ current' = current + 1
  /\ UNCHANGED <<count, stop, worker, queue>>

(* Mutant: the end event is a manual-reset one.                            *)
JoinThreadManual ==
  /\ MainGoto("wait_end", "release")
  /\ end[current]
  /\ object' = [object EXCEPT ![current] = "deleted"]
  /\ current' = current + 1
  /\ UNCHANGED <<count, stop, end, worker, queue>>

JoinThread ==
  /\ MainGoto("wait_end", "release")
  /\ end[current]
  /\ end' = [end EXCEPT ![current] = FALSE]
  /\ object' = [object EXCEPT ![current] = "deleted"]
  /\ current' = current + 1
  /\ UNCHANGED <<count, stop, worker, queue>>

(* m_vThreads.clear(), then the manager and its queue are deleted.         *)
DeleteManager ==
  /\ current > count
  /\ MainGoto("release", "deleted")
  /\ count' = 0
  /\ UNCHANGED <<current, threads, worker, queue>>

-----------------------------------------------------------------------------
(* JobThread::Update                                                       *)

Start(i) ==
  /\ WorkGoto(i, "start", "wait_stop")
  /\ UNCHANGED <<manager, threads, job, runs, queue>>

(* Mutant: the thread leaves its loop without signalling its end.          *)
StopSeenNoEnd(i) ==
  /\ stop[i]
  /\ WorkGoto(i, "wait_stop", "exited")
  /\ stop' = [stop EXCEPT ![i] = FALSE]
  /\ UNCHANGED <<manager, object, end, job, runs, queue>>

(* WaitForSingleObject returns WAIT_OBJECT_0 and resets the event.         *)
StopSeen(i) ==
  /\ stop[i]
  /\ WorkGoto(i, "wait_stop", "ending")
  /\ stop' = [stop EXCEPT ![i] = FALSE]
  /\ UNCHANGED <<manager, object, end, job, runs, queue>>

(* 16 ms pass without the event: PopJob is called.                         *)
StopTimeout(i) ==
  /\ ~stop[i]
  /\ WorkGoto(i, "wait_stop", "popping")
  /\ Fifo!BeginPop(i)
  /\ UNCHANGED <<manager, threads, job, runs>>

PopTakesEffect(i) ==
  /\ Fifo!Pop(i)
  /\ UNCHANGED <<manager, threads, worker>>

(* Mutant: a worker asked to stop drops the job it has just popped.        *)
PopReturnsUnlessStopped(i) ==
  /\ Fifo!Return(i)
  /\ \/ /\ value[i] # NoJob /\ ~stop[i]
        /\ WorkGoto(i, "popping", "running")
        /\ job' = [job EXCEPT ![i] = value[i]]
        /\ runs' = [runs EXCEPT ![value[i]] = @ + 1]
     \/ /\ value[i] = NoJob \/ stop[i]
        /\ WorkGoto(i, "popping", "wait_stop")
        /\ UNCHANGED <<job, runs>>
  /\ UNCHANGED <<manager, threads>>

(* Mutant: a worker that finds the queue empty ends.                       *)
PopReturnsOrEnds(i) ==
  /\ Fifo!Return(i)
  /\ \/ /\ value[i] # NoJob
        /\ WorkGoto(i, "popping", "running")
        /\ job' = [job EXCEPT ![i] = value[i]]
        /\ runs' = [runs EXCEPT ![value[i]] = @ + 1]
     \/ /\ value[i] = NoJob
        /\ WorkGoto(i, "popping", "ending")
        /\ UNCHANGED <<job, runs>>
  /\ UNCHANGED <<manager, threads>>

(* PopJob returns; a job's Update is entered at once.                      *)
PopReturns(i) ==
  /\ Fifo!Return(i)
  /\ \/ /\ value[i] # NoJob
        /\ WorkGoto(i, "popping", "running")
        /\ job' = [job EXCEPT ![i] = value[i]]
        /\ runs' = [runs EXCEPT ![value[i]] = @ + 1]
     \/ /\ value[i] = NoJob
        /\ WorkGoto(i, "popping", "wait_stop")
        /\ UNCHANGED <<job, runs>>
  /\ UNCHANGED <<manager, threads>>

JobDone(i) ==
  /\ WorkGoto(i, "running", "wait_stop")
  /\ job' = [job EXCEPT ![i] = NoJob]
  /\ UNCHANGED <<manager, threads, runs, queue>>

SignalEnd(i) ==
  /\ WorkGoto(i, "ending", "exited")
  /\ end' = [end EXCEPT ![i] = TRUE]
  /\ UNCHANGED <<manager, object, stop, job, runs, queue>>

-----------------------------------------------------------------------------
Init ==
  /\ mpc = "create" /\ count = 0 /\ current = 0
  /\ object = [i \in Workers |-> "none"]
  /\ stop = [i \in Workers |-> FALSE]
  /\ end = [i \in Workers |-> FALSE]
  /\ wpc = [i \in Workers |-> "none"]
  /\ job = [i \in Workers |-> NoJob]
  /\ runs = [j \in Jobs |-> 0]
  /\ Fifo!Init

MainNext ==
  \/ NewThread \/ NewThreadFails
  \/ (\E j \in Jobs : PushJob(j)) \/ PushTakesEffect \/ PushReturns
  \/ Release \/ SignalStop \/ JoinThread \/ DeleteManager

WorkerNext(i) ==
  \/ Start(i) \/ StopSeen(i) \/ StopTimeout(i) \/ PopTakesEffect(i)
  \/ PopReturns(i) \/ JobDone(i) \/ SignalEnd(i)

Next == (MainNext \/ \E i \in Workers : WorkerNext(i)) /\ Fifo!Observe

Spec == Init /\ [][Next]_vars

(* Threads that can run do run, and the queue's calls return (AtomicQueue's *)
(* EveryCallReturns).  A job's Update is assumed to terminate, which the    *)
(* loops of ApplicationJob.cpp do not.  Nothing makes the client push or    *)
(* release.                                                                 *)
MainContinues == PushTakesEffect \/ PushReturns \/ SignalStop \/ JoinThread \/ DeleteManager

Fairness ==
  /\ WF_vars(MainContinues /\ Fifo!Observe)
  /\ \A i \in Workers : WF_vars(WorkerNext(i) /\ Fifo!Observe)

FairSpec == Spec /\ Fairness
-----------------------------------------------------------------------------
TypeOK ==
  /\ mpc \in {"create", "failed", "ready", "pushing", "release", "wait_end", "deleted"}
  /\ count \in 0 .. PoolSize /\ current \in 0 .. PoolSize + 1
  /\ object \in [Workers -> {"none", "live", "deleted"}]
  /\ stop \in [Workers -> BOOLEAN] /\ end \in [Workers -> BOOLEAN]
  /\ wpc \in [Workers -> {"none", "start", "wait_stop", "popping", "running",
                          "ending", "exited"}]
  /\ job \in [Workers -> Jobs \cup {NoJob}]
  /\ runs \in [Jobs -> Nat]

Updating(i) == wpc[i] \in {"start", "wait_stop", "popping", "running", "ending"}

(* While a thread is inside JobThread::Update it uses the JobThread object, *)
(* its event handles and the manager's queue: none of them is deleted under *)
(* it, on the normal shutdown or on the one after a pool only partly made.  *)
NothingDeletedUnderWorker ==
  \A i \in Workers : Updating(i) => object[i] = "live" /\ mpc # "deleted"

(* The end event that ends one JobThread::Release was signalled by that     *)
(* thread's own last step, so the handles closed next are no longer used.   *)
EndMeansExited == \A i \in Workers : end[i] => wpc[i] = "exited" /\ object[i] = "live"

Handling(i, j) == \/ wpc[i] = "popping" /\ call[i] = "popped" /\ value[i] = j
                  \/ wpc[i] = "running" /\ job[i] = j

(* A job that left the queue is entered exactly once: it is in the hands of *)
(* one worker, or has been run; a stop request does not make a worker drop  *)
(* a job it has already popped.                                             *)
HandedOverOnce ==
  \A j \in Jobs :
    LET out == \E k \in 1 .. Len(popped) : popped[k] = j
        holders == {i \in Workers : Handling(i, j)}
    IN  /\ runs[j] <= 1
        /\ \A i1, i2 \in holders : i1 = i2
        /\ runs[j] = 1 => out
        /\ out => runs[j] = 1 \/ holders # {}

(* JobManager::Release comes back, whatever the workers are doing when it   *)
(* begins (given that every Update of a job terminates).                    *)
ReleaseReturns == mpc = "release" ~> mpc = "deleted"

(* A job in the queue is run unless the pool is being shut down (or was     *)
(* never completely made): no wake-up is lost, because nobody waits for one.*)
QueuedJobRuns ==
  \A j \in Jobs :
    (\E k \in 1 .. Len(pushed) : pushed[k] = j)
      ~> (runs[j] = 1 \/ mpc \in {"release", "wait_end", "deleted"})

(* "push back the job in the lock-less queue" (Job.cpp line 191): when      *)
(* PushJob has returned, the job it was given is in the queue's history.    *)
PushJobPushes ==
  [][mpc = "pushing" /\ mpc' = "ready" =>
       \E k \in 1 .. Len(pushed) : pushed[k] = value[Main]]_vars

-----------------------------------------------------------------------------
(* The inductive invariant behind the safety properties.                   *)

QueueTypes ==
  /\ pushed \in Seq(Jobs) /\ popped \in Seq(Jobs)
  /\ call \in [Threads -> {"idle", "push", "pushed", "pop", "popped"}]
  /\ value \in [Threads -> Jobs \cup {NoJob}]

(* How far the main thread is, and which thread objects exist then.        *)
PoolShape ==
  /\ mpc = "create" => count < PoolSize
  /\ mpc = "release" => current \in 1 .. count + 1
  /\ mpc = "wait_end" => current \in 1 .. count
  /\ mpc = "deleted" => count = 0
  /\ \A i \in Workers :
       object[i] = "live" => i <= count /\ (mpc \in {"release", "wait_end"} => current <= i)

WorkerShape ==
  \A i \in Workers :
    /\ Updating(i) => object[i] = "live"
    /\ end[i] => wpc[i] = "exited" /\ object[i] = "live"

Out(j)        == \E k \in 1 .. Len(popped) : popped[k] = j
Queued(j)     == \E k \in 1 .. Len(pushed) : pushed[k] = j
Pending(i, j) == wpc[i] = "popping" /\ call[i] = "popped" /\ value[i] = j
Running(i, j) == wpc[i] = "running" /\ job[i] = j

(* Every job is pushed once, and the items popped are the first pushed.    *)
QueueShape ==
  /\ Len(popped) <= Len(pushed)
  /\ \A k \in 1 .. Len(popped) : popped[k] = pushed[k]
  /\ \A k, l \in 1 .. Len(pushed) : pushed[k] = pushed[l] => k = l
  /\ call[Main] = "push" => value[Main] \in Jobs /\ ~Queued(value[Main])
  /\ \A i \in Workers :
       /\ call[i] \in {"idle", "pop", "popped"}
       /\ call[i] # "idle" => wpc[i] = "popping"
       /\ call[i] = "popped" => value[i] \in Jobs
       /\ call[i] = "pop" => value[i] = NoJob

JobShape ==
  \A j \in Jobs :
    /\ runs[j] \in {0, 1}
    /\ runs[j] = 1 => Out(j)
    /\ \A i \in Workers : Pending(i, j) => Out(j) /\ runs[j] = 0
    /\ \A i \in Workers : Running(i, j) => Out(j) /\ runs[j] = 1
    /\ \A h, i \in Workers : Handling(h, j) /\ Handling(i, j) => h = i
    /\ Out(j) => runs[j] = 1 \/ \E i \in Workers : Handling(i, j)

Inv == TypeOK /\ QueueTypes /\ PoolShape /\ WorkerShape /\ QueueShape /\ JobShape
=============================================================================
