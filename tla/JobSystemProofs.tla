---------------------------- MODULE JobSystemProofs ----------------------------
(***************************************************************************)
(* Proofs about JobSystem, for every pool size, every set of jobs and      *)
(* every queue capacity.                                                   *)
(***************************************************************************)
EXTENDS JobSystem, TLAPS

LEMMA Names ==
  /\ Main \in Threads /\ \A i \in Workers : i \in Threads /\ i # Main
  /\ NoJob \notin Jobs /\ PoolSize \in Nat /\ PoolSize > 0
  BY NamesAssumption, PoolAssumption DEF Threads, Workers

-----------------------------------------------------------------------------
(* The pool: the main thread's progress, the JobThread objects, the events.*)

Pool == TypeOK /\ PoolShape /\ WorkerShape

LEMMA MainPool ==
  ASSUME Pool,
         NewThread \/ NewThreadFails \/ Release \/ SignalStop \/ JoinThread \/ DeleteManager
  PROVE  Pool'
  <1> USE PoolAssumption DEF Pool, TypeOK, PoolShape, WorkerShape, Updating, Workers,
          MainGoto, threads, worker
  <1>1. CASE NewThread
    BY <1>1 DEF NewThread
  <1>2. CASE NewThreadFails
    BY <1>2 DEF NewThreadFails
  <1>3. CASE Release
    BY <1>3 DEF Release
  <1>4. CASE SignalStop
    BY <1>4 DEF SignalStop
  <1>5. CASE JoinThread
    BY <1>5 DEF JoinThread
  <1>6. CASE DeleteManager
    BY <1>6 DEF DeleteManager
  <1> QED BY <1>1, <1>2, <1>3, <1>4, <1>5, <1>6

LEMMA PushPool ==
  ASSUME Pool, (\E j \in Jobs : PushJob(j)) \/ PushTakesEffect \/ PushReturns
  PROVE  Pool'
  <1>1. /\ mpc' = mpc \/ (mpc' \in {"ready", "pushing"} /\ mpc \in {"ready", "pushing"})
        /\ UNCHANGED <<count, current, object, stop, end, wpc, job, runs>>
    BY DEF PushJob, PushTakesEffect, PushReturns, MainGoto, manager, threads, worker
  <1> QED BY <1>1 DEF Pool, TypeOK, PoolShape, WorkerShape, Updating

LEMMA WorkerPool ==
  ASSUME Pool, QueueTypes, NEW i \in Workers, WorkerNext(i)
  PROVE  Pool'
  <1> USE DEF Pool, TypeOK, PoolShape, WorkerShape, Updating,
          WorkGoto, manager, threads, worker
  <1>1. CASE Start(i)
    BY <1>1 DEF Start
  <1>2. CASE StopSeen(i)
    BY <1>2 DEF StopSeen
  <1>3. CASE StopTimeout(i)
    BY <1>3 DEF StopTimeout
  <1>4. CASE PopTakesEffect(i)
    BY <1>4 DEF PopTakesEffect
  <1>5. CASE PopReturns(i)
    <2>1. value[i] \in Jobs \cup {NoJob}
      BY DEF QueueTypes, Threads
    <2> QED BY <1>5, <2>1 DEF PopReturns
  <1>6. CASE JobDone(i)
    BY <1>6 DEF JobDone
  <1>7. CASE SignalEnd(i)
    BY <1>7 DEF SignalEnd
  <1> QED BY <1>1, <1>2, <1>3, <1>4, <1>5, <1>6, <1>7 DEF WorkerNext

-----------------------------------------------------------------------------
(* The queue: the calls of the threads and the two histories.              *)

Calls == QueueTypes /\ QueueShape

(* Steps that leave the queue alone leave every worker that is in a call   *)
(* where it was.                                                           *)
LEMMA IdleCalls ==
  ASSUME Calls, UNCHANGED queue, \A i \in Workers : wpc[i] = "popping" => wpc'[i] = wpc[i]
  PROVE  Calls'
  BY DEF Calls, QueueTypes, QueueShape, Queued, queue

LEMMA IdleSteps ==
  ASSUME Pool, Calls,
         \/ NewThread \/ NewThreadFails \/ Release \/ SignalStop \/ JoinThread \/ DeleteManager
         \/ \E i \in Workers : Start(i) \/ StopSeen(i) \/ JobDone(i) \/ SignalEnd(i)
  PROVE  UNCHANGED queue /\ \A i \in Workers : wpc[i] = "popping" => wpc'[i] = wpc[i]
  <1> USE DEF WorkGoto, worker
  <1>1. CASE NewThread
    <2>1. wpc[count + 1] # "popping"
      BY <1>1, PoolAssumption DEF NewThread, MainGoto, Pool, PoolShape, WorkerShape, Updating,
                                  TypeOK, Workers
    <2> QED BY <1>1, <2>1 DEF NewThread, Pool, TypeOK
  <1>2. CASE NewThreadFails \/ Release \/ SignalStop \/ JoinThread \/ DeleteManager
    BY <1>2 DEF NewThreadFails, Release, SignalStop, JoinThread, DeleteManager
  <1>3. ASSUME NEW i \in Workers, Start(i) \/ StopSeen(i) \/ JobDone(i) \/ SignalEnd(i)
        PROVE  UNCHANGED queue /\ \A h \in Workers : wpc[h] = "popping" => wpc'[h] = wpc[h]
    BY <1>3 DEF Start, StopSeen, JobDone, SignalEnd, Pool, TypeOK
  <1> QED BY <1>1, <1>2, <1>3

LEMMA PushCalls ==
  ASSUME Pool, Calls, (\E j \in Jobs : PushJob(j)) \/ PushTakesEffect \/ PushReturns
  PROVE  Calls'
  <1> USE Names DEF Calls, QueueTypes, QueueShape, Queued, worker
  <1>1. ASSUME NEW j \in Jobs, PushJob(j) PROVE Calls'
    BY <1>1 DEF PushJob, Fifo!BeginPush
  <1>2. CASE PushTakesEffect
    <2>1. /\ call[Main] = "push" /\ pushed' = Append(pushed, value[Main])
          /\ call' = [call EXCEPT ![Main] = "pushed"] /\ UNCHANGED <<popped, value, wpc>>
      BY <1>2 DEF PushTakesEffect, Fifo!Push
    <2>2. value[Main] \in Jobs /\ ~Queued(value[Main])
      BY <2>1
    <2>3. /\ pushed' \in Seq(Jobs) /\ Len(pushed') = Len(pushed) + 1
          /\ pushed'[Len(pushed) + 1] = value[Main]
          /\ \A k \in 1 .. Len(pushed) : pushed'[k] = pushed[k]
      BY <2>1, <2>2
    <2>4. \A k, l \in 1 .. Len(pushed') : pushed'[k] = pushed'[l] => k = l
      BY <2>2, <2>3
    <2>5. Len(popped') <= Len(pushed') /\ \A k \in 1 .. Len(popped') : popped'[k] = pushed'[k]
      BY <2>1, <2>3
    <2>6. QueueTypes'
      BY <2>1, <2>3
    <2>7. call'[Main] = "pushed" /\ \A i \in Workers : call'[i] = call[i]
      BY <2>1
    <2> QED BY <2>1, <2>4, <2>5, <2>6, <2>7
  <1>3. CASE PushReturns
    BY <1>3 DEF PushReturns, Fifo!Return
  <1> QED BY <1>1, <1>2, <1>3

LEMMA PopCalls ==
  ASSUME Pool, Calls, NEW i \in Workers, StopTimeout(i) \/ PopTakesEffect(i) \/ PopReturns(i)
  PROVE  Calls'
  <1> USE Names DEF Calls, QueueTypes, QueueShape, worker
  <1>1. CASE StopTimeout(i)
    <2>1. /\ call' = [call EXCEPT ![i] = "pop"] /\ value' = [value EXCEPT ![i] = NoJob]
          /\ wpc' = [wpc EXCEPT ![i] = "popping"] /\ UNCHANGED <<pushed, popped>>
      BY <1>1 DEF StopTimeout, Fifo!BeginPop, WorkGoto
    <2>2. \A h \in Workers :
            /\ call'[h] \in {"idle", "pop", "popped"}
            /\ call'[h] # "idle" => wpc'[h] = "popping"
            /\ call'[h] = "popped" => value'[h] \in Jobs
            /\ call'[h] = "pop" => value'[h] = NoJob
      BY <2>1 DEF Pool, TypeOK
    <2>3. call'[Main] = call[Main] /\ value'[Main] = value[Main]
      BY <2>1
    <2>4. QueueTypes'
      BY <2>1
    <2> QED BY <2>1, <2>2, <2>3, <2>4 DEF Queued
  <1>2. CASE PopTakesEffect(i)
    <2> DEFINE v == pushed[Len(popped) + 1]
    <2>1. /\ call[i] = "pop" /\ popped' = Append(popped, v) /\ Len(popped) < Len(pushed)
          /\ value' = [value EXCEPT ![i] = v] /\ call' = [call EXCEPT ![i] = "popped"]
          /\ UNCHANGED <<pushed, wpc>>
      BY <1>2 DEF PopTakesEffect, Fifo!Pop, Fifo!Count
    <2>2. v \in Jobs
      BY <2>1
    <2>3. /\ popped' \in Seq(Jobs) /\ Len(popped') = Len(popped) + 1
          /\ \A k \in 1 .. Len(popped') : popped'[k] = pushed'[k]
      BY <2>1, <2>2
    <2>4. QueueTypes'
      BY <2>1, <2>2, <2>3
    <2>5. Len(popped') <= Len(pushed')
      BY <2>1, <2>3
    <2>6. call'[Main] = call[Main] /\ value'[Main] = value[Main]
      BY <2>1
    <2>7. \A h \in Workers : h # i => call'[h] = call[h] /\ value'[h] = value[h]
      BY <2>1
    <2>8. call'[i] = "popped" /\ value'[i] \in Jobs
      BY <2>1, <2>2
    <2>9. \A h \in Workers :
            /\ call'[h] \in {"idle", "pop", "popped"}
            /\ call'[h] # "idle" => wpc'[h] = "popping"
            /\ call'[h] = "popped" => value'[h] \in Jobs
            /\ call'[h] = "pop" => value'[h] = NoJob
      BY <2>1, <2>7, <2>8
    <2> QED BY <2>1, <2>3, <2>4, <2>5, <2>6, <2>9 DEF Queued
  <1>3. CASE PopReturns(i)
    <2>1. /\ call' = [call EXCEPT ![i] = "idle"] /\ UNCHANGED <<pushed, popped, value>>
          /\ \A h \in Workers : h # i => wpc'[h] = wpc[h]
      BY <1>3 DEF PopReturns, Fifo!Return, WorkGoto, Pool, TypeOK
    <2> QED BY <2>1 DEF Queued
  <1> QED BY <1>1, <1>2, <1>3

-----------------------------------------------------------------------------
(* The jobs that have left the queue, and the workers that have them.      *)

LEMMA SameHands ==
  ASSUME JobShape, UNCHANGED <<runs, popped>>,
         \A i \in Workers, j \in Jobs : Pending(i, j)' = Pending(i, j) /\ Running(i, j)' = Running(i, j)
  PROVE  JobShape'
  BY DEF JobShape, Handling, Pending, Running, Out

LEMMA MainHands ==
  ASSUME Pool, Calls, JobShape, MainNext
  PROVE  JobShape'
  <1>1. UNCHANGED <<runs, popped, job>>
    BY DEF MainNext, NewThread, NewThreadFails, PushJob, PushTakesEffect, PushReturns, Release,
           SignalStop, JoinThread, DeleteManager, Fifo!BeginPush, Fifo!Push, Fifo!Return,
           worker, queue
  <1>2. \A i \in Workers : call'[i] = call[i] /\ value'[i] = value[i]
    BY Names DEF MainNext, NewThread, NewThreadFails, PushJob, PushTakesEffect, PushReturns, Release,
           SignalStop, JoinThread, DeleteManager, Fifo!BeginPush, Fifo!Push, Fifo!Return,
           queue, Calls, QueueTypes
  <1>3. ASSUME NEW i \in Workers
        PROVE  wpc'[i] = wpc[i] \/ (wpc[i] \in {"none", "exited"} /\ wpc'[i] = "start")
    <2>1. CASE NewThread
      BY <2>1, PoolAssumption DEF NewThread, Pool, TypeOK, PoolShape, WorkerShape, Updating
    <2>2. CASE ~NewThread
      BY <2>2 DEF MainNext, NewThreadFails, PushJob, PushTakesEffect, PushReturns, Release,
           SignalStop, JoinThread, DeleteManager, worker
    <2> QED BY <2>1, <2>2
  <1>4. \A i \in Workers, j \in Jobs : Pending(i, j)' = Pending(i, j) /\ Running(i, j)' = Running(i, j)
    BY <1>1, <1>2, <1>3 DEF Pending, Running
  <1> QED BY <1>1, <1>4, SameHands

LEMMA WorkerHands ==
  ASSUME Pool, Calls, JobShape, NEW i \in Workers, WorkerNext(i)
  PROVE  JobShape'
  <1> USE Names
  <1>1. CASE Start(i) \/ StopSeen(i) \/ SignalEnd(i) \/ StopTimeout(i)
    <2>1. UNCHANGED <<runs, popped, job>>
      BY <1>1 DEF Start, StopSeen, SignalEnd, StopTimeout, Fifo!BeginPop, queue
    <2>2. \A h \in Workers : h # i => wpc'[h] = wpc[h] /\ call'[h] = call[h] /\ value'[h] = value[h]
      BY <1>1 DEF Start, StopSeen, SignalEnd, StopTimeout, Fifo!BeginPop, WorkGoto, queue,
                  Pool, TypeOK, Calls, QueueTypes
    <2>3. /\ wpc[i] \notin {"popping", "running"} /\ wpc'[i] # "running"
          /\ wpc'[i] = "popping" => call'[i] = "pop"
      BY <1>1 DEF Start, StopSeen, SignalEnd, StopTimeout, Fifo!BeginPop, WorkGoto,
                  Pool, TypeOK, Calls, QueueTypes
    <2>4. \A h \in Workers, j \in Jobs : Pending(h, j)' = Pending(h, j) /\ Running(h, j)' = Running(h, j)
      BY <2>1, <2>2, <2>3 DEF Pending, Running
    <2> QED BY <2>1, <2>4, SameHands
  <1>2. CASE PopTakesEffect(i)
    <2> DEFINE v == pushed[Len(popped) + 1]
    <2>1. /\ call[i] = "pop" /\ popped' = Append(popped, v) /\ Len(popped) < Len(pushed)
          /\ value' = [value EXCEPT ![i] = v] /\ call' = [call EXCEPT ![i] = "popped"]
          /\ UNCHANGED <<wpc, job, runs>>
      BY <1>2 DEF PopTakesEffect, Fifo!Pop, Fifo!Count, worker, Calls, QueueTypes
    <2>2. v \in Jobs /\ ~Out(v)
      BY <2>1 DEF Calls, QueueTypes, QueueShape, Out
    <2>3. \A j \in Jobs : Out(j)' <=> Out(j) \/ j = v
      BY <2>1, <2>2 DEF Out, Calls, QueueTypes
    <2>4. wpc[i] = "popping"
      BY <2>1 DEF Calls, QueueShape
    <2>5. /\ \A j \in Jobs : Running(i, j)' = Running(i, j)
          /\ \A j \in Jobs : ~Pending(i, j) /\ ~Running(i, j)
          /\ \A j \in Jobs : Pending(i, j)' <=> j = v
      BY <2>1, <2>2, <2>4 DEF Pending, Running, Calls, QueueTypes
    <2>6. \A h \in Workers, j \in Jobs :
            h # i => Pending(h, j)' = Pending(h, j) /\ Running(h, j)' = Running(h, j)
      BY <2>1 DEF Pending, Running, Calls, QueueTypes
    <2>7. \A h \in Workers : ~Pending(h, v) /\ ~Running(h, v)
      BY <2>2 DEF JobShape
    <2>8. runs[v] = 0
      BY <2>2 DEF JobShape
    <2>9. ASSUME NEW j \in Jobs
          PROVE  /\ runs'[j] \in {0, 1}
                 /\ runs'[j] = 1 => Out(j)'
                 /\ \A h \in Workers : Pending(h, j)' => Out(j)' /\ runs'[j] = 0
                 /\ \A h \in Workers : Running(h, j)' => Out(j)' /\ runs'[j] = 1
                 /\ \A g, h \in Workers : Handling(g, j)' /\ Handling(h, j)' => g = h
                 /\ Out(j)' => runs'[j] = 1 \/ \E h \in Workers : Handling(h, j)'
      <3>1. \A h \in Workers : /\ Handling(h, j) <=> Pending(h, j) \/ Running(h, j)
                               /\ Handling(h, j)' <=> Pending(h, j)' \/ Running(h, j)'
        BY DEF Handling, Pending, Running
      <3>2. CASE j = v
        BY <2>1, <2>3, <2>5, <2>6, <2>7, <2>8, <3>1, <3>2
      <3>3. CASE j # v
        BY <2>1, <2>3, <2>5, <2>6, <3>1, <3>3 DEF JobShape
      <3> QED BY <3>2, <3>3
    <2> QED BY <2>9 DEF JobShape
  <1>3. CASE PopReturns(i)
    <2>1. UNCHANGED <<popped, value>> /\ call' = [call EXCEPT ![i] = "idle"]
          /\ wpc[i] = "popping"
      BY <1>3 DEF PopReturns, Fifo!Return, WorkGoto
    <2>2. CASE value[i] = NoJob
      <3>1. UNCHANGED <<runs, job>> /\ wpc' = [wpc EXCEPT ![i] = "wait_stop"]
        BY <1>3, <2>2 DEF PopReturns, WorkGoto
      <3>2. call[i] # "popped"
        BY <2>2 DEF Calls, QueueShape
      <3>3. \A h \in Workers, j \in Jobs : Pending(h, j)' = Pending(h, j) /\ Running(h, j)' = Running(h, j)
        BY <2>1, <3>1, <3>2 DEF Pending, Running, Pool, TypeOK, Calls, QueueTypes
      <3> QED BY <2>1, <3>1, <3>3, SameHands
    <2>3. CASE value[i] # NoJob
      <3> DEFINE v == value[i]
      <3>1. /\ wpc' = [wpc EXCEPT ![i] = "running"] /\ job' = [job EXCEPT ![i] = v]
            /\ runs' = [runs EXCEPT ![v] = @ + 1]
        BY <1>3, <2>3 DEF PopReturns, WorkGoto
      <3>2. v \in Jobs /\ call[i] = "popped"
        <4>1. call[i] \in {"pop", "popped"}
          BY <1>3 DEF PopReturns, Fifo!Return, Calls, QueueShape
        <4> QED BY <2>3, <4>1 DEF Calls, QueueShape
      <3>3. Pending(i, v) /\ Out(v) /\ runs[v] = 0
        BY <2>1, <3>2 DEF Pending, JobShape
      <3>4. runs'[v] = 1 /\ \A j \in Jobs : j # v => runs'[j] = runs[j]
        BY <3>1, <3>2, <3>3 DEF Pool, TypeOK
      <3>5. /\ \A j \in Jobs : ~Pending(i, j)' /\ (Running(i, j)' <=> j = v)
            /\ \A j \in Jobs : (Pending(i, j) <=> j = v) /\ ~Running(i, j)
        BY <2>1, <3>1, <3>2 DEF Pending, Running, Pool, TypeOK, Calls, QueueTypes
      <3>6. \A h \in Workers, j \in Jobs :
              h # i => Pending(h, j)' = Pending(h, j) /\ Running(h, j)' = Running(h, j)
        BY <2>1, <3>1 DEF Pending, Running, Pool, TypeOK, Calls, QueueTypes
      <3>7. \A j \in Jobs : Out(j)' = Out(j)
        BY <2>1 DEF Out
      <3>8. ASSUME NEW j \in Jobs
            PROVE  /\ runs'[j] \in {0, 1}
                   /\ runs'[j] = 1 => Out(j)'
                   /\ \A h \in Workers : Pending(h, j)' => Out(j)' /\ runs'[j] = 0
                   /\ \A h \in Workers : Running(h, j)' => Out(j)' /\ runs'[j] = 1
                   /\ \A g, h \in Workers : Handling(g, j)' /\ Handling(h, j)' => g = h
                   /\ Out(j)' => runs'[j] = 1 \/ \E h \in Workers : Handling(h, j)'
        <4>1. \A h \in Workers : /\ Handling(h, j) <=> Pending(h, j) \/ Running(h, j)
                                 /\ Handling(h, j)' <=> Pending(h, j)' \/ Running(h, j)'
          BY DEF Handling, Pending, Running
        <4>2. \A h \in Workers : Handling(h, j)' <=> Handling(h, j)
          BY <3>5, <3>6, <4>1
        <4>3. CASE j = v
          <5>1. \A h \in Workers : h # i => ~Handling(h, v)
            BY <3>3, <4>1, <4>3 DEF JobShape
          <5> QED BY <3>3, <3>4, <3>5, <3>7, <4>1, <4>2, <4>3, <5>1
        <4>4. CASE j # v
          BY <3>4, <3>5, <3>6, <3>7, <4>1, <4>2, <4>4 DEF JobShape
        <4> QED BY <4>3, <4>4
      <3> QED BY <3>8 DEF JobShape
    <2> QED BY <2>2, <2>3
  <1>4. CASE JobDone(i)
    <2>1. /\ wpc[i] = "running" /\ wpc' = [wpc EXCEPT ![i] = "wait_stop"]
          /\ UNCHANGED <<runs, popped, call, value>> /\ job' = [job EXCEPT ![i] = NoJob]
      BY <1>4 DEF JobDone, WorkGoto, queue
    <2>2. \A j \in Jobs : ~Pending(i, j)' /\ ~Running(i, j)'
      BY <2>1 DEF Pending, Running, Pool, TypeOK
    <2>3. \A h \in Workers, j \in Jobs :
            h # i => Pending(h, j)' = Pending(h, j) /\ Running(h, j)' = Running(h, j)
      BY <2>1 DEF Pending, Running, Pool, TypeOK
    <2>4. \A j \in Jobs : Out(j)' = Out(j) /\ runs'[j] = runs[j]
      BY <2>1 DEF Out
    <2>5. \A j \in Jobs : Handling(i, j) => runs[j] = 1
      BY <2>1 DEF Handling, Running, JobShape
    <2>6. \A h \in Workers, j \in Jobs : /\ Handling(h, j) <=> Pending(h, j) \/ Running(h, j)
                                         /\ Handling(h, j)' <=> Pending(h, j)' \/ Running(h, j)'
      BY DEF Handling, Pending, Running
    <2>7. \A h \in Workers, j \in Jobs : Handling(h, j)' <=> h # i /\ Handling(h, j)
      BY <2>2, <2>3, <2>6
    <2> QED BY <2>2, <2>3, <2>4, <2>5, <2>7 DEF JobShape
  <1> QED BY <1>1, <1>2, <1>3, <1>4 DEF WorkerNext

-----------------------------------------------------------------------------
(* The invariant.                                                          *)

LEMMA InitInv == Init => Inv
  <1> SUFFICES ASSUME Init PROVE Inv
    OBVIOUS
  <1> USE Names DEF Init, Fifo!Init
  <1>1. TypeOK
    BY DEF TypeOK
  <1>2. QueueTypes
    BY DEF QueueTypes
  <1>3. PoolShape /\ WorkerShape
    BY DEF PoolShape, WorkerShape, Updating
  <1>4. QueueShape
    BY DEF QueueShape
  <1>5. JobShape
    BY DEF JobShape, Out, Pending, Running, Handling
  <1> QED BY <1>1, <1>2, <1>3, <1>4, <1>5 DEF Inv

LEMMA NextInv == Inv /\ [Next]_vars => Inv'
  <1> SUFFICES ASSUME Inv, [Next]_vars PROVE Inv'
    OBVIOUS
  <1>1. Pool /\ Calls /\ JobShape
    BY DEF Inv, Pool, Calls
  <1>2. CASE UNCHANGED vars
    BY <1>2 DEF vars, Inv, TypeOK, QueueTypes, PoolShape, WorkerShape, QueueShape, JobShape,
                Updating, Queued, Out, Pending, Running, Handling
  <1>3. CASE MainNext
    <2>1. Pool'
      BY <1>1, <1>3, MainPool, PushPool DEF MainNext
    <2>2. Calls'
      BY <1>1, <1>3, IdleSteps, IdleCalls, PushCalls DEF MainNext
    <2>3. JobShape'
      BY <1>1, <1>3, MainHands
    <2> QED BY <2>1, <2>2, <2>3 DEF Inv, Pool, Calls
  <1>4. ASSUME NEW i \in Workers, WorkerNext(i) PROVE Inv'
    <2>1. Pool'
      BY <1>1, <1>4, WorkerPool DEF Calls
    <2>2. Calls'
      BY <1>1, <1>4, IdleSteps, IdleCalls, PopCalls DEF WorkerNext
    <2>3. JobShape'
      BY <1>1, <1>4, WorkerHands
    <2> QED BY <2>1, <2>2, <2>3 DEF Inv, Pool, Calls
  <1> QED BY <1>2, <1>3, <1>4 DEF Next

LEMMA Invariant == Spec => []Inv
  BY InitInv, NextInv, PTL DEF Spec

(* Every variable of the pool keeps its type; current never runs past the  *)
(* vector of threads by more than the loop's last increment.               *)
THEOREM PoolTypes == Spec => []TypeOK
  <1>1. Inv => TypeOK
    BY DEF Inv
  <1> QED BY <1>1, Invariant, PTL

(* Neither a JobThread object nor the manager is deleted while a worker is *)
(* inside JobThread::Update (Job.cpp lines 97 to 132 and 174 to 187), with *)
(* any number of workers and after a pool that was only partly made.       *)
THEOREM PoolShutdownSafe == Spec => []NothingDeletedUnderWorker
  <1>1. Inv => NothingDeletedUnderWorker
    <2> SUFFICES ASSUME Inv, NEW i \in Workers, Updating(i)
                 PROVE  object[i] = "live" /\ mpc # "deleted"
      BY DEF NothingDeletedUnderWorker
    <2>1. object[i] = "live"
      BY DEF Inv, WorkerShape
    <2>2. i <= count /\ i > 0
      BY <2>1 DEF Inv, PoolShape, Workers
    <2> QED BY <2>1, <2>2 DEF Inv, PoolShape, Workers
  <1> QED BY <1>1, Invariant, PTL

(* The end event a JobThread::Release waits for is only ever the last act  *)
(* of that very worker.                                                    *)
THEOREM EndHandshake == Spec => []EndMeansExited
  <1>1. Inv => EndMeansExited
    BY DEF Inv, WorkerShape, EndMeansExited
  <1> QED BY <1>1, Invariant, PTL

(* A job that left the queue is entered once, by one worker, and is never  *)
(* dropped by a worker that is asked to stop.                              *)
THEOREM JobsHandedOverOnce == Spec => []HandedOverOnce
  <1>1. Inv => HandedOverOnce
    <2> SUFFICES ASSUME Inv, NEW j \in Jobs
                 PROVE  /\ runs[j] <= 1
                        /\ \A g, h \in {i \in Workers : Handling(i, j)} : g = h
                        /\ runs[j] = 1 => Out(j)
                        /\ Out(j) => runs[j] = 1 \/ {i \in Workers : Handling(i, j)} # {}
      BY DEF HandedOverOnce, Out
    <2>1. runs[j] <= 1
      BY DEF Inv, JobShape
    <2> QED BY <2>1 DEF Inv, JobShape
  <1> QED BY <1>1, Invariant, PTL
=============================================================================
