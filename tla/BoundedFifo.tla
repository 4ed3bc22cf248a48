----------------------------- MODULE BoundedFifo -----------------------------
(***************************************************************************)
(* What Core/AtomicQueue.h promises to its callers: a FIFO of at most      *)
(* Capacity items, shared by threads whose calls overlap.  A call is       *)
(* begun, takes effect at one instant while it is in progress, and         *)
(* returns.  A Push that answers "full" and a Pop that answers "empty"     *)
(* change nothing; either may be given only if the queue really was full   *)
(* (empty) at some instant of that very call.                              *)
(*                                                                         *)
(* The contents are kept as two histories: the items pushed so far and the *)
(* items popped so far, in the order in which the calls took effect.       *)
(***************************************************************************)
EXTENDS Naturals, Sequences

CONSTANTS
  Threads,    \* the threads that call the queue
  Items,      \* the items (non-null pointers) pushed
  Capacity,   \* the number of slots
  NoItem      \* the null pointer: what an empty result holds

VARIABLES
  pushed,     \* every item pushed, in order
  popped,     \* every item popped, in order
  call,       \* what each thread is doing
  value,      \* the argument of a thread's Push, the result of its Pop
  seen        \* was the queue full (Push) or empty (Pop) during this call?

vars == <<pushed, popped, call, value, seen>>

Count(in, out) == Len(in) - Len(out)

Refusable(c, in, out) ==
  \/ c = "push" /\ Count(in, out) = Capacity
  \/ c = "pop"  /\ Count(in, out) = 0

(* A call in progress remembers whether it could have been refused at any  *)
(* of the states it has seen; a new call starts with a clean memory.       *)
Observe ==
  seen' = [th \in Threads |->
             \/ seen[th] /\ call[th] \in {"push", "pop"} /\ call'[th] = call[th]
             \/ Refusable(call'[th], pushed', popped')]

Init ==
  /\ pushed = <<>>
  /\ popped = <<>>
  /\ call   = [th \in Threads |-> "idle"]
  /\ value  = [th \in Threads |-> NoItem]
  /\ seen   = [th \in Threads |-> FALSE]

BeginPush(th, v) ==
  /\ call[th] = "idle"
  /\ call'  = [call EXCEPT ![th] = "push"]
  /\ value' = [value EXCEPT ![th] = v]
  /\ UNCHANGED <<pushed, popped>>

BeginPop(th) ==
  /\ call[th] = "idle"
  /\ call'  = [call EXCEPT ![th] = "pop"]
  /\ value' = [value EXCEPT ![th] = NoItem]
  /\ UNCHANGED <<pushed, popped>>

Push(th) ==
  /\ call[th] = "push"
  /\ Count(pushed, popped) < Capacity
  /\ pushed' = Append(pushed, value[th])
  /\ call' = [call EXCEPT ![th] = "pushed"]
  /\ UNCHANGED <<popped, value>>

Pop(th) ==
  /\ call[th] = "pop"
  /\ Count(pushed, popped) > 0
  /\ popped' = Append(popped, pushed[Len(popped) + 1])
  /\ value' = [value EXCEPT ![th] = pushed[Len(popped) + 1]]
  /\ call' = [call EXCEPT ![th] = "popped"]
  /\ UNCHANGED pushed

Return(th) ==
  /\ \/ call[th] \in {"pushed", "popped"}
     \/ call[th] \in {"push", "pop"} /\ seen[th]
  /\ call' = [call EXCEPT ![th] = "idle"]
  /\ UNCHANGED <<pushed, popped, value>>

Next ==
  /\ \E th \in Threads :
       \/ \E v \in Items : BeginPush(th, v)
       \/ BeginPop(th) \/ Push(th) \/ Pop(th) \/ Return(th)
  /\ Observe

Spec == Init /\ [][Next]_vars
=============================================================================
