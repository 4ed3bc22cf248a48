----------------------------- MODULE AtomicQueue -----------------------------
(***************************************************************************)
(* Core/AtomicQueue.h: the lock-free ring that hands jobs to the worker    *)
(* threads (the variant built when ATOMICQUEUE_USE_ALTERNATE is not        *)
(* defined).  Every read of shared memory and every interlocked operation  *)
(* is one step; what a thread does on its own between two of them belongs  *)
(* to the earlier one.  A slot is a 64-bit word: the item in its lower     *)
(* half (0 when empty), in its upper half a version the code increments    *)
(* with every change.  On the 32-bit target of the project files the       *)
(* plain 64-bit load of a slot is two 32-bit loads, in either order.       *)
(***************************************************************************)
EXTENDS Naturals, Sequences, FiniteSets

CONSTANTS
  Producers,  \* threads that may call Push
  Consumers,  \* threads that may call Pop
  Items,      \* non-null pointers
  NoItem,     \* the null pointer, the lower half of an empty slot
  Size,       \* number of slots
  WordMod,    \* head, tail and versions are unsigned words modulo WordMod
  MaxPush     \* bound: Push calls that succeed or are in progress

ASSUME SizeAssumption  == Size \in Nat \ {0}
ASSUME WordAssumption  == WordMod \in Nat /\ Size < WordMod
ASSUME ItemsAssumption == NoItem \notin Items

Threads == Producers \cup Consumers
Slots   == 0 .. Size - 1

VARIABLES
  head, tail, slots,  \* the queue
  pc,                 \* where each thread is
  lt, lh, la,         \* its locals t, h and a
  item,               \* Push's argument; what Pop stored in its out parameter
  pushed, popped,     \* history: the items in the order of the slot CASes
  seen                \* history: was the queue full/empty during this call?

locals == <<lt, lh, la, item>>
ghosts == <<pushed, popped>>
vars   == <<head, tail, slots, pc, lt, lh, la, item, pushed, popped, seen>>

(* Unsigned arithmetic on the counters.                                    *)
Plus(x, n) == IF x + n < WordMod THEN x + n ELSE x + n - WordMod
SlotOf(p)  == p % Size

Word(i, v) == [item |-> i, ver |-> v]

PushPc == {"push_t", "push_h", "push_load", "push_low", "push_high",
           "push_recheck", "push_full", "push_fullslot", "push_fullhead",
           "push_helphead", "push_reread", "push_helptail", "push_cas"}
PopPc  == {"pop_h", "pop_t", "pop_load", "pop_low", "pop_high",
           "pop_recheck", "pop_empty", "pop_emptyslot", "pop_emptytail",
           "pop_helptail", "pop_reread", "pop_helphead", "pop_cas"}

Goto(th, from, to) == pc[th] = from /\ pc' = [pc EXCEPT ![th] = to]

(* Mutant: the arguments of the compare-exchange swapped.                  *)
CasTailSwapped(t) == tail' = IF tail = Plus(t, 1) THEN t ELSE tail

(* _InterlockedCompareExchange on the two counters.                        *)
CasTail(t) == tail' = IF tail = t THEN Plus(t, 1) ELSE tail
CasHead(h) == head' = IF head = h THEN Plus(h, 1) ELSE head

-----------------------------------------------------------------------------
(* The load of a 64-bit slot: one half, then the other.                    *)

LoadLow(th, s)  == la' = [la EXCEPT ![th].item = slots[s].item]
LoadHigh(th, s) == la' = [la EXCEPT ![th].ver  = slots[s].ver]

Load(th, s, load, low, high, next) ==
  /\ \/ Goto(th, load, high) /\ LoadLow(th, s)
     \/ Goto(th, load, low)  /\ LoadHigh(th, s)
     \/ Goto(th, low, next)  /\ LoadLow(th, s)
     \/ Goto(th, high, next) /\ LoadHigh(th, s)
  /\ UNCHANGED <<head, tail, slots, lt, lh, item, ghosts>>

-----------------------------------------------------------------------------
(* Push                                                                    *)

PushCall(th) ==
  /\ th \in Producers
  /\ Len(pushed) + Cardinality({u \in Producers : pc[u] \in PushPc}) < MaxPush
  /\ Goto(th, "idle", "push_t")
  /\ \E v \in Items : item' = [item EXCEPT ![th] = v]
  /\ UNCHANGED <<head, tail, slots, lt, lh, la, ghosts>>

PushReadTail(th) ==
  /\ Goto(th, "push_t", "push_h")
  /\ lt' = [lt EXCEPT ![th] = tail]
  /\ UNCHANGED <<head, tail, slots, lh, la, item, ghosts>>

PushReadHead(th) ==
  /\ Goto(th, "push_h", "push_load")
  /\ lh' = [lh EXCEPT ![th] = head]
  /\ UNCHANGED <<head, tail, slots, lt, la, item, ghosts>>

PushLoad(th) ==
  Load(th, SlotOf(lt[th]), "push_load", "push_low", "push_high", "push_recheck")

PushRecheck(th) ==
  /\ Goto(th, "push_recheck", IF lt[th] = tail THEN "push_full" ELSE "push_t")
  /\ UNCHANGED <<head, tail, slots, locals, ghosts>>

(* Mutant: a filled slot is taken as it was read, without reading it again.*)
PushTestFullNoReread(th) ==
  /\ Goto(th, "push_full",
          IF lt[th] = Plus(head, Size) THEN "push_fullslot"
          ELSE IF la[th].item # NoItem THEN "push_helptail" ELSE "push_cas")
  /\ UNCHANGED <<head, tail, slots, locals, ghosts>>

(* The full test reads head afresh; the branch on a.lower is local.        *)
PushTestFull(th) ==
  /\ Goto(th, "push_full",
          IF lt[th] = Plus(head, Size) THEN "push_fullslot"
          ELSE IF la[th].item # NoItem THEN "push_reread" ELSE "push_cas")
  /\ UNCHANGED <<head, tail, slots, locals, ghosts>>

(* Mutant: full by the counters alone, a slot already emptied forgotten.   *)
PushFullSlotUnread(th) ==
  /\ Goto(th, "push_fullslot", "push_fullhead")
  /\ UNCHANGED <<head, tail, slots, locals, ghosts>>

PushFullSlot(th) ==
  /\ Goto(th, "push_fullslot",
          IF slots[SlotOf(lh[th])].item # NoItem
          THEN "push_fullhead" ELSE "push_helphead")
  /\ UNCHANGED <<head, tail, slots, locals, ghosts>>

(* h == head: return false.                                                *)
PushFullHead(th) ==
  /\ Goto(th, "push_fullhead", IF lh[th] = head THEN "idle" ELSE "push_helphead")
  /\ UNCHANGED <<head, tail, slots, locals, ghosts>>

PushHelpHead(th) ==
  /\ Goto(th, "push_helphead", "push_t")
  /\ CasHead(lh[th])
  /\ UNCHANGED <<tail, slots, locals, ghosts>>

PushReread(th) ==
  /\ Goto(th, "push_reread",
          IF slots[SlotOf(lt[th])].item # NoItem THEN "push_helptail" ELSE "push_t")
  /\ UNCHANGED <<head, tail, slots, locals, ghosts>>

PushHelpTail(th) ==
  /\ Goto(th, "push_helptail", "push_t")
  /\ CasTail(lt[th])
  /\ UNCHANGED <<head, slots, locals, ghosts>>

(* Mutant: a 32-bit CAS, blind to the version.                             *)
PushCasLow(th) ==
  LET s == SlotOf(lt[th]) IN
  \/ /\ slots[s].item = la[th].item
     /\ Goto(th, "push_cas", "push_advance")
     /\ slots' = [slots EXCEPT ![s] = Word(item[th], Plus(la[th].ver, 1))]
     /\ pushed' = Append(pushed, item[th])
     /\ UNCHANGED <<head, tail, locals, popped>>
  \/ /\ slots[s].item # la[th].item
     /\ Goto(th, "push_cas", "push_t")
     /\ UNCHANGED <<head, tail, slots, locals, ghosts>>

(* The 64-bit CAS of the slot: where a Push takes effect.                  *)
PushCas(th) ==
  LET s == SlotOf(lt[th]) IN
  \/ /\ slots[s] = la[th]
     /\ Goto(th, "push_cas", "push_advance")
     /\ slots' = [slots EXCEPT ![s] = Word(item[th], Plus(la[th].ver, 1))]
     /\ pushed' = Append(pushed, item[th])
     /\ UNCHANGED <<head, tail, locals, popped>>
  \/ /\ slots[s] # la[th]
     /\ Goto(th, "push_cas", "push_t")
     /\ UNCHANGED <<head, tail, slots, locals, ghosts>>

PushAdvance(th) ==
  /\ Goto(th, "push_advance", "idle")
  /\ CasTail(lt[th])
  /\ UNCHANGED <<head, slots, locals, ghosts>>

-----------------------------------------------------------------------------
(* Pop                                                                     *)

PopCall(th) ==
  /\ th \in Consumers
  /\ Goto(th, "idle", "pop_h")
  /\ item' = [item EXCEPT ![th] = NoItem]
  /\ UNCHANGED <<head, tail, slots, lt, lh, la, ghosts>>

PopReadHead(th) ==
  /\ Goto(th, "pop_h", "pop_t")
  /\ lh' = [lh EXCEPT ![th] = head]
  /\ UNCHANGED <<head, tail, slots, lt, la, item, ghosts>>

PopReadTail(th) ==
  /\ Goto(th, "pop_t", "pop_load")
  /\ lt' = [lt EXCEPT ![th] = tail]
  /\ UNCHANGED <<head, tail, slots, lh, la, item, ghosts>>

PopLoad(th) ==
  Load(th, SlotOf(lh[th]), "pop_load", "pop_low", "pop_high", "pop_recheck")

PopRecheck(th) ==
  /\ Goto(th, "pop_recheck", IF lh[th] = head THEN "pop_empty" ELSE "pop_h")
  /\ UNCHANGED <<head, tail, slots, locals, ghosts>>

(* Mutant: the tests between the loads and the CAS dropped.                *)
PopTestNothing(th) ==
  /\ Goto(th, "pop_empty", "pop_cas")
  /\ UNCHANGED <<head, tail, slots, locals, ghosts>>

PopTestEmpty(th) ==
  /\ Goto(th, "pop_empty",
          IF lh[th] = tail THEN "pop_emptyslot"
          ELSE IF la[th].item = NoItem THEN "pop_reread" ELSE "pop_cas")
  /\ UNCHANGED <<head, tail, slots, locals, ghosts>>

PopEmptySlot(th) ==
  /\ Goto(th, "pop_emptyslot",
          IF slots[SlotOf(lt[th])].item = NoItem
          THEN "pop_emptytail" ELSE "pop_helptail")
  /\ UNCHANGED <<head, tail, slots, locals, ghosts>>

(* t == tail: return false.                                                *)
PopEmptyTail(th) ==
  /\ Goto(th, "pop_emptytail", IF lt[th] = tail THEN "idle" ELSE "pop_helptail")
  /\ UNCHANGED <<head, tail, slots, locals, ghosts>>

PopHelpTail(th) ==
  /\ Goto(th, "pop_helptail", "pop_h")
  /\ CasTail(lt[th])
  /\ UNCHANGED <<head, slots, locals, ghosts>>

PopReread(th) ==
  /\ Goto(th, "pop_reread",
          IF slots[SlotOf(lh[th])].item = NoItem THEN "pop_helphead" ELSE "pop_h")
  /\ UNCHANGED <<head, tail, slots, locals, ghosts>>

PopHelpHead(th) ==
  /\ Goto(th, "pop_helphead", "pop_h")
  /\ CasHead(lh[th])
  /\ UNCHANGED <<tail, slots, locals, ghosts>>

(* The 64-bit CAS of the slot: where a Pop takes effect.                   *)
PopCas(th) ==
  LET s == SlotOf(lh[th]) IN
  \/ /\ slots[s] = la[th]
     /\ Goto(th, "pop_cas", "pop_advance")
     /\ slots' = [slots EXCEPT ![s] = Word(NoItem, Plus(la[th].ver, 1))]
     /\ popped' = Append(popped, la[th].item)
     /\ UNCHANGED <<head, tail, locals, pushed>>
  \/ /\ slots[s] # la[th]
     /\ Goto(th, "pop_cas", "pop_h")
     /\ UNCHANGED <<head, tail, slots, locals, ghosts>>

PopAdvance(th) ==
  /\ Goto(th, "pop_advance", "idle")
  /\ CasHead(lh[th])
  /\ item' = [item EXCEPT ![th] = la[th].item]
  /\ UNCHANGED <<tail, slots, lt, lh, la, ghosts>>

-----------------------------------------------------------------------------
PushStep(th) ==
  \/ PushReadTail(th) \/ PushReadHead(th) \/ PushLoad(th)     \/ PushRecheck(th)
  \/ PushTestFull(th) \/ PushFullSlot(th) \/ PushFullHead(th) \/ PushHelpHead(th)
  \/ PushReread(th)   \/ PushHelpTail(th) \/ PushCas(th)      \/ PushAdvance(th)

PopStep(th) ==
  \/ PopReadHead(th)  \/ PopReadTail(th)  \/ PopLoad(th)      \/ PopRecheck(th)
  \/ PopTestEmpty(th) \/ PopEmptySlot(th) \/ PopEmptyTail(th) \/ PopHelpTail(th)
  \/ PopReread(th)    \/ PopHelpHead(th)  \/ PopCas(th)       \/ PopAdvance(th)

(* What a caller of the queue sees of a thread.                            *)
CallOf(p) == CASE p \in PushPc       -> "push"
               [] p \in PopPc        -> "pop"
               [] p = "push_advance" -> "pushed"
               [] p = "pop_advance"  -> "popped"
               [] OTHER              -> "idle"

(* The abstract queue this one implements.  A Pop's result is fixed by its *)
(* CAS although the out parameter is written two lines later.              *)
Fifo == INSTANCE BoundedFifo WITH
  Capacity <- Size,
  call     <- [th \in Threads |-> CallOf(pc[th])],
  value    <- [th \in Threads |->
                 IF pc[th] = "pop_advance" THEN la[th].item ELSE item[th]]

Init ==
  /\ head = 0 /\ tail = 0
  /\ slots = [s \in Slots |-> Word(NoItem, 0)]
  /\ pc = [th \in Threads |-> "idle"]
  /\ lt = [th \in Threads |-> 0]
  /\ lh = [th \in Threads |-> 0]
  /\ la = [th \in Threads |-> Word(NoItem, 0)]
  /\ item = [th \in Threads |-> NoItem]
  /\ pushed = <<>> /\ popped = <<>>
  /\ seen = [th \in Threads |-> FALSE]

Next ==
  /\ \E th \in Threads : PushCall(th) \/ PopCall(th) \/ PushStep(th) \/ PopStep(th)
  /\ Fifo!Observe

Spec == Init /\ [][Next]_vars

(* The scheduler runs every thread that is inside a call; consumers (the   *)
(* worker loops) keep calling Pop, producers push when they please.        *)
Fairness ==
  /\ \A th \in Threads : WF_vars((PushStep(th) \/ PopStep(th)) /\ Fifo!Observe)
  /\ \A th \in Consumers : WF_vars(PopCall(th) /\ Fifo!Observe)

FairSpec == Spec /\ Fairness
-----------------------------------------------------------------------------
(* Properties.  BeforeWrap bounds what is claimed: until a counter or a    *)
(* version reaches 2^32 (WordMod).  The run atomic_queue_wrap shows what   *)
(* the wrap itself does.                                                   *)

BeforeWrap ==
  /\ tail + Size < WordMod
  /\ \A s \in Slots : slots[s].ver + 1 < WordMod

SlotWord == [item : Items \cup {NoItem}, ver : Nat]

TypeOK ==
  /\ head \in Nat /\ tail \in Nat
  /\ slots \in [Slots -> SlotWord]
  /\ pc \in [Threads -> PushPc \cup PopPc \cup {"idle", "push_advance", "pop_advance"}]
  /\ lt \in [Threads -> Nat] /\ lh \in [Threads -> Nat]
  /\ la \in [Threads -> SlotWord]
  /\ item \in [Threads -> Items \cup {NoItem}]
  /\ pushed \in Seq(Items) /\ popped \in Seq(Items)
  /\ seen \in [Threads -> BOOLEAN]

Empty(p) == slots[SlotOf(p)].item = NoItem

(* head and tail may each lag one position behind the slots, never more,    *)
(* and never lead: everything strictly between them is filled, everything   *)
(* beyond tail is empty (the hints the helping CASes repair, lines 66-108). *)
Window ==
  /\ head <= tail /\ tail <= head + Size
  /\ \A p \in head + 1 .. tail - 1 : ~Empty(p)
  /\ \A p \in tail + 1 .. head + Size - 1 : Empty(p)

(* The slots hold exactly the items pushed and not yet popped, each at the  *)
(* position of its push, and the items popped are the first ones pushed.    *)
Delivery ==
  /\ Len(popped) = IF head < tail /\ Empty(head) THEN head + 1 ELSE head
  /\ Len(pushed) = IF tail < head + Size /\ ~Empty(tail) THEN tail + 1 ELSE tail
  /\ \A p \in head .. tail :
        p < head + Size /\ ~Empty(p) => slots[SlotOf(p)].item = pushed[p + 1]
  /\ \A k \in 1 .. Len(popped) : popped[k] = pushed[k]

(* What a thread may rely on of what it read earlier, at each of its steps. *)
Loaded(th, p) == la[th].ver <= slots[SlotOf(p)].ver
Current(th, p) == slots[SlotOf(p)] = la[th]

PushLocal(th) ==
  /\ pc[th] \in PushPc => item[th] \in Items
  /\ pc[th] \in (PushPc \ {"push_t"}) \cup {"push_advance"} => lt[th] <= tail
  /\ pc[th] \in PushPc \ {"push_t", "push_h"} => lh[th] <= head
  /\ pc[th] \in {"push_low", "push_recheck", "push_full", "push_cas"} => Loaded(th, lt[th])
  /\ pc[th] = "push_full" /\ Current(th, lt[th]) /\ la[th].item = NoItem => lt[th] = tail
  /\ pc[th] = "push_cas" =>
       /\ la[th].item = NoItem
       /\ Current(th, lt[th]) => lt[th] = tail /\ tail < head + Size
  /\ pc[th] = "push_fullslot" /\ lh[th] = head => lt[th] = head + Size
  /\ pc[th] = "push_fullhead" /\ lh[th] = head => seen[th]
  /\ pc[th] = "push_reread" /\ lt[th] = tail => tail < head + Size

PopLocal(th) ==
  /\ pc[th] \in (PopPc \ {"pop_h"}) \cup {"pop_advance"} => lh[th] <= head
  /\ pc[th] \in PopPc \ {"pop_h", "pop_t"} => lt[th] <= tail
  /\ pc[th] \in {"pop_low", "pop_recheck", "pop_empty", "pop_cas"} => Loaded(th, lh[th])
  /\ pc[th] = "pop_empty" /\ Current(th, lh[th]) /\ la[th].item # NoItem => lh[th] = head
  /\ pc[th] = "pop_cas" =>
       /\ la[th].item # NoItem
       /\ Current(th, lh[th]) => lh[th] = head /\ head < tail
  /\ pc[th] = "pop_emptyslot" => lt[th] <= lh[th]
  /\ pc[th] = "pop_emptytail" /\ lt[th] = tail => seen[th]
  /\ pc[th] = "pop_reread" => lh[th] < tail

Helping(th) ==
  /\ pc[th] \in {"push_helptail", "push_advance", "pop_helptail"} /\ lt[th] = tail
       => ~Empty(tail) /\ tail < head + Size
  /\ pc[th] \in {"push_helphead", "pop_advance", "pop_helphead"} /\ lh[th] = head
       => Empty(head) /\ head < tail

Inv == TypeOK /\ Window /\ Delivery
       /\ \A th \in Threads : PushLocal(th) /\ PopLocal(th) /\ Helping(th)

(* Every overlapping history of Push and Pop calls is one of the bounded    *)
(* FIFO's: no item lost, duplicated or reordered, no false "full" or        *)
(* "empty" (the comments on lines 23 and 24).                               *)
Linearizable == Fifo!Spec

(* "Returns false if full" (line 23): a Push answers false only if all the   *)
(* slots were taken at some instant of the call.                            *)
FalseOnlyWhenFull ==
  [][\A th \in Threads :
       pc[th] = "push_fullhead" /\ pc'[th] = "idle" => seen[th]]_vars

(* Lock-freedom as its callers need it: a call in progress returns.         *)
EveryCallReturns == \A th \in Threads : pc[th] # "idle" ~> pc[th] = "idle"

(* What has been pushed is eventually popped by some consumer.              *)
EveryItemDelivered == \A n \in 1 .. MaxPush : Len(pushed) >= n ~> Len(popped) >= n
=============================================================================
