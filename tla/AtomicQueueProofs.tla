-------------------------- MODULE AtomicQueueProofs --------------------------
(***************************************************************************)
(* Proofs about AtomicQueue, for every set of threads and items, every     *)
(* ring size and every word size, up to the first wrap of a counter.       *)
(*                                                                         *)
(* The argument: every step changes the shared state in one of five ways   *)
(* (SharedStep), each of which keeps Window and Delivery and every fact    *)
(* the other threads rely on; and the step itself establishes the facts    *)
(* its own thread relies on next.                                          *)
(***************************************************************************)
EXTENDS AtomicQueue, TLAPS

-----------------------------------------------------------------------------
(* Positions and slots.                                                    *)

(* A position is its slot plus a whole number of turns of the ring.        *)
LEMMA DivMod ==
  ASSUME NEW p \in Nat
  PROVE  p = Size * (p \div Size) + (p % Size) /\ p \div Size \in Nat
  BY SizeAssumption

(* Multiples of Size closer than Size are equal.                           *)
LEMMA CloseMultiples ==
  ASSUME NEW a \in Nat, NEW b \in Nat,
         Size * a < Size * b + Size, Size * b < Size * a + Size
  PROVE  a = b
  <1>1. CASE a > b
    <2>1. a >= b + 1
      BY <1>1
    <2>2. Size * a >= Size * (b + 1)
      BY <2>1, SizeAssumption
    <2>3. Size * (b + 1) = Size * b + Size
      BY SizeAssumption
    <2> QED BY <2>2, <2>3, SizeAssumption
  <1>2. CASE b > a
    <2>1. b >= a + 1
      BY <1>2
    <2>2. Size * b >= Size * (a + 1)
      BY <2>1, SizeAssumption
    <2>3. Size * (a + 1) = Size * a + Size
      BY SizeAssumption
    <2> QED BY <2>2, <2>3, SizeAssumption
  <1> QED BY <1>1, <1>2

LEMMA SlotRange ==
  ASSUME NEW p \in Nat
  PROVE  SlotOf(p) \in Slots
  BY SizeAssumption DEF SlotOf, Slots

(* Positions less than a turn apart have different slots.                  *)
LEMMA SlotDistinct ==
  ASSUME NEW p \in Nat, NEW q \in Nat, p < q, q < p + Size
  PROVE  SlotOf(p) # SlotOf(q)
  <1> SUFFICES ASSUME p % Size = q % Size PROVE FALSE
    BY DEF SlotOf
  <1>1. p = Size * (p \div Size) + (p % Size) /\ p \div Size \in Nat
    BY DivMod
  <1>2. q = Size * (q \div Size) + (q % Size) /\ q \div Size \in Nat
    BY DivMod
  <1>3. p % Size \in Nat
    BY SizeAssumption
  <1>4. p \div Size = q \div Size
    BY <1>1, <1>2, <1>3, CloseMultiples, SizeAssumption
  <1> QED BY <1>1, <1>2, <1>3, <1>4

(* A whole turn brings a position back to its slot.                        *)
LEMMA SlotPeriod ==
  ASSUME NEW p \in Nat
  PROVE  SlotOf(p + Size) = SlotOf(p)
  <1> DEFINE q == p + Size
  <1>1. p = Size * (p \div Size) + (p % Size) /\ p \div Size \in Nat
    BY DivMod
  <1>2. q = Size * (q \div Size) + (q % Size) /\ q \div Size \in Nat
    BY DivMod, SizeAssumption
  <1>3. p % Size \in 0 .. Size - 1 /\ q % Size \in 0 .. Size - 1
    BY SizeAssumption
  <1>4. Size * (p \div Size + 1) = Size * (p \div Size) + Size
    BY <1>1, SizeAssumption
  <1>5. q \div Size = p \div Size + 1
    BY <1>1, <1>2, <1>3, <1>4, CloseMultiples, SizeAssumption
  <1> QED BY <1>1, <1>2, <1>3, <1>4, <1>5, SizeAssumption DEF SlotOf

-----------------------------------------------------------------------------
(* The five ways in which a step changes what the threads share.           *)

Quiet == UNCHANGED <<head, tail, slots, pushed, popped>>

TailStep ==
  /\ tail < head + Size /\ ~Empty(tail)
  /\ tail' = tail + 1
  /\ UNCHANGED <<head, slots, pushed, popped>>

HeadStep ==
  /\ head < tail /\ Empty(head)
  /\ head' = head + 1
  /\ UNCHANGED <<tail, slots, pushed, popped>>

Changed(s, i) == slots' = [slots EXCEPT ![s] = Word(i, slots[s].ver + 1)]

Enters(v) ==
  /\ tail < head + Size /\ Empty(tail) /\ v \in Items
  /\ Changed(SlotOf(tail), v)
  /\ pushed' = Append(pushed, v)
  /\ UNCHANGED <<head, tail, popped>>

Leaves ==
  /\ head < tail /\ ~Empty(head)
  /\ Changed(SlotOf(head), NoItem)
  /\ popped' = Append(popped, slots[SlotOf(head)].item)
  /\ UNCHANGED <<head, tail, pushed>>

SharedStep == Quiet \/ TailStep \/ HeadStep \/ (\E v \in Items : Enters(v)) \/ Leaves

(* What the five ways have in common: counters never go back, and a slot   *)
(* that changes gets a newer version.                                      *)
Newer ==
  /\ head' \in Nat /\ tail' \in Nat /\ slots' \in [Slots -> SlotWord]
  /\ head <= head' /\ tail <= tail'
  /\ \A s \in Slots : slots'[s] = slots[s] \/ slots'[s].ver > slots[s].ver

LEMMA SharedStepNewer ==
  ASSUME TypeOK, Window, SharedStep
  PROVE  Newer
  <1> USE SizeAssumption DEF Newer, TypeOK, SlotWord, Changed, Word
  <1>0. SlotOf(head) \in Slots /\ SlotOf(tail) \in Slots
    BY SlotRange
  <1>1. CASE Quiet
    BY <1>1 DEF Quiet
  <1>2. CASE TailStep
    BY <1>2 DEF TailStep
  <1>3. CASE HeadStep
    BY <1>3 DEF HeadStep
  <1>4. ASSUME NEW v \in Items, Enters(v) PROVE Newer
    BY <1>0, <1>4 DEF Enters
  <1>5. CASE Leaves
    BY <1>0, <1>5 DEF Leaves
  <1> QED BY <1>1, <1>2, <1>3, <1>4, <1>5 DEF SharedStep
-----------------------------------------------------------------------------
(* Each of the five keeps Window and Delivery.                             *)

Ring == Window /\ Delivery

LEMMA TailStepRing ==
  ASSUME TypeOK, Ring, TailStep
  PROVE  Ring'
  <1> USE SizeAssumption DEF TypeOK, Ring, Window, TailStep, Empty
  <1>1. Window'
    OBVIOUS
  <1>2. Delivery'
    BY DEF Delivery
  <1> QED BY <1>1, <1>2

LEMMA HeadStepRing ==
  ASSUME TypeOK, Ring, HeadStep
  PROVE  Ring'
  <1> USE SizeAssumption DEF TypeOK, Ring, HeadStep
  <1>1. slots[SlotOf(head + Size)].item = NoItem
    BY SlotPeriod DEF Empty
  <1>2. head' \in Nat /\ head' = head + 1 /\ tail' = tail /\ slots' = slots
    OBVIOUS
  <1>3. Window'
    <2>1. head' <= tail' /\ tail' <= head' + Size
      BY <1>2 DEF Window
    <2>2. ASSUME NEW p \in head' + 1 .. tail' - 1 PROVE ~Empty(p)'
      BY <1>2, <2>2 DEF Window, Empty
    <2>3. ASSUME NEW p \in tail' + 1 .. head' + Size - 1 PROVE Empty(p)'
      <3>1. CASE p = head + Size
        BY <3>1, <1>1, <1>2 DEF Empty
      <3>2. CASE p # head + Size
        <4>1. p \in tail + 1 .. head + Size - 1
          BY <1>2, <2>3, <3>2
        <4> QED BY <4>1, <1>2 DEF Window, Empty
      <3> QED BY <3>1, <3>2
    <2> QED BY <2>1, <2>2, <2>3 DEF Window
  <1>4. Delivery'
    <2>1. Len(popped') = head'
      BY <1>2 DEF Delivery
    <2>2. head < tail - 1 => slots[SlotOf(head + 1)].item # NoItem
      BY <1>2 DEF Window, Empty
    <2>3. Len(popped') = IF head' < tail' /\ Empty(head)' THEN head' + 1 ELSE head'
      BY <1>2, <2>1, <2>2 DEF Window, Empty
    <2>4. tail = head + Size \/ tail < head + Size
      BY DEF Window
    <2>5. tail = head + Size => Empty(tail) /\ Len(pushed) = tail
      BY <1>1, <2>4 DEF Delivery, Empty
    <2>6. Len(pushed') = IF tail' < head' + Size /\ ~Empty(tail)' THEN tail' + 1 ELSE tail'
      BY <1>2, <2>4, <2>5 DEF Delivery, Empty
    <2>7. ASSUME NEW p \in head' .. tail', p < head' + Size, ~Empty(p)'
          PROVE  slots'[SlotOf(p)].item = pushed'[p + 1]
      <3>1. p # head + Size
        BY <1>1, <1>2, <2>7 DEF Empty
      <3>2. p \in head .. tail /\ p < head + Size /\ ~Empty(p)
        BY <1>2, <2>7, <3>1 DEF Empty
      <3> QED BY <3>2, <1>2 DEF Delivery
    <2> QED BY <2>3, <2>6, <2>7 DEF Delivery
  <1> QED BY <1>3, <1>4

(* Changing the slot of one position changes no other position of the ring.*)
LEMMA OtherPositions ==
  ASSUME TypeOK, NEW p \in Nat, NEW q \in Nat, NEW i, p # q,
         p < q + Size, q < p + Size, Changed(SlotOf(p), i)
  PROVE  slots'[SlotOf(q)] = slots[SlotOf(q)]
  <1>1. SlotOf(p) # SlotOf(q)
    BY SlotDistinct, SizeAssumption
  <1> QED BY <1>1, SlotRange DEF Changed, TypeOK

LEMMA EntersRing ==
  ASSUME TypeOK, Ring, NEW v \in Items, Enters(v)
  PROVE  Ring'
  <1> USE SizeAssumption, ItemsAssumption DEF TypeOK
  <1> USE DEF Ring, Window, Enters
  <1>1. slots'[SlotOf(tail)].item = v
    BY SlotRange DEF Changed, Word
  <1>2. \A q \in head .. head + Size - 1 : q # tail => slots'[SlotOf(q)] = slots[SlotOf(q)]
    BY OtherPositions
  <1>3. Window'
    <2>1. ASSUME NEW p \in head + 1 .. tail - 1 PROVE ~Empty(p)'
      BY <1>2, <2>1 DEF Empty
    <2>2. ASSUME NEW p \in tail + 1 .. head + Size - 1 PROVE Empty(p)'
      <3>1. p \in head .. head + Size - 1 /\ p # tail
        BY <2>2
      <3>2. slots'[SlotOf(p)] = slots[SlotOf(p)]
        BY <1>2, <3>1
      <3> QED BY <2>2, <3>2 DEF Empty
    <2> QED BY <2>1, <2>2
  <1>4. Len(pushed) = tail /\ Len(pushed') = tail + 1 /\ pushed'[tail + 1] = v
    BY DEF Delivery
  <1>5. \A k \in 1 .. Len(pushed) : pushed'[k] = pushed[k]
    OBVIOUS
  <1>6. Len(popped') = IF head' < tail' /\ Empty(head)' THEN head' + 1 ELSE head'
    <2>1. head < tail => slots'[SlotOf(head)] = slots[SlotOf(head)]
      BY <1>2
    <2> QED BY <2>1 DEF Delivery, Empty
  <1>7. Len(pushed') = IF tail' < head' + Size /\ ~Empty(tail)' THEN tail' + 1 ELSE tail'
    BY <1>1, <1>4 DEF Empty
  <1>8. \A p \in head' .. tail' :
          p < head' + Size /\ ~Empty(p)' => slots'[SlotOf(p)].item = pushed'[p + 1]
    <2> SUFFICES ASSUME NEW p \in head .. tail, p < head + Size, slots'[SlotOf(p)].item # NoItem
                 PROVE  slots'[SlotOf(p)].item = pushed'[p + 1]
      BY DEF Empty
    <2>1. CASE p = tail
      BY <2>1, <1>1, <1>4
    <2>2. CASE p # tail
      <3>1. slots'[SlotOf(p)] = slots[SlotOf(p)]
        BY <2>2, <1>2
      <3>2. slots[SlotOf(p)].item = pushed[p + 1]
        BY <3>1 DEF Delivery, Empty
      <3>3. p + 1 \in 1 .. Len(pushed)
        BY <2>2, <1>4
      <3> QED BY <3>1, <3>2, <3>3, <1>5
    <2> QED BY <2>1, <2>2
  <1>9. \A k \in 1 .. Len(popped') : popped'[k] = pushed'[k]
    BY <1>4, <1>5 DEF Delivery
  <1> QED BY <1>3, <1>6, <1>7, <1>8, <1>9 DEF Delivery

LEMMA LeavesRing ==
  ASSUME TypeOK, Ring, Leaves
  PROVE  Ring'
  <1> USE SizeAssumption, ItemsAssumption DEF TypeOK
  <1> USE DEF Ring, Window, Leaves
  <1>1. slots'[SlotOf(head)].item = NoItem
    BY SlotRange DEF Changed, Word
  <1>2. \A q \in head .. head + Size - 1 : q # head => slots'[SlotOf(q)] = slots[SlotOf(q)]
    BY OtherPositions
  <1>3. Window'
    <2>1. ASSUME NEW p \in head + 1 .. tail - 1 PROVE ~Empty(p)'
      BY <1>2, <2>1 DEF Empty
    <2>2. ASSUME NEW p \in tail + 1 .. head + Size - 1 PROVE Empty(p)'
      <3>1. p \in head .. head + Size - 1 /\ p # head
        BY <2>2
      <3> QED BY <1>2, <2>2, <3>1 DEF Empty
    <2> QED BY <2>1, <2>2
  <1>4. Len(popped) = head /\ Len(popped') = head + 1
    BY DEF Delivery
  <1>5. popped'[head + 1] = pushed[head + 1]
    BY <1>4 DEF Delivery
  <1>6. Len(popped') = IF head' < tail' /\ Empty(head)' THEN head' + 1 ELSE head'
    BY <1>1, <1>4 DEF Empty
  <1>7. Len(pushed') = IF tail' < head' + Size /\ ~Empty(tail)' THEN tail' + 1 ELSE tail'
    <2>1. tail < head + Size => slots'[SlotOf(tail)] = slots[SlotOf(tail)]
      BY <1>2
    <2> QED BY <2>1 DEF Delivery, Empty
  <1>8. ASSUME NEW p \in head' .. tail', p < head' + Size, ~Empty(p)'
        PROVE  slots'[SlotOf(p)].item = pushed'[p + 1]
    <2>1. p # head
      BY <1>1, <1>8 DEF Empty
    <2>2. slots'[SlotOf(p)] = slots[SlotOf(p)]
      BY <1>2, <1>8, <2>1
    <2> QED BY <1>8, <2>2 DEF Delivery, Empty
  <1>9. \A k \in 1 .. Len(popped') : popped'[k] = pushed'[k]
    BY <1>4, <1>5 DEF Delivery
  <1> QED BY <1>3, <1>6, <1>7, <1>8, <1>9 DEF Delivery

LEMMA SharedStepRing ==
  ASSUME TypeOK, Ring, SharedStep
  PROVE  Ring'
  <1>1. CASE Quiet
    BY <1>1 DEF Quiet, Ring, Window, Delivery, Empty
  <1> QED BY <1>1, TailStepRing, HeadStepRing, EntersRing, LeavesRing DEF SharedStep
-----------------------------------------------------------------------------
(* What a thread relies on survives the steps of the others.               *)

Locals(th) == PushLocal(th) /\ PopLocal(th) /\ Helping(th)

(* The filled slot that justifies advancing tail stays filled until tail   *)
(* is advanced; likewise the emptied slot that justifies advancing head.   *)
LEMMA HintsJustified ==
  ASSUME TypeOK, Ring, SharedStep
  PROVE  /\ tail' = tail /\ tail < head + Size /\ ~Empty(tail)
              => tail' < head' + Size /\ ~Empty(tail)'
         /\ head' = head /\ head < tail /\ Empty(head)
              => head' < tail' /\ Empty(head)'
         /\ Empty(tail) => tail' = tail
         /\ ~Empty(head) => head' = head
  <1> USE SizeAssumption DEF TypeOK, Ring, Window
  <1>1. CASE Quiet
    BY <1>1 DEF Quiet, Empty
  <1>2. CASE TailStep
    BY <1>2 DEF TailStep, Empty
  <1>3. CASE HeadStep
    BY <1>3 DEF HeadStep, Empty
  <1>4. ASSUME NEW v \in Items, Enters(v)
        PROVE  /\ Empty(tail) /\ head' = head /\ tail' = tail
               /\ head < tail => slots'[SlotOf(head)] = slots[SlotOf(head)]
    BY <1>4, OtherPositions DEF Enters
  <1>5. CASE Leaves
    <2>1. ~Empty(head) /\ head < tail /\ head' = head /\ tail' = tail
      BY <1>5 DEF Leaves
    <2>2. tail < head + Size => slots'[SlotOf(tail)] = slots[SlotOf(tail)]
      BY <1>5, <2>1, OtherPositions DEF Leaves
    <2> QED BY <2>1, <2>2 DEF Empty
  <1> QED BY <1>1, <1>2, <1>3, <1>4, <1>5 DEF SharedStep, Empty

(* A slot that still equals what a thread loaded has not changed since.    *)
LEMMA CurrentBefore ==
  ASSUME TypeOK, Newer, NEW th \in Threads, NEW p \in Nat,
         la[th].ver <= slots[SlotOf(p)].ver
  PROVE  /\ la[th].ver <= slots'[SlotOf(p)].ver
         /\ slots'[SlotOf(p)] = la[th] => slots[SlotOf(p)] = la[th]
  <1> DEFINE s == SlotOf(p)
  <1>1. s \in Slots
    BY SlotRange
  <1>2. slots[s].ver \in Nat /\ slots'[s].ver \in Nat /\ la[th].ver \in Nat
    BY <1>1 DEF TypeOK, Newer, SlotWord
  <1>3. slots'[s] = slots[s] \/ slots'[s].ver > slots[s].ver
    BY <1>1 DEF Newer
  <1> QED BY <1>2, <1>3

LEMMA LocalsStable ==
  ASSUME TypeOK, Ring, SharedStep, NEW th \in Threads, Locals(th),
         pc'[th] = pc[th], lt'[th] = lt[th], lh'[th] = lh[th],
         la'[th] = la[th], item'[th] = item[th],
         pc[th] \in PushPc \cup PopPc /\ seen[th] => seen'[th]
  PROVE  Locals(th)'
  <1>0. Newer
    BY SharedStepNewer DEF Ring
  <1>1. /\ lt[th] \in Nat /\ lh[th] \in Nat /\ la[th].ver \in Nat /\ Size \in Nat
        /\ head \in Nat /\ tail \in Nat /\ head' \in Nat /\ tail' \in Nat
        /\ head <= head' /\ tail <= tail' /\ head <= tail
    BY <1>0, SizeAssumption DEF TypeOK, SlotWord, Newer, Ring, Window
  <1>2. ASSUME NEW p \in Nat, la[th].ver <= slots[SlotOf(p)].ver
        PROVE  /\ la[th].ver <= slots'[SlotOf(p)].ver
               /\ slots'[SlotOf(p)] = la[th] => slots[SlotOf(p)] = la[th]
    BY <1>0, <1>2, CurrentBefore
  <1>6. /\ tail' = tail /\ tail < head + Size /\ slots[SlotOf(tail)].item # NoItem
             => tail' < head' + Size /\ slots'[SlotOf(tail')].item # NoItem
        /\ head' = head /\ head < tail /\ slots[SlotOf(head)].item = NoItem
             => head' < tail' /\ slots'[SlotOf(head')].item = NoItem
        /\ slots[SlotOf(tail)].item = NoItem => tail' = tail
        /\ slots[SlotOf(head)].item # NoItem => head' = head
    BY HintsJustified DEF Empty
  <1>3. PushLocal(th)'
    <2>1. ASSUME pc[th] = "push_full", slots'[SlotOf(lt[th])] = la[th], la[th].item = NoItem
          PROVE  lt[th] = tail'
      <3>1. slots[SlotOf(lt[th])] = la[th]
        BY <1>1, <1>2, <2>1 DEF Locals, PushLocal, Loaded
      <3>2. lt[th] = tail
        BY <2>1, <3>1 DEF Locals, PushLocal, Current
      <3> QED BY <1>6, <2>1, <3>1, <3>2
    <2>2. ASSUME pc[th] = "push_cas", slots'[SlotOf(lt[th])] = la[th]
          PROVE  lt[th] = tail' /\ tail' < head' + Size
      <3>1. slots[SlotOf(lt[th])] = la[th] /\ la[th].item = NoItem
        BY <1>1, <1>2, <2>2 DEF Locals, PushLocal, Loaded
      <3>2. lt[th] = tail /\ tail < head + Size
        BY <2>2, <3>1 DEF Locals, PushLocal, Current
      <3> QED BY <1>1, <1>6, <2>2, <3>1, <3>2
    <2>3. ASSUME pc[th] \in {"push_low", "push_recheck", "push_full", "push_cas"}
          PROVE  la[th].ver <= slots'[SlotOf(lt[th])].ver
      BY <1>1, <1>2, <2>3 DEF Locals, PushLocal, Loaded
    <2>4. ASSUME pc[th] = "push_fullslot", lh[th] = head' PROVE lt[th] = head' + Size
      BY <1>1, <2>4 DEF Locals, PushLocal, PushPc
    <2>5. ASSUME pc[th] = "push_fullhead", lh[th] = head' PROVE seen'[th]
      BY <1>1, <2>5 DEF Locals, PushLocal, PushPc
    <2>6. ASSUME pc[th] = "push_reread", lt[th] = tail' PROVE tail' < head' + Size
      <3>1. lt[th] <= tail
        BY <2>6 DEF Locals, PushLocal, PushPc
      <3>2. lt[th] = tail
        BY <1>1, <2>6, <3>1
      <3>3. tail < head + Size
        BY <2>6, <3>2 DEF Locals, PushLocal
      <3> QED BY <1>1, <2>6, <3>2, <3>3
    <2>7. /\ pc[th] \in PushPc => item[th] \in Items
          /\ pc[th] \in (PushPc \ {"push_t"}) \cup {"push_advance"} => lt[th] <= tail'
          /\ pc[th] \in PushPc \ {"push_t", "push_h"} => lh[th] <= head'
          /\ pc[th] = "push_cas" => la[th].item = NoItem
      BY <1>1 DEF Locals, PushLocal
    <2> QED
      BY <2>1, <2>2, <2>3, <2>4, <2>5, <2>6, <2>7 DEF PushLocal, Current, Loaded
  <1>4. PopLocal(th)'
    <2>1. ASSUME pc[th] = "pop_empty", slots'[SlotOf(lh[th])] = la[th], la[th].item # NoItem
          PROVE  lh[th] = head'
      <3>1. slots[SlotOf(lh[th])] = la[th]
        BY <1>1, <1>2, <2>1 DEF Locals, PopLocal, Loaded
      <3>2. lh[th] = head
        BY <2>1, <3>1 DEF Locals, PopLocal, Current
      <3>3. head' = head
        BY <1>1, <1>6, <2>1, <3>1, <3>2
      <3> QED BY <3>2, <3>3
    <2>2. ASSUME pc[th] = "pop_cas", slots'[SlotOf(lh[th])] = la[th]
          PROVE  lh[th] = head' /\ head' < tail'
      <3>1. slots[SlotOf(lh[th])] = la[th] /\ la[th].item # NoItem
        BY <1>1, <1>2, <2>2 DEF Locals, PopLocal, Loaded
      <3>2. lh[th] = head /\ head < tail
        BY <2>2, <3>1 DEF Locals, PopLocal, Current
      <3> QED BY <1>1, <1>6, <2>2, <3>1, <3>2
    <2>3. ASSUME pc[th] \in {"pop_low", "pop_recheck", "pop_empty", "pop_cas"}
          PROVE  la[th].ver <= slots'[SlotOf(lh[th])].ver
      BY <1>1, <1>2, <2>3 DEF Locals, PopLocal, Loaded
    <2>4. ASSUME pc[th] = "pop_emptytail", lt[th] = tail' PROVE seen'[th]
      BY <1>1, <2>4 DEF Locals, PopLocal, PopPc
    <2>5. pc[th] = "pop_reread" => lh[th] < tail'
      BY <1>1 DEF Locals, PopLocal
    <2> QED
      BY <1>1, <2>1, <2>2, <2>3, <2>4, <2>5 DEF Locals, PopLocal, Current, Loaded
  <1>5. Helping(th)'
    <2>1. ASSUME pc[th] \in {"push_helptail", "push_advance", "pop_helptail"}, lt[th] = tail'
          PROVE  slots'[SlotOf(tail')].item # NoItem /\ tail' < head' + Size
      <3>1. lt[th] <= tail
        BY <2>1 DEF Locals, PushLocal, PopLocal, PushPc, PopPc
      <3>2. lt[th] = tail /\ tail' = tail
        BY <1>1, <2>1, <3>1
      <3> QED BY <1>6, <2>1, <3>2 DEF Locals, Helping, Empty
    <2>2. ASSUME pc[th] \in {"push_helphead", "pop_advance", "pop_helphead"}, lh[th] = head'
          PROVE  slots'[SlotOf(head')].item = NoItem /\ head' < tail'
      <3>1. lh[th] <= head
        BY <2>2 DEF Locals, PushLocal, PopLocal, PushPc, PopPc
      <3>2. lh[th] = head /\ head' = head
        BY <1>1, <2>2, <3>1
      <3> QED BY <1>6, <2>2, <3>2 DEF Locals, Helping, Empty
    <2> QED BY <2>1, <2>2 DEF Helping, Empty
  <1> QED BY <1>3, <1>4, <1>5 DEF Locals

-----------------------------------------------------------------------------
(* The steps of one thread.                                                *)

AllPc == PushPc \cup PopPc \cup {"idle", "push_advance", "pop_advance"}

(* What the history of refusals records of a step.                         *)
SeenStep ==
  /\ seen' \in [Threads -> BOOLEAN]
  /\ \A th \in Threads :
       /\ pc[th] \in PushPc /\ pc'[th] \in PushPc
            => (seen[th] => seen'[th])
       /\ pc[th] \in PopPc /\ pc'[th] \in PopPc
            => (seen[th] => seen'[th])
       /\ pc'[th] \in PushPc /\ Len(pushed') - Len(popped') = Size => seen'[th]
       /\ pc'[th] \in PopPc /\ Len(pushed') - Len(popped') = 0 => seen'[th]

LEMMA ObserveSeen ==
  ASSUME TypeOK, Fifo!Observe
  PROVE  SeenStep
  <1>1. /\ \A p \in PushPc : CallOf(p) = "push"
        /\ \A p \in PopPc : CallOf(p) = "pop"
    BY DEF CallOf, PushPc, PopPc
  <1>2. seen' \in [Threads -> BOOLEAN]
    BY DEF Fifo!Observe, Fifo!Refusable, TypeOK
  <1>3. ASSUME NEW th \in Threads
        PROVE  seen'[th] = (\/ seen[th] /\ CallOf(pc[th]) \in {"push", "pop"}
                                       /\ CallOf(pc'[th]) = CallOf(pc[th])
                            \/ CallOf(pc'[th]) = "push" /\ Len(pushed') - Len(popped') = Size
                            \/ CallOf(pc'[th]) = "pop" /\ Len(pushed') - Len(popped') = 0)
    BY DEF Fifo!Observe, Fifo!Refusable, Fifo!Count
  <1>4. ASSUME NEW th \in Threads
        PROVE  /\ pc[th] \in PushPc /\ pc'[th] \in PushPc /\ seen[th] => seen'[th]
               /\ pc[th] \in PopPc /\ pc'[th] \in PopPc /\ seen[th] => seen'[th]
               /\ pc'[th] \in PushPc /\ Len(pushed') - Len(popped') = Size => seen'[th]
               /\ pc'[th] \in PopPc /\ Len(pushed') - Len(popped') = 0 => seen'[th]
    <2>1. pc[th] \in PushPc /\ pc'[th] \in PushPc /\ seen[th] => seen'[th]
      BY <1>1, <1>3
    <2>2. pc[th] \in PopPc /\ pc'[th] \in PopPc /\ seen[th] => seen'[th]
      BY <1>1, <1>3
    <2>3. pc'[th] \in PushPc /\ Len(pushed') - Len(popped') = Size => seen'[th]
      BY <1>1, <1>3
    <2>4. pc'[th] \in PopPc /\ Len(pushed') - Len(popped') = 0 => seen'[th]
      BY <1>1, <1>3
    <2> QED BY <2>1, <2>2, <2>3, <2>4
  <1> QED BY <1>2, <1>4 DEF SeenStep

(* The threads that do not take the step keep their locals.                *)
OthersKeep(th) ==
  \A u \in Threads \ {th} :
    /\ pc'[u] = pc[u] /\ lt'[u] = lt[u] /\ lh'[u] = lh[u]
    /\ la'[u] = la[u] /\ item'[u] = item[u]

(* The types of everything but the history of refusals.                    *)
StepTypes ==
  /\ head' \in Nat /\ tail' \in Nat /\ slots' \in [Slots -> SlotWord]
  /\ pc' \in [Threads -> AllPc]
  /\ lt' \in [Threads -> Nat] /\ lh' \in [Threads -> Nat]
  /\ la' \in [Threads -> SlotWord] /\ item' \in [Threads -> Items \cup {NoItem}]
  /\ pushed' \in Seq(Items) /\ popped' \in Seq(Items)

GoodStep(th) == StepTypes /\ SharedStep /\ OthersKeep(th)

(* Steps that leave the shared state alone.                                *)
LEMMA QuietSteps ==
  ASSUME TypeOK, NEW th \in Threads,
         \/ PushCall(th) \/ PopCall(th)
         \/ PushReadTail(th) \/ PushReadHead(th) \/ PushLoad(th) \/ PushRecheck(th)
         \/ PushTestFull(th) \/ PushFullSlot(th) \/ PushFullHead(th) \/ PushReread(th)
         \/ PopReadHead(th) \/ PopReadTail(th) \/ PopLoad(th) \/ PopRecheck(th)
         \/ PopTestEmpty(th) \/ PopEmptySlot(th) \/ PopEmptyTail(th) \/ PopReread(th)
  PROVE  GoodStep(th) /\ Quiet
  <1> USE DEF GoodStep, StepTypes, SharedStep, Quiet, OthersKeep, TypeOK, AllPc,
              PushPc, PopPc, Goto, locals, ghosts
  <1>1. CASE PushCall(th)
    BY <1>1 DEF PushCall
  <1>2. CASE PopCall(th)
    BY <1>2 DEF PopCall
  <1>3. CASE PushReadTail(th) \/ PushReadHead(th)
    <2>1. CASE PushReadTail(th)
      BY <2>1 DEF PushReadTail
    <2>2. CASE PushReadHead(th)
      BY <2>2 DEF PushReadHead
    <2> QED BY <1>3, <2>1, <2>2
  <1>4. CASE PopReadTail(th) \/ PopReadHead(th)
    <2>1. CASE PopReadTail(th)
      BY <2>1 DEF PopReadTail
    <2>2. CASE PopReadHead(th)
      BY <2>2 DEF PopReadHead
    <2> QED BY <1>4, <2>1, <2>2
  <1>5. SlotOf(lt[th]) \in Slots /\ SlotOf(lh[th]) \in Slots
    BY SlotRange
  <1>6. ASSUME NEW s \in Slots
        PROVE  /\ LoadLow(th, s) => la' \in [Threads -> SlotWord]
               /\ LoadHigh(th, s) => la' \in [Threads -> SlotWord]
    <2>1. slots[s] \in SlotWord /\ la[th] \in SlotWord
      OBVIOUS
    <2>2. /\ [la[th] EXCEPT !.item = slots[s].item] \in SlotWord
          /\ [la[th] EXCEPT !.ver = slots[s].ver] \in SlotWord
      BY <2>1 DEF SlotWord
    <2>3. LoadLow(th, s) => la' \in [Threads -> SlotWord]
      BY <2>2 DEF LoadLow
    <2>4. LoadHigh(th, s) => la' \in [Threads -> SlotWord]
      BY <2>2 DEF LoadHigh
    <2> QED BY <2>3, <2>4
  <1>7. CASE PushLoad(th) \/ PopLoad(th)
    <2>1. la' \in [Threads -> SlotWord]
      BY <1>5, <1>6, <1>7 DEF PushLoad, PopLoad, Load
    <2>2. \A u \in Threads \ {th} : la'[u] = la[u]
      BY <1>7 DEF PushLoad, PopLoad, Load, LoadLow, LoadHigh
    <2>3. /\ pc' \in [Threads -> AllPc]
          /\ \A u \in Threads \ {th} : pc'[u] = pc[u]
          /\ UNCHANGED <<head, tail, slots, lt, lh, item, ghosts>>
      BY <1>7 DEF PushLoad, PopLoad, Load
    <2> QED BY <2>1, <2>2, <2>3
  <1>8. CASE PushRecheck(th) \/ PushTestFull(th)
    BY <1>8 DEF PushRecheck, PushTestFull
  <1>9. CASE PushFullSlot(th) \/ PushFullHead(th) \/ PushReread(th)
    BY <1>9 DEF PushFullSlot, PushFullHead, PushReread
  <1>10. CASE PopRecheck(th) \/ PopTestEmpty(th)
    BY <1>10 DEF PopRecheck, PopTestEmpty
  <1>11. CASE PopEmptySlot(th) \/ PopEmptyTail(th) \/ PopReread(th)
    BY <1>11 DEF PopEmptySlot, PopEmptyTail, PopReread
  <1> QED BY <1>1, <1>2, <1>3, <1>4, <1>7, <1>8, <1>9, <1>10, <1>11

(* The interlocked steps, before the counters wrap.                        *)
LEMMA SharedSteps ==
  ASSUME TypeOK, BeforeWrap, Ring, NEW th \in Threads, Locals(th),
         \/ PushHelpHead(th) \/ PushHelpTail(th) \/ PushCas(th) \/ PushAdvance(th)
         \/ PopHelpHead(th)  \/ PopHelpTail(th)  \/ PopCas(th)  \/ PopAdvance(th)
  PROVE  GoodStep(th)
  <1> USE DEF TypeOK, Goto, AllPc, PushPc, PopPc, ghosts, locals
  <1>1. /\ tail + 1 < WordMod /\ head + 1 < WordMod
        /\ lt[th] \in Nat /\ lh[th] \in Nat
        /\ SlotOf(lt[th]) \in Slots /\ SlotOf(lh[th]) \in Slots
    BY SizeAssumption, WordAssumption, SlotRange DEF BeforeWrap, Ring, Window
  <1>2. Plus(tail, 1) = tail + 1 /\ Plus(head, 1) = head + 1
    BY <1>1 DEF Plus
  <1>3. ASSUME NEW s \in Slots, slots[s] = la[th] PROVE Plus(la[th].ver, 1) = slots[s].ver + 1
    BY <1>3 DEF Plus, BeforeWrap, SlotWord
  <1>4. CASE PushHelpTail(th) \/ PopHelpTail(th) \/ PushAdvance(th)
    <2>1. TailStep \/ Quiet
      BY <1>2, <1>4 DEF PushHelpTail, PopHelpTail, PushAdvance, CasTail, TailStep, Quiet,
                        Locals, Helping
    <2>2. tail' \in Nat
      BY <1>2, <1>4 DEF PushHelpTail, PopHelpTail, PushAdvance, CasTail
    <2>3. pc' \in [Threads -> AllPc] /\ (\A u \in Threads \ {th} : pc'[u] = pc[u])
      BY <1>4 DEF PushHelpTail, PopHelpTail, PushAdvance
    <2>4. UNCHANGED <<head, slots, lt, lh, la, item, pushed, popped>>
      BY <1>4 DEF PushHelpTail, PopHelpTail, PushAdvance
    <2>5. StepTypes /\ OthersKeep(th)
      BY <2>2, <2>3, <2>4 DEF StepTypes, OthersKeep
    <2> QED BY <2>1, <2>5 DEF GoodStep, SharedStep
  <1>5. CASE PushHelpHead(th) \/ PopHelpHead(th) \/ PopAdvance(th)
    <2>1. HeadStep \/ Quiet
      BY <1>2, <1>5 DEF PushHelpHead, PopHelpHead, PopAdvance, CasHead, HeadStep, Quiet,
                        Locals, Helping
    <2>2. la[th].item \in Items \cup {NoItem}
      BY DEF SlotWord
    <2>3. head' \in Nat
      BY <1>2, <1>5 DEF PushHelpHead, PopHelpHead, PopAdvance, CasHead
    <2>4. pc' \in [Threads -> AllPc] /\ (\A u \in Threads \ {th} : pc'[u] = pc[u])
      BY <1>5 DEF PushHelpHead, PopHelpHead, PopAdvance
    <2>5. UNCHANGED <<tail, slots, lt, lh, la, pushed, popped>>
      BY <1>5 DEF PushHelpHead, PopHelpHead, PopAdvance
    <2>6. item' = item \/ item' = [item EXCEPT ![th] = la[th].item]
      BY <1>5 DEF PushHelpHead, PopHelpHead, PopAdvance
    <2>7. StepTypes /\ OthersKeep(th)
      BY <2>2, <2>3, <2>4, <2>5, <2>6 DEF StepTypes, OthersKeep
    <2> QED BY <2>1, <2>7 DEF GoodStep, SharedStep
  <1>6. CASE PushCas(th)
    <2> DEFINE s == SlotOf(lt[th])
    <2>1. CASE slots[s] # la[th]
      BY <1>6, <2>1 DEF PushCas, GoodStep, SharedStep, Quiet, StepTypes, OthersKeep
    <2>2. CASE slots[s] = la[th]
      <3>1. lt[th] = tail /\ tail < head + Size /\ Empty(tail) /\ item[th] \in Items
        BY <1>6, <2>2 DEF PushCas, Locals, PushLocal, Current, Empty
      <3>2. /\ slots' = [slots EXCEPT ![s] = Word(item[th], slots[s].ver + 1)]
            /\ pushed' = Append(pushed, item[th])
            /\ UNCHANGED <<head, tail, lt, lh, la, item, popped>>
            /\ pc' = [pc EXCEPT ![th] = "push_advance"]
        BY <1>1, <1>3, <1>6, <2>2 DEF PushCas
      <3>3. Enters(item[th])
        BY <3>1, <3>2 DEF Enters, Changed
      <3>4. slots' \in [Slots -> SlotWord]
        BY <1>1, <3>1, <3>2 DEF Word, SlotWord
      <3>5. StepTypes /\ OthersKeep(th)
        BY <3>1, <3>2, <3>4 DEF StepTypes, OthersKeep
      <3> QED BY <3>1, <3>3, <3>5 DEF GoodStep, SharedStep
    <2> QED BY <2>1, <2>2
  <1>7. CASE PopCas(th)
    <2> DEFINE s == SlotOf(lh[th])
    <2>1. CASE slots[s] # la[th]
      BY <1>7, <2>1 DEF PopCas, GoodStep, SharedStep, Quiet, StepTypes, OthersKeep
    <2>2. CASE slots[s] = la[th]
      <3>1. lh[th] = head /\ head < tail /\ ~Empty(head)
        BY <1>7, <2>2 DEF PopCas, Locals, PopLocal, Current, Empty
      <3>2. /\ slots' = [slots EXCEPT ![s] = Word(NoItem, slots[s].ver + 1)]
            /\ popped' = Append(popped, slots[s].item)
            /\ UNCHANGED <<head, tail, lt, lh, la, item, pushed>>
            /\ pc' = [pc EXCEPT ![th] = "pop_advance"]
        BY <1>1, <1>3, <1>7, <2>2 DEF PopCas
      <3>3. Leaves
        BY <3>1, <3>2 DEF Leaves, Changed
      <3>4. slots' \in [Slots -> SlotWord]
        BY <1>1, <3>1, <3>2 DEF Word, SlotWord
      <3>5. slots[s].item \in Items
        BY <1>1, <3>1 DEF SlotWord, Empty
      <3>6. StepTypes /\ OthersKeep(th)
        BY <3>1, <3>2, <3>4, <3>5 DEF StepTypes, OthersKeep
      <3> QED BY <3>3, <3>6 DEF GoodStep, SharedStep
    <2> QED BY <2>1, <2>2
  <1> QED BY <1>4, <1>5, <1>6, <1>7

-----------------------------------------------------------------------------
(* What a step establishes for the thread that takes it.                   *)

LEMMA LocalTypes ==
  ASSUME TypeOK, BeforeWrap, Ring, NEW th \in Threads
  PROVE  /\ lt[th] \in Nat /\ lh[th] \in Nat /\ la[th].ver \in Nat
         /\ Size \in Nat /\ Size > 0
         /\ head \in Nat /\ tail \in Nat /\ head <= tail /\ tail <= head + Size
         /\ Plus(head, Size) = head + Size
  <1>1. la[th].ver \in Nat
    BY DEF TypeOK, SlotWord
  <1>2. /\ lt[th] \in Nat /\ lh[th] \in Nat /\ Size \in Nat /\ Size > 0
        /\ head \in Nat /\ tail \in Nat /\ head <= tail /\ tail <= head + Size
    BY SizeAssumption DEF TypeOK, Ring, Window
  <1>3. head + Size < WordMod
    BY <1>2, WordAssumption DEF BeforeWrap
  <1> QED BY <1>1, <1>2, <1>3 DEF Plus

LEMMA PushLocalSteps ==
  ASSUME TypeOK, BeforeWrap, Ring, NEW th \in Threads, Locals(th), StepTypes, SeenStep,
         PushCall(th) \/ PushStep(th)
  PROVE  Locals(th)'
  <1> USE DEF PushPc, PopPc
  <1>1. /\ lt[th] \in Nat /\ lh[th] \in Nat /\ la[th].ver \in Nat /\ Size \in Nat
        /\ head \in Nat /\ tail \in Nat /\ head <= tail /\ tail <= head + Size
        /\ Plus(head, Size) = head + Size
    BY LocalTypes
  <1>2. ASSUME NEW p \in {"idle", "push_t", "push_h", "push_load", "push_low", "push_high",
                          "push_recheck", "push_full", "push_fullslot", "push_fullhead",
                          "push_helphead", "push_reread", "push_helptail", "push_cas",
                          "push_advance"}, pc'[th] = p
        PROVE  PopLocal(th)' /\ (p \notin {"push_helptail", "push_advance", "push_helphead"} => Helping(th)')
    BY <1>2 DEF PopLocal, Helping
  <1>3. CASE PushCall(th)
    <2>1. pc'[th] = "push_t" /\ item'[th] \in Items
      BY <1>3 DEF PushCall, Goto, TypeOK
    <2> QED BY <1>2, <2>1 DEF Locals, PushLocal
  <1>4. CASE PushReadTail(th)
    <2>1. /\ pc[th] = "push_t" /\ pc'[th] = "push_h" /\ lt'[th] = tail
          /\ UNCHANGED <<head, tail, slots, lh, la, item>>
      BY <1>4 DEF PushReadTail, Goto, TypeOK
    <2> QED BY <1>1, <1>2, <2>1 DEF Locals, PushLocal
  <1>5. CASE PushReadHead(th)
    <2>1. /\ pc[th] = "push_h" /\ pc'[th] = "push_load" /\ lh'[th] = head
          /\ UNCHANGED <<head, tail, slots, lt, la, item>>
      BY <1>5 DEF PushReadHead, Goto, TypeOK
    <2> QED BY <1>1, <1>2, <2>1 DEF Locals, PushLocal
  <1>6. CASE PushLoad(th)
    <2>1. /\ pc[th] \in {"push_load", "push_low", "push_high"}
          /\ pc'[th] \in {"push_low", "push_high", "push_recheck"}
          /\ UNCHANGED <<head, tail, slots, lt, lh, item>>
      BY <1>6 DEF PushLoad, Load, Goto, TypeOK
    <2>2. pc'[th] \in {"push_low", "push_recheck"}
            => la'[th].ver = slots[SlotOf(lt[th])].ver \/ (pc[th] = "push_low" /\ la'[th].ver = la[th].ver)
      BY <1>6 DEF PushLoad, Load, LoadLow, LoadHigh, Goto, TypeOK, SlotWord
    <2>3. slots[SlotOf(lt[th])].ver \in Nat
      BY <1>1, SlotRange DEF TypeOK, SlotWord
    <2>4. pc'[th] \in {"push_low", "push_recheck"} => la'[th].ver <= slots[SlotOf(lt[th])].ver
      BY <1>1, <2>2, <2>3 DEF Locals, PushLocal, Loaded
    <2> QED BY <1>1, <1>2, <2>1, <2>4 DEF Locals, PushLocal, Loaded
  <1>7. CASE PushRecheck(th)
    <2>1. /\ pc[th] = "push_recheck" /\ pc'[th] = IF lt[th] = tail THEN "push_full" ELSE "push_t"
          /\ UNCHANGED <<head, tail, slots, lt, lh, la, item>>
      BY <1>7 DEF PushRecheck, Goto, TypeOK, locals
    <2> QED BY <1>1, <1>2, <2>1 DEF Locals, PushLocal, Loaded
  <1>8. CASE PushTestFull(th)
    <2>1. /\ pc[th] = "push_full"
          /\ pc'[th] = IF lt[th] = head + Size THEN "push_fullslot"
                       ELSE IF la[th].item # NoItem THEN "push_reread" ELSE "push_cas"
          /\ UNCHANGED <<head, tail, slots, lt, lh, la, item>>
      BY <1>1, <1>8 DEF PushTestFull, Goto, TypeOK, locals
    <2> QED BY <1>1, <1>2, <2>1 DEF Locals, PushLocal, Loaded, Current
  <1>9. CASE PushFullSlot(th)
    <2>1. /\ pc[th] = "push_fullslot"
          /\ pc'[th] = IF ~Empty(lh[th]) THEN "push_fullhead" ELSE "push_helphead"
          /\ UNCHANGED <<head, tail, slots, lt, lh, la, item, pushed, popped>>
      BY <1>9 DEF PushFullSlot, Goto, TypeOK, locals, ghosts, Empty
    <2>2. ASSUME lh[th] = head
          PROVE  tail = head + Size
      BY <1>1, <2>1, <2>2 DEF Locals, PushLocal
    <2>3. ASSUME lh[th] = head, pc'[th] = "push_fullhead"
          PROVE  seen'[th]
      <3>1. tail = head + Size /\ ~Empty(head)
        BY <2>1, <2>2, <2>3
      <3>2. Len(pushed) = tail /\ Len(popped) = head
        BY <1>1, <3>1 DEF Ring, Delivery
      <3>3. Len(pushed') - Len(popped') = Size
        BY <1>1, <2>1, <3>1, <3>2
      <3> QED BY <2>3, <3>3 DEF SeenStep
    <2>4. Helping(th)'
      <3>1. Size > 0
        BY SizeAssumption
      <3> QED BY <1>1, <2>1, <2>2, <3>1 DEF Helping, Empty
    <2> QED BY <1>1, <1>2, <2>1, <2>3, <2>4 DEF Locals, PushLocal
  <1>10. CASE PushFullHead(th)
    <2>1. /\ pc[th] = "push_fullhead"
          /\ pc'[th] = IF lh[th] = head THEN "idle" ELSE "push_helphead"
          /\ UNCHANGED <<head, tail, slots, lt, lh, la, item>>
      BY <1>10 DEF PushFullHead, Goto, TypeOK, locals
    <2> QED BY <1>1, <1>2, <2>1 DEF Locals, PushLocal, Helping
  <1>11. CASE PushReread(th)
    <2>1. /\ pc[th] = "push_reread"
          /\ pc'[th] = IF ~Empty(lt[th]) THEN "push_helptail" ELSE "push_t"
          /\ UNCHANGED <<head, tail, slots, lt, lh, la, item>>
      BY <1>11 DEF PushReread, Goto, TypeOK, locals, Empty
    <2> QED BY <1>1, <1>2, <2>1 DEF Locals, PushLocal, Helping, Empty
  <1>12. CASE PushHelpHead(th) \/ PushHelpTail(th)
    <2>1. /\ pc[th] \in {"push_helphead", "push_helptail"} /\ pc'[th] = "push_t"
          /\ UNCHANGED item
      BY <1>12 DEF PushHelpHead, PushHelpTail, Goto, TypeOK, locals
    <2> QED BY <1>2, <2>1 DEF Locals, PushLocal
  <1>13. CASE PushAdvance(th)
    <2>1. pc'[th] = "idle"
      BY <1>13 DEF PushAdvance, Goto, TypeOK
    <2> QED BY <1>2, <2>1 DEF Locals, PushLocal
  <1>14. CASE PushCas(th)
    <2>1. /\ pc[th] = "push_cas" /\ UNCHANGED <<head, tail, lt, lh, la, item>>
          /\ pc'[th] = IF Current(th, lt[th]) THEN "push_advance" ELSE "push_t"
          /\ Current(th, lt[th]) => slots'[SlotOf(lt[th])].item = item[th]
      BY <1>1, <1>14, SlotRange DEF PushCas, Goto, TypeOK, locals, Current, Word
    <2>2. CASE Current(th, lt[th])
      <3>1. lt[th] = tail /\ tail < head + Size /\ item[th] \in Items
        BY <2>1, <2>2 DEF Locals, PushLocal
      <3>2. Helping(th)'
        BY <2>1, <2>2, <3>1, ItemsAssumption DEF Helping, Empty
      <3> QED BY <1>1, <1>2, <2>1, <2>2, <3>1, <3>2 DEF Locals, PushLocal
    <2>3. CASE ~Current(th, lt[th])
      BY <1>2, <2>1, <2>3 DEF Locals, PushLocal
    <2> QED BY <2>2, <2>3
  <1> QED BY <1>3, <1>4, <1>5, <1>6, <1>7, <1>8, <1>9, <1>10, <1>11, <1>12, <1>13, <1>14
          DEF PushStep

LEMMA PopLocalSteps ==
  ASSUME TypeOK, BeforeWrap, Ring, NEW th \in Threads, Locals(th), StepTypes, SeenStep,
         PopCall(th) \/ PopStep(th)
  PROVE  Locals(th)'
  <1> USE DEF PushPc, PopPc
  <1>1. /\ lt[th] \in Nat /\ lh[th] \in Nat /\ la[th].ver \in Nat
        /\ Size \in Nat /\ Size > 0
        /\ head \in Nat /\ tail \in Nat /\ head <= tail /\ tail <= head + Size
    BY LocalTypes
  <1>2. ASSUME NEW p \in {"idle", "pop_h", "pop_t", "pop_load", "pop_low", "pop_high",
                          "pop_recheck", "pop_empty", "pop_emptyslot", "pop_emptytail",
                          "pop_helptail", "pop_reread", "pop_helphead", "pop_cas",
                          "pop_advance"}, pc'[th] = p
        PROVE  PushLocal(th)' /\ (p \notin {"pop_helptail", "pop_advance", "pop_helphead"} => Helping(th)')
    BY <1>2 DEF PushLocal, Helping
  <1>3. CASE PopCall(th) \/ PopHelpTail(th) \/ PopHelpHead(th) \/ PopAdvance(th)
    <2>1. pc'[th] \in {"pop_h", "idle"}
      BY <1>3 DEF PopCall, PopHelpTail, PopHelpHead, PopAdvance, Goto, TypeOK
    <2> QED BY <1>2, <2>1 DEF Locals, PopLocal
  <1>4. CASE PopReadHead(th)
    <2>1. /\ pc[th] = "pop_h" /\ pc'[th] = "pop_t" /\ lh'[th] = head
          /\ UNCHANGED <<head, tail, slots, lt, la, item>>
      BY <1>4 DEF PopReadHead, Goto, TypeOK
    <2> QED BY <1>1, <1>2, <2>1 DEF Locals, PopLocal
  <1>5. CASE PopReadTail(th)
    <2>1. /\ pc[th] = "pop_t" /\ pc'[th] = "pop_load" /\ lt'[th] = tail
          /\ UNCHANGED <<head, tail, slots, lh, la, item>>
      BY <1>5 DEF PopReadTail, Goto, TypeOK
    <2> QED BY <1>1, <1>2, <2>1 DEF Locals, PopLocal
  <1>6. CASE PopLoad(th)
    <2>1. /\ pc[th] \in {"pop_load", "pop_low", "pop_high"}
          /\ pc'[th] \in {"pop_low", "pop_high", "pop_recheck"}
          /\ UNCHANGED <<head, tail, slots, lt, lh, item>>
      BY <1>6 DEF PopLoad, Load, Goto, TypeOK
    <2>2. pc'[th] \in {"pop_low", "pop_recheck"}
            => la'[th].ver = slots[SlotOf(lh[th])].ver \/ (pc[th] = "pop_low" /\ la'[th].ver = la[th].ver)
      BY <1>6 DEF PopLoad, Load, LoadLow, LoadHigh, Goto, TypeOK, SlotWord
    <2>3. slots[SlotOf(lh[th])].ver \in Nat
      BY <1>1, SlotRange DEF TypeOK, SlotWord
    <2>4. pc'[th] \in {"pop_low", "pop_recheck"} => la'[th].ver <= slots[SlotOf(lh[th])].ver
      BY <1>1, <2>2, <2>3 DEF Locals, PopLocal, Loaded
    <2> QED BY <1>1, <1>2, <2>1, <2>4 DEF Locals, PopLocal, Loaded
  <1>7. CASE PopRecheck(th)
    <2>1. /\ pc[th] = "pop_recheck" /\ pc'[th] = IF lh[th] = head THEN "pop_empty" ELSE "pop_h"
          /\ UNCHANGED <<head, tail, slots, lt, lh, la, item>>
      BY <1>7 DEF PopRecheck, Goto, TypeOK, locals
    <2> QED BY <1>1, <1>2, <2>1 DEF Locals, PopLocal, Loaded
  <1>8. CASE PopTestEmpty(th)
    <2>1. /\ pc[th] = "pop_empty"
          /\ pc'[th] = IF lh[th] = tail THEN "pop_emptyslot"
                       ELSE IF la[th].item = NoItem THEN "pop_reread" ELSE "pop_cas"
          /\ UNCHANGED <<head, tail, slots, lt, lh, la, item>>
      BY <1>8 DEF PopTestEmpty, Goto, TypeOK, locals
    <2> QED BY <1>1, <1>2, <2>1 DEF Locals, PopLocal, Loaded, Current
  <1>9. CASE PopEmptySlot(th)
    <2>1. /\ pc[th] = "pop_emptyslot"
          /\ pc'[th] = IF Empty(lt[th]) THEN "pop_emptytail" ELSE "pop_helptail"
          /\ UNCHANGED <<head, tail, slots, lt, lh, la, item, pushed, popped>>
      BY <1>9 DEF PopEmptySlot, Goto, TypeOK, locals, ghosts, Empty
    <2>2. ASSUME lt[th] = tail PROVE head = tail
      BY <1>1, <2>1, <2>2 DEF Locals, PopLocal
    <2>3. ASSUME lt[th] = tail, pc'[th] = "pop_emptytail"
          PROVE  seen'[th]
      <3>1. head = tail /\ Empty(tail)
        BY <2>1, <2>2, <2>3
      <3>2. Len(pushed) = tail /\ Len(popped) = head
        BY <1>1, <3>1 DEF Ring, Delivery
      <3>3. Len(pushed') - Len(popped') = 0
        BY <1>1, <2>1, <3>1, <3>2
      <3> QED BY <2>3, <3>3 DEF SeenStep
    <2>4. Helping(th)'
      BY <1>1, <2>1, <2>2 DEF Helping, Empty
    <2> QED BY <1>1, <1>2, <2>1, <2>3, <2>4 DEF Locals, PopLocal
  <1>10. CASE PopEmptyTail(th)
    <2>1. /\ pc[th] = "pop_emptytail"
          /\ pc'[th] = IF lt[th] = tail THEN "idle" ELSE "pop_helptail"
          /\ UNCHANGED <<head, tail, slots, lt, lh, la, item>>
      BY <1>10 DEF PopEmptyTail, Goto, TypeOK, locals
    <2> QED BY <1>1, <1>2, <2>1 DEF Locals, PopLocal, Helping
  <1>11. CASE PopReread(th)
    <2>1. /\ pc[th] = "pop_reread"
          /\ pc'[th] = IF Empty(lh[th]) THEN "pop_helphead" ELSE "pop_h"
          /\ UNCHANGED <<head, tail, slots, lt, lh, la, item>>
      BY <1>11 DEF PopReread, Goto, TypeOK, locals, Empty
    <2> QED BY <1>1, <1>2, <2>1 DEF Locals, PopLocal, Helping, Empty
  <1>12. CASE PopCas(th)
    <2>1. /\ pc[th] = "pop_cas" /\ UNCHANGED <<head, tail, lt, lh, la, item>>
          /\ pc'[th] = IF Current(th, lh[th]) THEN "pop_advance" ELSE "pop_h"
          /\ Current(th, lh[th]) => slots'[SlotOf(lh[th])].item = NoItem
      BY <1>1, <1>12, SlotRange DEF PopCas, Goto, TypeOK, locals, Current, Word
    <2>2. CASE Current(th, lh[th])
      <3>1. lh[th] = head /\ head < tail
        BY <2>1, <2>2 DEF Locals, PopLocal
      <3>2. Helping(th)'
        BY <2>1, <2>2, <3>1 DEF Helping, Empty
      <3> QED BY <1>1, <1>2, <2>1, <2>2, <3>1, <3>2 DEF Locals, PopLocal
    <2>3. CASE ~Current(th, lh[th])
      BY <1>2, <2>1, <2>3 DEF Locals, PopLocal
    <2> QED BY <2>2, <2>3
  <1> QED BY <1>3, <1>4, <1>5, <1>6, <1>7, <1>8, <1>9, <1>10, <1>11, <1>12 DEF PopStep

-----------------------------------------------------------------------------
(* The invariant.                                                          *)

LEMMA InitInv == Init => Inv
  <1> SUFFICES ASSUME Init PROVE Inv
    OBVIOUS
  <1> USE SizeAssumption, ItemsAssumption DEF Init, Word
  <1>1. TypeOK
    BY DEF TypeOK, SlotWord, PushPc, PopPc
  <1>2. \A p \in Nat : Empty(p)
    BY SlotRange DEF Empty
  <1>3. Window
    BY <1>2 DEF Window
  <1>4. Delivery
    BY <1>2 DEF Delivery
  <1>5. \A th \in Threads : PushLocal(th) /\ PopLocal(th) /\ Helping(th)
    BY DEF PushLocal, PopLocal, Helping, PushPc, PopPc
  <1> QED BY <1>1, <1>3, <1>4, <1>5 DEF Inv

LEMMA NextInv == Inv /\ BeforeWrap /\ [Next]_vars => Inv'
  <1> SUFFICES ASSUME Inv, BeforeWrap, [Next]_vars PROVE Inv'
    OBVIOUS
  <1> USE DEF Inv
  <1>0. Ring
    BY DEF Ring
  <1>1. CASE UNCHANGED vars
    BY <1>1 DEF vars, TypeOK, Window, Delivery, PushLocal, PopLocal, Helping,
                Empty, Loaded, Current
  <1>2. CASE Next
    <2>1. PICK th \in Threads : PushCall(th) \/ PopCall(th) \/ PushStep(th) \/ PopStep(th)
      BY <1>2 DEF Next
    <2>2. SeenStep
      BY <1>2, ObserveSeen DEF Next
    <2>3. Locals(th)
      BY DEF Locals
    <2>4. GoodStep(th)
      BY <1>0, <2>1, <2>3, QuietSteps, SharedSteps DEF PushStep, PopStep
    <2>5. TypeOK'
      BY <2>2, <2>4 DEF GoodStep, StepTypes, SeenStep, TypeOK, AllPc
    <2>6. Window' /\ Delivery'
      BY <1>0, <2>4, SharedStepRing DEF GoodStep, Ring
    <2>7. Locals(th)'
      BY <1>0, <2>1, <2>2, <2>3, <2>4, PushLocalSteps, PopLocalSteps DEF GoodStep
    <2>8. ASSUME NEW u \in Threads \ {th} PROVE Locals(u)'
      <3>1. /\ pc'[u] = pc[u] /\ lt'[u] = lt[u] /\ lh'[u] = lh[u]
            /\ la'[u] = la[u] /\ item'[u] = item[u]
        BY <2>4 DEF GoodStep, OthersKeep
      <3>2. pc[u] \in PushPc \cup PopPc /\ seen[u] => seen'[u]
        BY <2>2, <3>1 DEF SeenStep
      <3> QED BY <1>0, <2>4, <3>1, <3>2, LocalsStable DEF GoodStep, Locals
    <2>9. \A u \in Threads : PushLocal(u)' /\ PopLocal(u)' /\ Helping(u)'
      BY <2>7, <2>8 DEF Locals
    <2> QED BY <2>5, <2>6, <2>9
  <1> QED BY <1>1, <1>2

(* Until a counter or a version wraps, the invariant holds in every state: *)
(* the types, the lag of head and tail (AtomicQueue.h lines 66 to 108) and *)
(* the exact contents of the ring, for any number of threads.              *)
THEOREM QueueInvariant == Spec /\ []BeforeWrap => []Inv
  BY InitInv, NextInv, PTL DEF Spec

(* Every variable keeps its type, head and tail staying natural numbers.   *)
THEOREM QueueTypes == Spec /\ []BeforeWrap => []TypeOK
  <1>1. Inv => TypeOK
    BY DEF Inv
  <1> QED BY <1>1, QueueInvariant, PTL

(* head and tail lag the slots by one position at most and never lead.     *)
THEOREM QueueWindow == Spec /\ []BeforeWrap => []Window
  <1>1. Inv => Window
    BY DEF Inv
  <1> QED BY <1>1, QueueInvariant, PTL

(* No item is lost, duplicated or reordered between Push and Pop.          *)
THEOREM QueueDelivery == Spec /\ []BeforeWrap => []Delivery
  <1>1. Inv => Delivery
    BY DEF Inv
  <1> QED BY <1>1, QueueInvariant, PTL
-----------------------------------------------------------------------------
(* The queue implements the bounded FIFO.                                  *)

Call  == [u \in Threads |-> CallOf(pc[u])]
Value == [u \in Threads |-> IF pc[u] = "pop_advance" THEN la[u].item ELSE item[u]]

(* The history of refusals is up to date in every state.                   *)
SeenExact ==
  \A th \in Threads :
    /\ seen[th] => CallOf(pc[th]) \in {"push", "pop"}
    /\ CallOf(pc[th]) = "push" /\ Len(pushed) - Len(popped) = Size => seen[th]
    /\ CallOf(pc[th]) = "pop" /\ Len(pushed) - Len(popped) = 0 => seen[th]

LEMMA CallOfPc ==
  /\ \A p \in PushPc : CallOf(p) = "push"
  /\ \A p \in PopPc : CallOf(p) = "pop"
  /\ CallOf("push_advance") = "pushed" /\ CallOf("pop_advance") = "popped"
  /\ CallOf("idle") = "idle"
  BY DEF CallOf, PushPc, PopPc

LEMMA ObserveExact ==
  ASSUME TypeOK, Fifo!Observe
  PROVE  SeenExact'
  <1>1. ASSUME NEW th \in Threads
        PROVE  seen'[th] = (\/ seen[th] /\ CallOf(pc[th]) \in {"push", "pop"}
                                       /\ CallOf(pc'[th]) = CallOf(pc[th])
                            \/ CallOf(pc'[th]) = "push" /\ Len(pushed') - Len(popped') = Size
                            \/ CallOf(pc'[th]) = "pop" /\ Len(pushed') - Len(popped') = 0)
    BY DEF Fifo!Observe, Fifo!Refusable, Fifo!Count
  <1>2. ASSUME NEW th \in Threads
        PROVE  /\ seen'[th] => CallOf(pc'[th]) \in {"push", "pop"}
               /\ CallOf(pc'[th]) = "push" /\ Len(pushed') - Len(popped') = Size => seen'[th]
               /\ CallOf(pc'[th]) = "pop" /\ Len(pushed') - Len(popped') = 0 => seen'[th]
    <2>1. seen'[th] => CallOf(pc'[th]) \in {"push", "pop"}
      BY <1>1
    <2>2. CallOf(pc'[th]) = "push" /\ Len(pushed') - Len(popped') = Size => seen'[th]
      BY <1>1
    <2>3. CallOf(pc'[th]) = "pop" /\ Len(pushed') - Len(popped') = 0 => seen'[th]
      BY <1>1
    <2> QED BY <2>1, <2>2, <2>3
  <1> QED BY <1>2 DEF SeenExact

(* A step that changes nothing the callers see is a stuttering step.       *)
LEMMA StutterStep ==
  ASSUME TypeOK, SeenExact, Fifo!Observe, Call' = Call, Value' = Value,
         UNCHANGED <<pushed, popped>>
  PROVE  UNCHANGED Fifo!vars
  <1>1. ASSUME NEW th \in Threads
        PROVE  seen'[th] = seen[th]
    <2>1. CallOf(pc'[th]) = CallOf(pc[th])
      <3>1. Call'[th] = Call[th]
        OBVIOUS
      <3> QED BY <3>1 DEF Call
    <2>2. seen'[th] = (\/ seen[th] /\ CallOf(pc[th]) \in {"push", "pop"}
                                  /\ CallOf(pc'[th]) = CallOf(pc[th])
                       \/ CallOf(pc'[th]) = "push" /\ Len(pushed') - Len(popped') = Size
                       \/ CallOf(pc'[th]) = "pop" /\ Len(pushed') - Len(popped') = 0)
      BY DEF Fifo!Observe, Fifo!Refusable, Fifo!Count
    <2>3. Len(pushed') - Len(popped') = Len(pushed) - Len(popped)
      OBVIOUS
    <2>4. /\ seen[th] => CallOf(pc[th]) \in {"push", "pop"}
          /\ CallOf(pc[th]) = "push" /\ Len(pushed) - Len(popped) = Size => seen[th]
          /\ CallOf(pc[th]) = "pop" /\ Len(pushed) - Len(popped) = 0 => seen[th]
      BY DEF SeenExact
    <2>5. seen[th] => seen'[th]
      BY <2>1, <2>2, <2>4
    <2>6. seen'[th] => seen[th]
      BY <2>1, <2>2, <2>3, <2>4
    <2>7. seen[th] \in BOOLEAN /\ seen'[th] \in BOOLEAN
      BY ObserveSeen DEF TypeOK, SeenStep
    <2> QED BY <2>5, <2>6, <2>7
  <1>2. seen' = [th \in Threads |-> seen'[th]] /\ seen = [th \in Threads |-> seen[th]]
    BY DEF Fifo!Observe, TypeOK
  <1>3. seen' = seen
    BY <1>1, <1>2
  <1> QED BY <1>3 DEF Fifo!vars, Call, Value

(* A step of th is seen by the callers at th only.                         *)
LEMMA OneCall ==
  ASSUME NEW th \in Threads, OthersKeep(th)
  PROVE  /\ Call' = [Call EXCEPT ![th] = CallOf(pc'[th])]
         /\ Value' = [Value EXCEPT ![th] = IF pc'[th] = "pop_advance" THEN la'[th].item
                                                                     ELSE item'[th]]
  BY DEF OthersKeep, Call, Value

(* A step that takes no call further is a stuttering step of the FIFO.     *)
LEMMA InternalStep ==
  ASSUME TypeOK, SeenExact, Fifo!Observe, NEW th \in Threads, OthersKeep(th),
         UNCHANGED <<pushed, popped>>, CallOf(pc'[th]) = CallOf(pc[th]),
         pc[th] # "pop_advance", pc'[th] # "pop_advance", item'[th] = item[th]
  PROVE  UNCHANGED Fifo!vars
  <1>1. Call' = Call /\ Value' = Value
    BY OneCall DEF Call, Value
  <1> QED BY <1>1, StutterStep

LEMMA FifoStep ==
  ASSUME Inv, SeenExact, BeforeWrap, Next
  PROVE  Fifo!Next \/ UNCHANGED Fifo!vars
  <1>1. PICK th \in Threads : PushCall(th) \/ PopCall(th) \/ PushStep(th) \/ PopStep(th)
    BY DEF Next
  <1>2. TypeOK /\ Ring /\ Locals(th) /\ Fifo!Observe
    BY DEF Inv, Ring, Locals, Next
  <1>3. GoodStep(th)
    BY <1>1, <1>2, QuietSteps, SharedSteps DEF PushStep, PopStep
  <1>4. OthersKeep(th)
    BY <1>3 DEF GoodStep
  <1>5. /\ Call' = [Call EXCEPT ![th] = CallOf(pc'[th])]
        /\ Value' = [Value EXCEPT ![th] = IF pc'[th] = "pop_advance" THEN la'[th].item
                                                                    ELSE item'[th]]
    BY <1>4, OneCall
  <1>6. Call[th] = CallOf(pc[th])
        /\ Value[th] = IF pc[th] = "pop_advance" THEN la[th].item ELSE item[th]
    BY DEF Call, Value
  <1>7. ASSUME UNCHANGED <<pushed, popped>>, Value' = Value, CallOf(pc'[th]) = "idle",
               \/ CallOf(pc[th]) \in {"pushed", "popped"}
               \/ CallOf(pc[th]) \in {"push", "pop"} /\ seen[th]
        PROVE  Fifo!Next
    <2>1. Fifo!Return(th)
      BY <1>5, <1>6, <1>7 DEF Fifo!Return, Call, Value
    <2> QED BY <1>2, <2>1 DEF Fifo!Next
  <1>8. CASE PushCall(th)
    <2>1. PICK v \in Items : item' = [item EXCEPT ![th] = v]
      BY <1>8 DEF PushCall
    <2>2. /\ CallOf(pc[th]) = "idle" /\ CallOf(pc'[th]) = "push" /\ pc'[th] = "push_t"
          /\ item'[th] = v /\ UNCHANGED <<pushed, popped>>
      BY <1>2, <1>8, <2>1, CallOfPc DEF PushCall, Goto, TypeOK, PushPc, ghosts
    <2>3. Call[th] = "idle" /\ Call' = [Call EXCEPT ![th] = "push"]
          /\ Value' = [Value EXCEPT ![th] = v]
      BY <1>5, <1>6, <2>2
    <2>4. Fifo!BeginPush(th, v)
      BY <2>2, <2>3 DEF Fifo!BeginPush, Call, Value
    <2> QED BY <1>2, <2>4 DEF Fifo!Next
  <1>9. CASE PopCall(th)
    <2>1. /\ CallOf(pc[th]) = "idle" /\ CallOf(pc'[th]) = "pop" /\ pc'[th] = "pop_h"
          /\ item'[th] = NoItem /\ UNCHANGED <<pushed, popped>>
      BY <1>2, <1>9, CallOfPc DEF PopCall, Goto, TypeOK, PopPc, ghosts
    <2>2. Fifo!BeginPop(th)
      BY <1>5, <1>6, <2>1 DEF Fifo!BeginPop, Call, Value
    <2> QED BY <1>2, <2>2 DEF Fifo!Next
  <1>10. CASE PushReadTail(th) \/ PushReadHead(th) \/ PushLoad(th) \/ PushRecheck(th)
              \/ PushTestFull(th) \/ PushFullSlot(th) \/ PushHelpHead(th) \/ PushReread(th)
              \/ PushHelpTail(th)
    <2>1. /\ pc[th] \in PushPc /\ pc'[th] \in PushPc
          /\ UNCHANGED <<pushed, popped, item>>
      BY <1>2, <1>10 DEF PushReadTail, PushReadHead, PushLoad, PushRecheck, PushTestFull,
           PushFullSlot, PushHelpHead, PushReread, PushHelpTail, Load, Goto, TypeOK, PushPc,
           locals, ghosts
    <2>2. CallOf(pc'[th]) = CallOf(pc[th]) /\ pc[th] # "pop_advance" /\ pc'[th] # "pop_advance"
      BY <2>1, CallOfPc DEF PushPc
    <2> QED BY <1>2, <1>4, <2>1, <2>2, InternalStep
  <1>11. CASE PopReadTail(th) \/ PopReadHead(th) \/ PopLoad(th) \/ PopRecheck(th)
              \/ PopTestEmpty(th) \/ PopEmptySlot(th) \/ PopHelpHead(th) \/ PopReread(th)
              \/ PopHelpTail(th)
    <2>1. /\ pc[th] \in PopPc /\ pc'[th] \in PopPc
          /\ UNCHANGED <<pushed, popped, item>>
      BY <1>2, <1>11 DEF PopReadTail, PopReadHead, PopLoad, PopRecheck, PopTestEmpty,
           PopEmptySlot, PopHelpHead, PopReread, PopHelpTail, Load, Goto, TypeOK, PopPc,
           locals, ghosts
    <2>2. CallOf(pc'[th]) = CallOf(pc[th]) /\ pc[th] # "pop_advance" /\ pc'[th] # "pop_advance"
      BY <2>1, CallOfPc DEF PopPc
    <2> QED BY <1>2, <1>4, <2>1, <2>2, InternalStep
  <1>12. CASE PushFullHead(th)
    <2>1. /\ pc[th] = "push_fullhead" /\ UNCHANGED <<pushed, popped, item>>
          /\ pc'[th] = IF lh[th] = head THEN "idle" ELSE "push_helphead"
      BY <1>2, <1>12 DEF PushFullHead, Goto, TypeOK, locals, ghosts
    <2>2. CASE lh[th] = head
      <3>1. seen[th]
        BY <1>2, <2>1, <2>2 DEF Locals, PushLocal
      <3>2. CallOf(pc[th]) = "push" /\ CallOf(pc'[th]) = "idle"
        BY <2>1, <2>2, CallOfPc DEF PushPc
      <3>3. Value' = Value
        BY <1>5, <1>6, <2>1, <2>2 DEF Value
      <3> QED BY <1>7, <2>1, <3>1, <3>2, <3>3
    <2>3. CASE lh[th] # head
      BY <1>2, <1>4, <2>1, <2>3, CallOfPc, InternalStep DEF PushPc
    <2> QED BY <2>2, <2>3
  <1>13. CASE PopEmptyTail(th)
    <2>1. /\ pc[th] = "pop_emptytail" /\ UNCHANGED <<pushed, popped, item>>
          /\ pc'[th] = IF lt[th] = tail THEN "idle" ELSE "pop_helptail"
      BY <1>2, <1>13 DEF PopEmptyTail, Goto, TypeOK, locals, ghosts
    <2>2. CASE lt[th] = tail
      <3>1. seen[th]
        BY <1>2, <2>1, <2>2 DEF Locals, PopLocal
      <3>2. CallOf(pc[th]) = "pop" /\ CallOf(pc'[th]) = "idle"
        BY <2>1, <2>2, CallOfPc DEF PopPc
      <3>3. Value' = Value
        BY <1>5, <1>6, <2>1, <2>2 DEF Value
      <3> QED BY <1>7, <2>1, <3>1, <3>2, <3>3
    <2>3. CASE lt[th] # tail
      BY <1>2, <1>4, <2>1, <2>3, CallOfPc, InternalStep DEF PopPc
    <2> QED BY <2>2, <2>3
  <1>14. CASE PushAdvance(th) \/ PopAdvance(th)
    <2>1. /\ pc[th] \in {"push_advance", "pop_advance"} /\ pc'[th] = "idle"
          /\ UNCHANGED <<pushed, popped>>
          /\ item'[th] = IF pc[th] = "pop_advance" THEN la[th].item ELSE item[th]
      BY <1>2, <1>14 DEF PushAdvance, PopAdvance, Goto, TypeOK, locals, ghosts
    <2>2. CallOf(pc[th]) \in {"pushed", "popped"} /\ CallOf(pc'[th]) = "idle"
      BY <2>1, CallOfPc
    <2>3. Value' = Value
      BY <1>5, <1>6, <2>1 DEF Value
    <2> QED BY <1>7, <2>1, <2>2, <2>3
  <1>15. CASE PushCas(th)
    <2>1. CASE slots[SlotOf(lt[th])] # la[th]
      <3>1. /\ pc[th] = "push_cas" /\ pc'[th] = "push_t" /\ UNCHANGED <<pushed, popped, item>>
        BY <1>2, <1>15, <2>1 DEF PushCas, Goto, TypeOK, locals, ghosts
      <3> QED BY <1>2, <1>4, <3>1, CallOfPc, InternalStep DEF PushPc
    <2>2. CASE slots[SlotOf(lt[th])] = la[th]
      <3>1. /\ pc[th] = "push_cas" /\ pc'[th] = "push_advance" /\ UNCHANGED <<popped, item>>
            /\ pushed' = Append(pushed, item[th])
        BY <1>2, <1>15, <2>2 DEF PushCas, Goto, TypeOK, locals
      <3>2. lt[th] = tail /\ tail < head + Size /\ Empty(tail)
        BY <1>2, <2>2, <3>1 DEF Locals, PushLocal, Current, Empty
      <3>3. Len(pushed) = tail /\ Len(popped) >= head /\ Len(popped) \in Nat
        BY <1>2, <3>2 DEF Ring, Delivery, TypeOK
      <3>4. Len(pushed) - Len(popped) < Size
        BY <1>2, <3>2, <3>3, LocalTypes
      <3>5. CallOf(pc[th]) = "push" /\ CallOf(pc'[th]) = "pushed"
        BY <3>1, CallOfPc DEF PushPc
      <3>6. Value' = Value /\ Value[th] = item[th]
        BY <1>5, <1>6, <3>1 DEF Value
      <3>7. Fifo!Push(th)
        BY <1>5, <1>6, <3>1, <3>4, <3>5, <3>6 DEF Fifo!Push, Fifo!Count, Call, Value
      <3> QED BY <1>2, <3>7 DEF Fifo!Next
    <2> QED BY <2>1, <2>2
  <1>16. CASE PopCas(th)
    <2>1. CASE slots[SlotOf(lh[th])] # la[th]
      <3>1. /\ pc[th] = "pop_cas" /\ pc'[th] = "pop_h" /\ UNCHANGED <<pushed, popped, item>>
        BY <1>2, <1>16, <2>1 DEF PopCas, Goto, TypeOK, locals, ghosts
      <3> QED BY <1>2, <1>4, <3>1, CallOfPc, InternalStep DEF PopPc
    <2>2. CASE slots[SlotOf(lh[th])] = la[th]
      <3>1. /\ pc[th] = "pop_cas" /\ pc'[th] = "pop_advance" /\ UNCHANGED <<pushed, la, item>>
            /\ popped' = Append(popped, la[th].item)
        BY <1>2, <1>16, <2>2 DEF PopCas, Goto, TypeOK, locals
      <3>2. lh[th] = head /\ head < tail /\ ~Empty(head) /\ slots[SlotOf(head)] = la[th]
        BY <1>2, <2>2, <3>1 DEF Locals, PopLocal, Current, Empty
      <3>3. Len(popped) = head /\ Len(pushed) >= tail /\ Len(pushed) \in Nat
        BY <1>2, <3>2 DEF Ring, Delivery, TypeOK
      <3>4. head \in head .. tail /\ head < head + Size
        BY <1>2, <3>2, LocalTypes
      <3>5. la[th].item = pushed[Len(popped) + 1]
        BY <1>2, <3>2, <3>3, <3>4 DEF Ring, Delivery
      <3>6. Len(pushed) - Len(popped) > 0
        BY <1>2, <3>2, <3>3, LocalTypes
      <3>7. CallOf(pc[th]) = "pop" /\ CallOf(pc'[th]) = "popped"
        BY <3>1, CallOfPc DEF PopPc
      <3>8. Value' = [Value EXCEPT ![th] = pushed[Len(popped) + 1]]
        BY <1>5, <3>1, <3>5
      <3>9. Fifo!Pop(th)
        BY <1>5, <1>6, <3>1, <3>5, <3>6, <3>7, <3>8 DEF Fifo!Pop, Fifo!Count, Call, Value
      <3> QED BY <1>2, <3>9 DEF Fifo!Next
    <2> QED BY <2>1, <2>2
  <1> QED BY <1>1, <1>8, <1>9, <1>10, <1>11, <1>12, <1>13, <1>14, <1>15, <1>16
          DEF PushStep, PopStep

(* The queue is linearizable: until a counter wraps, every overlapping     *)
(* history of Push and Pop calls, of any number of threads on a ring of    *)
(* any size, is one of the bounded FIFO's (AtomicQueue.h lines 23 and 24). *)
THEOREM QueueLinearizable == Spec /\ []BeforeWrap => Linearizable
  <1>1. Init => Fifo!Init /\ SeenExact
    BY CallOfPc DEF Init, Fifo!Init, SeenExact
  <1>2. Inv /\ SeenExact /\ BeforeWrap /\ [Next]_vars => SeenExact'
    <2>1. Inv /\ Next => SeenExact'
      BY ObserveExact DEF Inv, Next
    <2>2. SeenExact /\ UNCHANGED vars => SeenExact'
      BY DEF SeenExact, vars
    <2> QED BY <2>1, <2>2
  <1>3. Inv /\ SeenExact /\ BeforeWrap /\ [Next]_vars => [Fifo!Next]_(Fifo!vars)
    <2>1. UNCHANGED vars => UNCHANGED Fifo!vars
      BY DEF vars, Fifo!vars
    <2> QED BY <2>1, FifoStep
  <1> QED BY <1>1, <1>2, <1>3, QueueInvariant, PTL DEF Spec, Linearizable, Fifo!Spec
=============================================================================
