------------------------ MODULE RenderPipelineProofs ------------------------
(***************************************************************************)
(* The properties of a frame, proved for every scene, number of render     *)
(* targets, and list of requests.                                          *)
(*                                                                         *)
(* First the requests: what the lists have once they are sorted (Sorted),  *)
(* that the passes drawn from them have each requested object once in each *)
(* pass of its material, and that nothing is left in them (DrawnIsAsked).  *)
(*                                                                         *)
(* Then the chain of render targets, an operator at a time, up to a whole  *)
(* process (NormalIs, DefaultIs, PostIs): what is held of the back buffer, *)
(* and how many references are lost.                                       *)
(*                                                                         *)
(* Then the invariant, which says of every place in the frame what the     *)
(* targets are doing (Using) and whether the back buffer is written to     *)
(* directly (Writing).                                                     *)
(*                                                                         *)
(* Last the image.  For each operator, what it makes of the textures, of   *)
(* what the device draws to, and of the images (the ...Sets lemmas); for a *)
(* process, where it leaves the frame (NormalDraws, NormalWrites,          *)
(* DefaultDraws, PostReads, PostWrites); and from these the invariant      *)
(* Shown, of the scenes that are Plain.                                    *)
(***************************************************************************)
EXTENDS RenderPipeline, FiniteSetTheorems, WellFoundedInduction, SequenceTheorems, TLAPS

(* Induction up to a bound, had from the least number of a set, which the  *)
(* library proves to exist.                                                *)
LEMMA Least ==
  ASSUME NEW T, T \subseteq Nat, T # {}
  PROVE  \E x \in T : \A y \in T : x <= y
<1> DEFINE Less == OpToRel(<, Nat)
<1>1. IsWellFoundedOn(Less, Nat)  BY NatLessThanWellFounded
<1>2. \A x, y \in Nat : <<x, y>> \in Less <=> x < y  BY DEF OpToRel
<1> HIDE DEF Less
<1>3. PICK x \in T : \A y \in T : <<y, x>> \notin Less  BY <1>1, WFMin
<1>4. \A y \in T : x \in Nat /\ y \in Nat /\ ~ (y < x)  BY <1>2, <1>3
<1>5. QED  BY <1>4

(* Induction, from the least number that is not in the set.                *)
LEMMA UpTo ==
  ASSUME NEW n \in Nat, NEW S, 0 \in S, \A k \in 1 .. n : k - 1 \in S => k \in S
  PROVE  \A k \in 0 .. n : k \in S
<1> DEFINE T == (0 .. n) \ S
<1>1. SUFFICES ASSUME T # {} PROVE FALSE  OBVIOUS
<1>0. T \subseteq Nat  OBVIOUS
<1>2. PICK x \in T : \A y \in T : x <= y
  <2> HIDE DEF T
  <2>1. QED  BY <1>0, <1>1, Least
<1>3. x \in 1 .. n /\ x - 1 \in 0 .. n /\ ~ (x <= x - 1)  BY <1>2
<1>4. x - 1 \notin T  BY <1>2, <1>3
<1>5. QED  BY <1>2, <1>3, <1>4

(* A function defined by recursion on a number, value after value, exists: *)
(* it is extended by one value at a time.                                  *)
LEMMA StepByStep ==
  ASSUME NEW S, NEW first \in S, NEW n \in Nat, NEW Op \in [1 .. n -> [S -> S]]
  PROVE  \E f \in [0 .. n -> S] : f[0] = first /\ \A k \in 1 .. n : f[k] = Op[k][f[k - 1]]
<1> DEFINE Is(f, m) == f[0] = first /\ \A k \in 1 .. m : f[k] = Op[k][f[k - 1]]
           T == {m \in 0 .. n : \E f \in [0 .. m -> S] : Is(f, m)}
<1>1. 0 \in T
  <2>1. [k \in 0 .. 0 |-> first] \in [0 .. 0 -> S] /\ Is([k \in 0 .. 0 |-> first], 0)  OBVIOUS
  <2>2. 0 \in 0 .. n  OBVIOUS
  <2> HIDE DEF Is
  <2>3. QED  BY <2>1, <2>2
<1>2. ASSUME NEW m \in 1 .. n, m - 1 \in T PROVE m \in T
  <2>1. PICK f \in [0 .. m - 1 -> S] : Is(f, m - 1)  BY <1>2
  <2> DEFINE next == Op[m][f[m - 1]]
             h == [k \in 0 .. m |-> IF k = m THEN next ELSE f[k]]
  <2>2. m - 1 \in 0 .. m - 1 /\ m \in 0 .. m /\ \A k \in 0 .. m : k # m => k \in 0 .. m - 1  OBVIOUS
  <2>3. next \in S  BY <2>2
  <2> HIDE DEF next
  <2>4. h \in [0 .. m -> S]  BY <2>2, <2>3
  <2>5. h[m] = next /\ \A k \in 0 .. m - 1 : h[k] = f[k]  BY <2>2
  <2> HIDE DEF h
  <2>6. Is(h, m)
    <3>1. h[0] = first  BY <2>1, <2>5, 0 \in 0 .. m - 1
    <3>2. ASSUME NEW k \in 1 .. m PROVE h[k] = Op[k][h[k - 1]]
      <4>1. k - 1 \in 0 .. m - 1 /\ h[k - 1] = f[k - 1]  BY <2>5
      <4>2. CASE k = m  BY <2>5, <4>1, <4>2 DEF next
      <4>3. CASE k # m
        <5>1. k \in 1 .. m - 1 /\ k \in 0 .. m - 1  BY <4>3
        <5>2. QED  BY <2>1, <2>5, <4>1, <5>1
      <4>4. QED  BY <4>2, <4>3
    <3>3. QED  BY <3>1, <3>2
  <2> HIDE DEF Is
  <2>7. m \in 0 .. n  OBVIOUS
  <2>8. QED  BY <2>4, <2>6, <2>7
<1>3. n \in T
  <2> HIDE DEF T
  <2>1. n \in 0 .. n  OBVIOUS
  <2>2. QED  BY <1>1, <1>2, <2>1, UpTo
<1>4. QED  BY <1>3

-----------------------------------------------------------------------------
(* Lists without repetition.                                               *)
Elements(s) == {s[i] : i \in 1 .. Len(s)}
Lists(S) == {s \in Seq(S) : \A i, j \in 1 .. Len(s) : s[i] = s[j] => i = j}

(* The list of nothing.                                                    *)
LEMMA EmptyList ==
  ASSUME NEW S
  PROVE  <<>> \in Lists(S) /\ Elements(<<>>) = {}
<1>1. Len(<<>>) = 0 /\ <<>> \in Seq(S)  OBVIOUS
<1>2. 1 .. 0 = {}  OBVIOUS
<1>3. QED  BY <1>1, <1>2 DEF Lists, Elements

(* What Contains looks for.                                                *)
LEMMA ContainsIs ==
  ASSUME NEW s, NEW x
  PROVE  Contains(s, x) <=> x \in Elements(s)
BY DEF Contains, Elements

(* A list takes what it does not have.                                     *)
LEMMA PushNewIs ==
  ASSUME NEW S, NEW s \in Lists(S), NEW x \in S
  PROVE  PushNew(s, x) \in Lists(S) /\ Elements(PushNew(s, x)) = Elements(s) \cup {x}
<1>1. CASE x \in Elements(s)
  <2>1. PushNew(s, x) = s  BY <1>1, ContainsIs DEF PushNew
  <2>2. QED  BY <1>1, <2>1
<1>2. CASE x \notin Elements(s)
  <2>1. PushNew(s, x) = Append(s, x)  BY <1>2, ContainsIs DEF PushNew
  <2> DEFINE t == Append(s, x)
  <2>2. s \in Seq(S) /\ Len(s) \in Nat  BY DEF Lists
  <2>3. /\ t \in Seq(S) /\ Len(t) = Len(s) + 1 /\ t[Len(s) + 1] = x
        /\ \A i \in 1 .. Len(s) : t[i] = s[i]
    BY <2>2
  <2> HIDE DEF t
  <2>4. \A i \in 1 .. Len(t) : i \in 1 .. Len(s) \/ i = Len(s) + 1  BY <2>2, <2>3
  <2>5. \A i \in 1 .. Len(s) : s[i] # x /\ i \in 1 .. Len(t)  BY <1>2, <2>2, <2>3 DEF Elements
  <2>6. t \in Lists(S)
    <3>1. ASSUME NEW i \in 1 .. Len(t), NEW j \in 1 .. Len(t), t[i] = t[j] PROVE i = j
      <4>1. CASE i \in 1 .. Len(s) /\ j \in 1 .. Len(s)  BY <2>3, <3>1, <4>1 DEF Lists
      <4>2. CASE i \in 1 .. Len(s) /\ j = Len(s) + 1  BY <2>3, <2>5, <3>1, <4>2
      <4>3. CASE i = Len(s) + 1 /\ j \in 1 .. Len(s)  BY <2>3, <2>5, <3>1, <4>3
      <4>4. QED  BY <2>4, <4>1, <4>2, <4>3
    <3>2. QED  BY <2>3, <3>1 DEF Lists
  <2>7. Elements(t) = Elements(s) \cup {x}
    <3>1. ASSUME NEW y \in Elements(t) PROVE y \in Elements(s) \cup {x}
      <4>1. PICK i \in 1 .. Len(t) : y = t[i]  BY DEF Elements
      <4>2. QED  BY <2>3, <2>4, <4>1 DEF Elements
    <3>2. ASSUME NEW y \in Elements(s) PROVE y \in Elements(t)
      <4>1. PICK i \in 1 .. Len(s) : y = s[i]  BY DEF Elements
      <4>2. QED  BY <2>3, <2>5, <4>1 DEF Elements
    <3>3. x \in Elements(t)
      <4>1. Len(s) + 1 \in 1 .. Len(t)  BY <2>2, <2>3
      <4>2. QED  BY <2>3, <4>1 DEF Elements
    <3>4. QED  BY <3>1, <3>2, <3>3
  <2>8. QED  BY <2>1, <2>6, <2>7 DEF t
<1>3. QED  BY <1>1, <1>2

-----------------------------------------------------------------------------
(* The requests.                                                           *)

(* RenderRequests lists the objects that were requested.                   *)
LEMMA RequestsListed ==
  ASSUME NEW requests \in Seq(Objects)
  PROVE  \E list \in Lists(Objects) :
           /\ RenderRequests(NoLists, requests) = [NoLists EXCEPT !.stage = list]
           /\ Elements(list) = Elements(requests)
<1> DEFINE n == Len(requests)
           Is(f) == f = [k \in 0 .. n |-> IF k = 0 THEN <<>> ELSE PushNew(f[k - 1], requests[k])]
           F == CHOOSE f : Is(f)
<1>1. n \in Nat /\ \A k \in 1 .. n : requests[k] \in Objects  OBVIOUS
<1>2. \E f : Is(f)
  <2> DEFINE Op == [k \in 1 .. n |-> [a \in Lists(Objects) |-> PushNew(a, requests[k])]]
  <2>1. Op \in [1 .. n -> [Lists(Objects) -> Lists(Objects)]]
    <3>1. \A a \in Lists(Objects), k \in 1 .. n : PushNew(a, requests[k]) \in Lists(Objects)
      BY <1>1, PushNewIs
    <3>2. QED  BY <3>1
  <2>2. \A a \in Lists(Objects), k \in 1 .. n : Op[k][a] = PushNew(a, requests[k])  OBVIOUS
  <2> HIDE DEF Op, n
  <2>3. PICK f \in [0 .. n -> Lists(Objects)] :
          f[0] = <<>> /\ \A k \in 1 .. n : f[k] = Op[k][f[k - 1]]
    <3> DEFINE L == Lists(Objects)
               e == <<>>
    <3>1. e \in L  BY EmptyList
    <3>2. Op \in [1 .. n -> [L -> L]]  BY <2>1
    <3>3. n \in Nat  BY <1>1
    <3> HIDE DEF L, e
    <3>4. \E f \in [0 .. n -> L] : f[0] = e /\ \A k \in 1 .. n : f[k] = Op[k][f[k - 1]]
      BY <3>1, <3>2, <3>3, StepByStep
    <3>5. QED  BY <3>4 DEF L, e
  <2>4. \A k \in 0 .. n : k # 0 => k \in 1 .. n /\ k - 1 \in 0 .. n /\ f[k - 1] \in Lists(Objects)
    BY <1>1
  <2>5. \A k \in 0 .. n : f[k] = IF k = 0 THEN <<>> ELSE PushNew(f[k - 1], requests[k])
    BY <2>2, <2>3, <2>4
  <2>6. Is(f)  BY <2>5
  <2>7. QED  BY <2>6
<1>3. Is(F)  BY <1>2
<1>4. F[0] = <<>> /\ \A k \in 1 .. n : F[k] = PushNew(F[k - 1], requests[k])
  <2> DEFINE G == [k \in 0 .. n |-> IF k = 0 THEN <<>> ELSE PushNew(F[k - 1], requests[k])]
  <2>1. F = G  BY <1>3
  <2>2. G[0] = <<>> /\ \A k \in 1 .. n : G[k] = PushNew(F[k - 1], requests[k])
    <3> HIDE DEF F, n
    <3>1. QED  BY <1>1
  <2> HIDE DEF F, G, n
  <2>3. QED  BY <2>1, <2>2
<1>5. RenderRequests(NoLists, requests) = [NoLists EXCEPT !.stage = F[n]]
  BY DEF RenderRequests, NoLists
<1> HIDE DEF F, n
<1> DEFINE S == {k \in 0 .. n : F[k] \in Lists(Objects) /\ Elements(F[k]) = {requests[i] : i \in 1 .. k}}
<1>6. n \in S
  <2>1. 0 \in S
    <3>1. {requests[i] : i \in 1 .. 0} = {}  OBVIOUS
    <3>2. QED  BY <1>1, <1>4, <3>1, EmptyList
  <2>2. ASSUME NEW k \in 1 .. n, k - 1 \in S PROVE k \in S
    <3>1. {requests[i] : i \in 1 .. k} = {requests[i] : i \in 1 .. k - 1} \cup {requests[k]}
      <4>1. 1 .. k = (1 .. k - 1) \cup {k}  OBVIOUS
      <4>2. QED  BY <4>1
    <3>2. k \in 0 .. n  OBVIOUS
    <3>3. F[k - 1] \in Lists(Objects) /\ requests[k] \in Objects  BY <1>1, <2>2
    <3>4. /\ PushNew(F[k - 1], requests[k]) \in Lists(Objects)
          /\ Elements(PushNew(F[k - 1], requests[k])) = Elements(F[k - 1]) \cup {requests[k]}
      BY <3>3, PushNewIs
    <3>5. QED  BY <1>4, <2>2, <3>1, <3>2, <3>4
  <2> HIDE DEF S
  <2>3. n \in 0 .. n  BY <1>1
  <2>4. QED  BY <1>1, <2>1, <2>2, <2>3, UpTo
<1>7. Elements(F[n]) = Elements(requests)  BY <1>6 DEF Elements, n
<1>8. QED  BY <1>5, <1>6, <1>7

-----------------------------------------------------------------------------
(* The requests.  The lists of the stage, the effects and the materials.   *)
Wrappers == [stage : Lists(Objects), effects : Lists(Effects),
             materials : [Effects -> Lists(Materials)], objects : [Materials -> Lists(Objects)]]

(* What the lists have once the objects X are sorted: each effect,         *)
(* material and object once, an object under its material, a material      *)
(* under its effect.                                                       *)
Sorted(l, X) ==
  /\ l \in Wrappers
  /\ \A e \in Effects : e \in Elements(l.effects) <=> \E o \in X : Effect[Material[o]] = e
  /\ \A e \in Effects, m \in Materials :
       m \in Elements(l.materials[e]) <=> Effect[m] = e /\ \E o \in X : Material[o] = m
  /\ \A m \in Materials, o \in Objects : o \in Elements(l.objects[m]) <=> Material[o] = m /\ o \in X

(* What a list of some set has is in it.                                   *)
LEMMA ListedIn ==
  ASSUME NEW S, NEW s \in Lists(S)
  PROVE  Elements(s) \subseteq S
BY DEF Elements, Lists

(* One list has what another has and one element more, or the same if that *)
(* is in it already.                                                       *)
Grown(t, s, x) == Elements(t) = Elements(s) \cup {x}

(* What one object adds to the lists.                                      *)
LEMMA SortAdds ==
  ASSUME NEW l \in Wrappers, NEW o \in Objects, NEW m, m = Material[o], NEW e, e = Effect[m],
         NEW r, r = Sort(l, o)
  PROVE  /\ r \in Wrappers /\ r.stage = l.stage /\ m \in Materials /\ e \in Effects
         /\ Grown(r.effects, l.effects, e)
         /\ Grown(r.materials[e], l.materials[e], m)
         /\ Grown(r.objects[m], l.objects[m], o)
         /\ \A f \in Effects : f # e => r.materials[f] = l.materials[f]
         /\ \A n \in Materials : n # m => r.objects[n] = l.objects[n]
<1>1. m \in Materials /\ e \in Effects  BY DEF Materials, Effects
<1>2. /\ l.effects \in Lists(Effects) /\ l.materials \in [Effects -> Lists(Materials)]
      /\ l.objects \in [Materials -> Lists(Objects)] /\ l.stage \in Lists(Objects)
  BY DEF Wrappers
<1>3. r = [l EXCEPT !.effects = PushNew(@, e), !.materials[e] = PushNew(@, m), !.objects[m] = PushNew(@, o)]
  BY DEF Sort
<1>4. /\ r.effects = PushNew(l.effects, e)
      /\ r.materials = [l.materials EXCEPT ![e] = PushNew(@, m)]
      /\ r.objects = [l.objects EXCEPT ![m] = PushNew(@, o)]
      /\ r.stage = l.stage
      /\ r = [stage |-> r.stage, effects |-> r.effects, materials |-> r.materials, objects |-> r.objects]
  BY <1>2, <1>3 DEF Wrappers
<1>5. /\ PushNew(l.effects, e) \in Lists(Effects)
      /\ Elements(PushNew(l.effects, e)) = Elements(l.effects) \cup {e}
  BY <1>1, <1>2, PushNewIs
<1>6. /\ PushNew(l.materials[e], m) \in Lists(Materials)
      /\ Elements(PushNew(l.materials[e], m)) = Elements(l.materials[e]) \cup {m}
  BY <1>1, <1>2, PushNewIs
<1>7. /\ PushNew(l.objects[m], o) \in Lists(Objects)
      /\ Elements(PushNew(l.objects[m], o)) = Elements(l.objects[m]) \cup {o}
  BY <1>1, <1>2, PushNewIs
<1>8. r \in Wrappers
  <2>1. r.materials \in [Effects -> Lists(Materials)]  BY <1>1, <1>2, <1>4, <1>6
  <2>2. r.objects \in [Materials -> Lists(Objects)]  BY <1>1, <1>2, <1>4, <1>7
  <2>3. r.effects \in Lists(Effects) /\ r.stage \in Lists(Objects)  BY <1>2, <1>4, <1>5
  <2>4. QED  BY <1>4, <2>1, <2>2, <2>3 DEF Wrappers
<1>9. \A f \in Effects : r.materials[f] = IF f = e THEN PushNew(l.materials[e], m) ELSE l.materials[f]
  BY <1>1, <1>2, <1>4
<1>10. \A n \in Materials : r.objects[n] = IF n = m THEN PushNew(l.objects[m], o) ELSE l.objects[n]
  BY <1>1, <1>2, <1>4
<1>11. QED  BY <1>1, <1>4, <1>5, <1>6, <1>7, <1>8, <1>9, <1>10 DEF Grown

(* Sort adds one object to what is sorted.                                 *)
LEMMA SortIs ==
  ASSUME NEW X, NEW l, Sorted(l, X), NEW o \in Objects
  PROVE  Sorted(Sort(l, o), X \cup {o}) /\ Sort(l, o).stage = l.stage
<1> DEFINE m == Material[o]
           e == Effect[m]
           r == Sort(l, o)
<1>1. l \in Wrappers /\ m = Material[o] /\ e = Effect[m] /\ r = Sort(l, o)  BY DEF Sorted
<1> HIDE DEF m, e, r
<1>2. /\ r \in Wrappers /\ r.stage = l.stage /\ m \in Materials /\ e \in Effects
      /\ Grown(r.effects, l.effects, e)
      /\ Grown(r.materials[e], l.materials[e], m)
      /\ Grown(r.objects[m], l.objects[m], o)
      /\ \A f \in Effects : f # e => r.materials[f] = l.materials[f]
      /\ \A n \in Materials : n # m => r.objects[n] = l.objects[n]
  <2>1. r \in Wrappers /\ r.stage = l.stage /\ m \in Materials /\ e \in Effects  BY <1>1, SortAdds
  <2>2. Grown(r.effects, l.effects, e)  BY <1>1, SortAdds
  <2>3. Grown(r.materials[e], l.materials[e], m)  BY <1>1, SortAdds
  <2>4. Grown(r.objects[m], l.objects[m], o)  BY <1>1, SortAdds
  <2>5. /\ \A f \in Effects : f # e => r.materials[f] = l.materials[f]
        /\ \A n \in Materials : n # m => r.objects[n] = l.objects[n]
    BY <1>1, SortAdds
  <2>6. QED  BY <2>1, <2>2, <2>3, <2>4, <2>5
<1>3. ASSUME NEW f \in Effects
      PROVE  f \in Elements(r.effects) <=> \E x \in X \cup {o} : Effect[Material[x]] = f
  <2>1. f \in Elements(l.effects) <=> \E x \in X : Effect[Material[x]] = f  BY DEF Sorted
  <2>2. f \in Elements(r.effects) <=> f \in Elements(l.effects) \/ f = e  BY <1>2 DEF Grown
  <2>3. QED  BY <2>1, <2>2 DEF e, m
<1>4. ASSUME NEW f \in Effects, NEW n \in Materials
      PROVE  n \in Elements(r.materials[f]) <=> Effect[n] = f /\ \E x \in X \cup {o} : Material[x] = n
  <2>1. n \in Elements(l.materials[f]) <=> Effect[n] = f /\ \E x \in X : Material[x] = n  BY DEF Sorted
  <2>2. n \in Elements(r.materials[f]) <=> n \in Elements(l.materials[f]) \/ (f = e /\ n = m)  BY <1>2 DEF Grown
  <2>3. QED  BY <2>1, <2>2 DEF e, m
<1>5. ASSUME NEW n \in Materials, NEW x \in Objects
      PROVE  x \in Elements(r.objects[n]) <=> Material[x] = n /\ x \in X \cup {o}
  <2>1. x \in Elements(l.objects[n]) <=> Material[x] = n /\ x \in X  BY DEF Sorted
  <2>2. x \in Elements(r.objects[n]) <=> x \in Elements(l.objects[n]) \/ (n = m /\ x = o)  BY <1>2 DEF Grown
  <2>3. QED  BY <2>1, <2>2 DEF m
<1>6. Sorted(r, X \cup {o})  BY <1>2, <1>3, <1>4, <1>5 DEF Sorted
<1>7. QED  BY <1>2, <1>6 DEF r

(* The lists when some objects are requested and nothing is sorted.        *)
Requested(list) == [NoLists EXCEPT !.stage = list]

(* What is asked of the stage alone is not sorted yet.                     *)
LEMMA NothingSorted ==
  ASSUME NEW list \in Lists(Objects), NEW l, l = Requested(list)
  PROVE  Sorted(l, {}) /\ l.stage = list
<1> DEFINE none == <<>>
<1>1. /\ none \in Lists(Effects) /\ none \in Lists(Materials) /\ none \in Lists(Objects)
      /\ Elements(none) = {}
  BY EmptyList
<1>2. l = [stage |-> list, effects |-> none, materials |-> [e \in Effects |-> none], objects |-> [m \in Materials |-> none]]
  BY DEF Requested, NoLists
<1> HIDE DEF none
<1>3. l \in Wrappers
  <2> DEFINE ms == [e \in Effects |-> none]
             os == [m \in Materials |-> none]
  <2>1. ms \in [Effects -> Lists(Materials)] /\ os \in [Materials -> Lists(Objects)]  BY <1>1
  <2>2. l = [stage |-> list, effects |-> none, materials |-> ms, objects |-> os]  BY <1>2
  <2> HIDE DEF ms, os
  <2>3. QED  BY <1>1, <2>1, <2>2 DEF Wrappers
<1>4. /\ l.stage = list /\ l.effects = none /\ \A e \in Effects : l.materials[e] = none
      /\ \A m \in Materials : l.objects[m] = none
  BY <1>2
<1>5. QED  BY <1>1, <1>3, <1>4 DEF Sorted

(* SortAll sorts all of the stage's list.                                  *)
LEMMA AllSorted ==
  ASSUME NEW list \in Lists(Objects), NEW l, l = Requested(list)
  PROVE  Sorted(SortAll(l), Elements(list)) /\ SortAll(l).stage = <<>>
<1> DEFINE n == Len(list)
           Is(f) == f = [k \in 0 .. n |-> IF k = 0 THEN l ELSE Sort(f[k - 1], list[k])]
           F == CHOOSE f : Is(f)
           upTo(k) == {list[i] : i \in 1 .. k}
<1>1. n \in Nat  BY DEF Lists
<1>2. \A k \in 1 .. n : list[k] \in Objects  BY DEF Lists
<1>3. Sorted(l, {}) /\ l.stage = list  BY NothingSorted
<1>4. upTo(0) = {} /\ \A k \in 1 .. n : upTo(k) = upTo(k - 1) \cup {list[k]}
  <2>1. 1 .. 0 = {}  OBVIOUS
  <2>2. ASSUME NEW k \in 1 .. n PROVE upTo(k) = upTo(k - 1) \cup {list[k]}
    <3>1. 1 .. k = (1 .. k - 1) \cup {k}  BY <1>1
    <3>2. QED  BY <3>1
  <2>3. QED  BY <2>1, <2>2
<1> DEFINE Good(x, k) == Sorted(x, upTo(k)) /\ x.stage = list
<1>0. Good(l, 0)  BY <1>3, <1>4
<1>5. ASSUME NEW k \in 1 .. n, NEW x, Good(x, k - 1) PROVE Good(Sort(x, list[k]), k)
  <2>1. /\ Sorted(Sort(x, list[k]), upTo(k - 1) \cup {list[k]})
        /\ Sort(x, list[k]).stage = x.stage
    <3> HIDE DEF upTo
    <3>1. list[k] \in Objects /\ Sorted(x, upTo(k - 1))  BY <1>2, <1>5
    <3> DEFINE Y == upTo(k - 1)
               y == list[k]
    <3> HIDE DEF Y, y
    <3>2. y \in Objects /\ Sorted(x, Y)  BY <3>1 DEF Y, y
    <3>3. Sorted(Sort(x, y), Y \cup {y}) /\ Sort(x, y).stage = x.stage  BY <3>2, SortIs
    <3>4. QED  BY <3>3 DEF Y, y
  <2>2. QED  BY <1>4, <1>5, <2>1
<1> HIDE DEF Good
<1>6. \E f : Is(f)
  <2> DEFINE Op == [k \in 1 .. n |-> [a \in Wrappers |-> Sort(a, list[k])]]
  <2>1. Op \in [1 .. n -> [Wrappers -> Wrappers]]
    <3>1. \A a \in Wrappers, k \in 1 .. n : Sort(a, list[k]) \in Wrappers  BY <1>2, SortAdds
    <3>2. QED  BY <3>1
  <2>2. \A a \in Wrappers, k \in 1 .. n : Op[k][a] = Sort(a, list[k])  OBVIOUS
  <2>3. l \in Wrappers  BY <1>3 DEF Sorted
  <2> HIDE DEF Op, n
  <2> DEFINE W == Wrappers
             first == l
  <2>a. Op \in [1 .. n -> [W -> W]] /\ first \in W /\ n \in Nat  BY <1>1, <2>1, <2>3
  <2> HIDE DEF W, first
  <2>b. \E f \in [0 .. n -> W] : f[0] = first /\ \A k \in 1 .. n : f[k] = Op[k][f[k - 1]]
    BY <2>a, StepByStep, SMTT(30)
  <2>4. PICK f \in [0 .. n -> Wrappers] : f[0] = l /\ \A k \in 1 .. n : f[k] = Op[k][f[k - 1]]
    BY <2>b DEF W, first
  <2>5. \A k \in 0 .. n : k # 0 => k \in 1 .. n /\ f[k - 1] \in Wrappers  BY <1>1
  <2>6. \A k \in 0 .. n : f[k] = IF k = 0 THEN l ELSE Sort(f[k - 1], list[k])
    BY <2>2, <2>4, <2>5
  <2>7. Is(f)  BY <2>4, <2>6
  <2>8. QED  BY <2>7
<1>7. Is(F)  BY <1>6
<1>8. F[0] = l /\ \A k \in 1 .. n : F[k] = Sort(F[k - 1], list[k])
  <2> DEFINE G == [k \in 0 .. n |-> IF k = 0 THEN l ELSE Sort(F[k - 1], list[k])]
  <2>1. F = G  BY <1>7
  <2>2. G[0] = l /\ \A k \in 1 .. n : G[k] = Sort(F[k - 1], list[k])
    <3> HIDE DEF F, n
    <3>1. QED  BY <1>1
  <2> HIDE DEF F, G, n
  <2>3. QED  BY <2>1, <2>2
<1>9. SortAll(l) = [F[n] EXCEPT !.stage = <<>>]
  BY <1>3 DEF SortAll
<1> HIDE DEF F, n
<1> DEFINE S == {k \in 0 .. n : Good(F[k], k)}
<1>10. n \in S
  <2>1. 0 \in S  BY <1>0, <1>1, <1>8
  <2>2. \A k \in 1 .. n : k - 1 \in S => k \in S  BY <1>5, <1>8
  <2> HIDE DEF S
  <2>3. n \in 0 .. n  BY <1>1
  <2>4. QED  BY <1>1, <2>1, <2>2, <2>3, UpTo
<1>11. Sorted(F[n], Elements(list)) 
  <2>1. upTo(n) = Elements(list)  BY DEF Elements, n
  <2>2. QED  BY <1>10, <2>1 DEF Good
<1> DEFINE none == <<>>
           x == F[n]
           r == [x EXCEPT !.stage = none]
<1>12. none \in Lists(Objects)  BY EmptyList
<1> HIDE DEF none, x
<1>13. Sorted(x, Elements(list))  BY <1>11 DEF x
<1>14. /\ r.stage = none /\ r.effects = x.effects /\ r.materials = x.materials /\ r.objects = x.objects
       /\ r \in Wrappers
  <2>1. x \in Wrappers  BY <1>13 DEF Sorted
  <2>2. QED  BY <1>12, <2>1 DEF Wrappers
<1>15. Sorted(r, Elements(list))  BY <1>13, <1>14 DEF Sorted
<1>16. QED  BY <1>9, <1>14, <1>15 DEF none, x

(* All the lists that have something are drawn, and so cleared.            *)
LEMMA ClearedIs ==
  ASSUME NEW l, NEW X, X \subseteq Objects, Sorted(l, X), l.stage = <<>>
  PROVE  Cleared(l) = NoLists
<1>1. ASSUME NEW S, NEW s \in Lists(S), Elements(s) = {} PROVE s = <<>>
  <2>1. Len(s) \in Nat /\ s \in Seq(S)  BY DEF Lists
  <2>2. Len(s) = 0
    <3>1. SUFFICES ASSUME Len(s) # 0 PROVE FALSE  OBVIOUS
    <3>2. 1 \in 1 .. Len(s)  BY <2>1, <3>1
    <3>3. QED  BY <1>1, <3>2 DEF Elements
  <2>3. QED  BY <2>1, <2>2
<1>2. l \in Wrappers  BY DEF Sorted
<1>3. /\ l.effects \in Lists(Effects) /\ l.materials \in [Effects -> Lists(Materials)]
      /\ l.objects \in [Materials -> Lists(Objects)]
      /\ l = [stage |-> l.stage, effects |-> l.effects, materials |-> l.materials, objects |-> l.objects]
  BY <1>2 DEF Wrappers
<1>4. \A m \in Materials : Effect[m] \in Effects  BY DEF Effects
<1>5. ASSUME NEW e \in Effects, ~ Contains(l.effects, e) PROVE l.materials[e] = <<>>
  <2>1. \A o \in X : Effect[Material[o]] # e  BY <1>5, ContainsIs DEF Sorted
  <2>2. \A m \in Materials : m \notin Elements(l.materials[e])  BY <2>1 DEF Sorted
  <2>3. l.materials[e] \in Lists(Materials)  BY <1>3
  <2>4. Elements(l.materials[e]) \subseteq Materials  BY <2>3, ListedIn
  <2>5. Elements(l.materials[e]) = {}  BY <2>2, <2>4
  <2>6. QED  BY <1>1, <2>3, <2>5
<1>6. ASSUME NEW m \in Materials,
             ~ (Contains(l.effects, Effect[m]) /\ Contains(l.materials[Effect[m]], m))
      PROVE  l.objects[m] = <<>>
  <2>1. \A o \in X : Material[o] # m  BY <1>4, <1>6, ContainsIs DEF Sorted
  <2>2. \A o \in Objects : o \notin Elements(l.objects[m])  BY <2>1 DEF Sorted
  <2>3. l.objects[m] \in Lists(Objects)  BY <1>3
  <2>4. Elements(l.objects[m]) \subseteq Objects  BY <2>3, ListedIn
  <2>5. Elements(l.objects[m]) = {}  BY <2>2, <2>4
  <2>6. QED  BY <1>1, <2>3, <2>5
<1> DEFINE none == <<>>
           mats == [e \in Effects |-> IF Contains(l.effects, e) THEN none ELSE l.materials[e]]
           objs == [m \in Materials |->
              IF Contains(l.effects, Effect[m]) /\ Contains(l.materials[Effect[m]], m) THEN none ELSE l.objects[m]]
<1>7. mats = [e \in Effects |-> none]  BY <1>5
<1>8. objs = [m \in Materials |-> none]  BY <1>6
<1>9. Cleared(l) = [l EXCEPT !.effects = none, !.materials = mats, !.objects = objs]
  BY DEF Cleared
<1> HIDE DEF none, mats, objs
<1>10. Cleared(l) = [stage |-> l.stage, effects |-> none, materials |-> mats, objects |-> objs]
  BY <1>3, <1>9
<1>11. QED  BY <1>7, <1>8, <1>10 DEF NoLists, none

(* FlattenSeq, without its recursion: the sequences up to each of them.    *)
JoinedTo(seqs, n) ==
  CHOOSE g : g = [i \in 1 .. n |-> IF i = 1 THEN seqs[i] ELSE g[i - 1] \o seqs[i]]

(* The sequences joined from the left, as FlattenSeq does, one by one:     *)
(* such a function exists, by induction on their number.                   *)
LEMMA JoinedIs ==
  ASSUME NEW seqs, NEW n \in Nat
  PROVE  JoinedTo(seqs, n) =
           [i \in 1 .. n |-> IF i = 1 THEN seqs[i] ELSE JoinedTo(seqs, n)[i - 1] \o seqs[i]]
<1> DEFINE Is(g, m) == g = [i \in 1 .. m |-> IF i = 1 THEN seqs[i] ELSE g[i - 1] \o seqs[i]]
           S == {m \in Nat : \E g : Is(g, m)}
<1>1. 0 \in S
  <2>1. Is([i \in 1 .. 0 |-> seqs[i]], 0)  OBVIOUS
  <2>2. QED  BY <2>1
<1>2. ASSUME NEW m \in Nat, m \in S PROVE m + 1 \in S
  <2>1. PICK g : Is(g, m)  BY <1>2
  <2> DEFINE h == [i \in 1 .. m + 1 |-> IF i = 1 THEN seqs[i] ELSE g[i - 1] \o seqs[i]]
  <2>2. \A i \in 1 .. m : h[i] = g[i]
    <3> SUFFICES ASSUME NEW i \in 1 .. m PROVE h[i] = g[i]
      OBVIOUS
    <3>1. \A j \in 1 .. m : g[j] = IF j = 1 THEN seqs[j] ELSE g[j - 1] \o seqs[j]
      <4> DEFINE f == [j \in 1 .. m |-> IF j = 1 THEN seqs[j] ELSE g[j - 1] \o seqs[j]]
      <4>1. g = f  BY <2>1
      <4>2. \A j \in 1 .. m : f[j] = IF j = 1 THEN seqs[j] ELSE g[j - 1] \o seqs[j]  OBVIOUS
      <4> HIDE DEF f
      <4>3. QED  BY <4>1, <4>2
    <3>2. h[i] = IF i = 1 THEN seqs[i] ELSE g[i - 1] \o seqs[i]  OBVIOUS
    <3> HIDE DEF h, Is
    <3>3. QED  BY <3>1, <3>2
  <2>3. Is(h, m + 1)
    <3>1. \A i \in 1 .. m + 1 : i # 1 => i - 1 \in 1 .. m /\ h[i - 1] = g[i - 1]
      <4> HIDE DEF h, Is
      <4>1. QED  BY <2>2
    <3> DEFINE e(i) == IF i = 1 THEN seqs[i] ELSE h[i - 1] \o seqs[i]
    <3>2. \A i \in 1 .. m + 1 : h[i] = e(i)
      <4> SUFFICES ASSUME NEW i \in 1 .. m + 1 PROVE h[i] = e(i)
        OBVIOUS
      <4>1. h[i] = IF i = 1 THEN seqs[i] ELSE g[i - 1] \o seqs[i]  OBVIOUS
      <4> HIDE DEF h
      <4>2. QED  BY <3>1, <4>1
    <3>3. h = [i \in 1 .. m + 1 |-> h[i]]  OBVIOUS
    <3> HIDE DEF h
    <3>4. h = [i \in 1 .. m + 1 |-> e(i)]  BY <3>2, <3>3
    <3>5. QED  BY <3>4
  <2> HIDE DEF Is, h
  <2>4. QED  BY <2>3
<1>3. n \in S
  <2> HIDE DEF S
  <2>1. \A m \in 1 .. n : m - 1 \in S => m \in S
    <3>1. ASSUME NEW m \in 1 .. n, m - 1 \in S PROVE m \in S
      <4>1. m - 1 \in Nat /\ (m - 1) + 1 = m  OBVIOUS
      <4>2. (m - 1) + 1 \in S  BY <1>2, <3>1, <4>1
      <4>3. QED  BY <4>1, <4>2
    <3>2. QED  BY <3>1
  <2>2. n \in 0 .. n  OBVIOUS
  <2>3. QED  BY <1>1, <2>1, <2>2, UpTo
<1>4. \E g : Is(g, n)  BY <1>3
<1>5. QED  BY <1>4 DEF JoinedTo

(* FlattenSeq is the last of them.                                         *)
LEMMA FlattenIs ==
  ASSUME NEW seqs, Len(seqs) \in Nat \ {0}
  PROVE  FlattenSeq(seqs) = JoinedTo(seqs, Len(seqs))[Len(seqs)]
BY DEF FlattenSeq, JoinedTo

(* The positions of a sequence that hold an element of P.                  *)
Hits(s, P) == {k \in 1 .. Len(s) : s[k] \in P}

(* Of two sequences put together, when one holds none.                     *)
LEMMA HitsTogether ==
  ASSUME NEW Y, NEW s \in Seq(Y), NEW t \in Seq(Y), NEW P
  PROVE  /\ s \o t \in Seq(Y)
         /\ Hits(t, P) = {} => Hits(s \o t, P) = Hits(s, P)
         /\ Hits(s, P) = {} /\ IsFiniteSet(Hits(t, P)) =>
              /\ IsFiniteSet(Hits(s \o t, P))
              /\ Cardinality(Hits(s \o t, P)) = Cardinality(Hits(t, P))
<1> DEFINE n == Len(s)
           r == s \o t
<1>1. /\ n \in Nat /\ Len(t) \in Nat /\ r \in Seq(Y) /\ Len(r) = n + Len(t)
      /\ \A i \in 1 .. n : r[i] = s[i]
      /\ \A i \in 1 .. Len(t) : r[n + i] = t[i]
  OBVIOUS
<1> HIDE DEF n, r
<1>2. \A k \in 1 .. Len(r) : k \in 1 .. n \/ (k - n \in 1 .. Len(t) /\ n + (k - n) = k)  BY <1>1
<1>3. \A k \in 1 .. n : k \in 1 .. Len(r)  BY <1>1
<1>4. \A k \in 1 .. Len(t) : n + k \in 1 .. Len(r) /\ (n + k) - n = k  BY <1>1
<1>5. n = Len(s)  BY DEF n
<1>6. ASSUME Hits(t, P) = {} PROVE Hits(r, P) = Hits(s, P)
  <2>1. \A k \in 1 .. Len(t) : t[k] \notin P  BY <1>6 DEF Hits
  <2>2. \A k \in 1 .. Len(r) : k \in 1 .. n \/ r[k] \notin P
    <3> SUFFICES ASSUME NEW k \in 1 .. Len(r), k \notin 1 .. n PROVE r[k] \notin P
      OBVIOUS
    <3>1. k - n \in 1 .. Len(t) /\ n + (k - n) = k  BY <1>2
    <3>2. r[n + (k - n)] = t[k - n]  BY <1>1, <3>1
    <3>3. QED  BY <2>1, <3>1, <3>2
  <2>3. QED  BY <1>1, <1>3, <1>5, <2>2 DEF Hits
<1>7. ASSUME Hits(s, P) = {}, IsFiniteSet(Hits(t, P))
      PROVE  IsFiniteSet(Hits(r, P)) /\ Cardinality(Hits(r, P)) = Cardinality(Hits(t, P))
  <2> DEFINE A == Hits(t, P)
             B == Hits(r, P)
             f == [k \in A |-> n + k]
  <2>1. A \subseteq 1 .. Len(t) /\ \A k \in A : t[k] \in P  BY DEF Hits
  <2>2. f \in [A -> B]
    <3>1. \A k \in A : n + k \in B  BY <1>1, <1>4, <2>1 DEF Hits
    <3> HIDE DEF A, B
    <3>2. QED  BY <3>1
  <2>3. \A x, y \in A : f[x] = f[y] => x = y
    <3>1. A \subseteq Nat  BY <2>1
    <3>2. \A x \in A : f[x] = n + x  OBVIOUS
    <3> HIDE DEF A, f
    <3>3. \A x, y \in A : n + x = n + y => x = y  BY <1>1, <3>1
    <3>4. QED  BY <3>2, <3>3
  <2>4. ASSUME NEW y \in B PROVE \E x \in A : f[x] = y
    <3>1. y \in 1 .. Len(r) /\ r[y] \in P  BY DEF Hits
    <3>2. y \notin 1 .. n  BY <1>1, <1>5, <1>7, <3>1 DEF Hits
    <3>3. y - n \in 1 .. Len(t) /\ n + (y - n) = y  BY <1>2, <3>1, <3>2
    <3>4. r[n + (y - n)] = t[y - n]  BY <1>1, <3>3
    <3>5. y - n \in A  BY <3>1, <3>3, <3>4 DEF Hits
    <3>6. f[y - n] = y  BY <3>3, <3>5
    <3>7. QED  BY <3>5, <3>6
  <2>5. IsFiniteSet(A)  BY <1>7
  <2> HIDE DEF A, B, f
  <2>6. f \in Bijection(A, B)  BY <2>2, <2>3, <2>4 DEF Bijection, Injection, Surjection, IsInjective
  <2>7. ExistsBijection(A, B)  BY <2>6 DEF ExistsBijection
  <2>8. IsFiniteSet(B) /\ Cardinality(B) = Cardinality(A)  BY <2>5, <2>7, FS_Bijection
  <2>9. QED  BY <2>8 DEF A, B
<1>8. QED  BY <1>1, <1>6, <1>7 DEF r

(* The elements of sequences put together are theirs.                      *)
LEMMA FlattenIn ==
  ASSUME NEW Y, NEW seqs, NEW n \in Nat, Len(seqs) = n, \A i \in 1 .. n : seqs[i] \in Seq(Y),
         n = 0 => seqs = <<>>
  PROVE  FlattenSeq(seqs) \in Seq(Y)
<1>1. CASE n = 0
  <2>1. FlattenSeq(seqs) = <<>>  BY <1>1 DEF FlattenSeq
  <2>2. QED  BY <2>1
<1>2. CASE n # 0
  <2> DEFINE J == JoinedTo(seqs, n)
             S == {k \in 0 .. n : k # 0 => J[k] \in Seq(Y)}
  <2>1. FlattenSeq(seqs) = J[n]  BY <1>2, FlattenIs
  <2>2. \A i \in 1 .. n : J[i] = IF i = 1 THEN seqs[i] ELSE J[i - 1] \o seqs[i]
    <3> DEFINE G == [i \in 1 .. n |-> IF i = 1 THEN seqs[i] ELSE J[i - 1] \o seqs[i]]
    <3>1. J = G  BY JoinedIs
    <3>2. \A i \in 1 .. n : G[i] = IF i = 1 THEN seqs[i] ELSE J[i - 1] \o seqs[i]
      <4> HIDE DEF J
      <4>1. QED  OBVIOUS
    <3> HIDE DEF G, J
    <3>3. QED  BY <3>1, <3>2
  <2> HIDE DEF J
  <2>3. ASSUME NEW k \in 1 .. n, k - 1 \in S PROVE k \in S
    <3>1. CASE k = 1  BY <2>2, <3>1
    <3>2. CASE k # 1
      <4>1. J[k - 1] \in Seq(Y) /\ seqs[k] \in Seq(Y)  BY <2>3, <3>2
      <4>2. J[k - 1] \o seqs[k] \in Seq(Y)  BY <4>1, HitsTogether
      <4>3. J[k] = J[k - 1] \o seqs[k]  BY <2>2, <3>2
      <4>4. J[k] \in Seq(Y)  BY <4>2, <4>3
      <4>5. QED  BY <4>4
    <3>3. QED  BY <3>1, <3>2
  <2>4. 0 \in S  OBVIOUS
  <2>5. n \in S
    <3> HIDE DEF S
    <3>1. n \in 0 .. n  OBVIOUS
    <3>2. QED  BY <2>3, <2>4, <3>1, UpTo
  <2>6. QED  BY <1>2, <2>1, <2>5
<1>3. QED  BY <1>1, <1>2

(* Of n sequences only the one at h holds elements of P.                   *)
OnlyAt(h, seqs, n, P) ==
  h \in 1 .. n /\ IsFiniteSet(Hits(seqs[h], P)) /\ \A i \in 1 .. n : i # h => Hits(seqs[i], P) = {}
(* n sequences over Y.                                                     *)
SequencesOver(seqs, n, Y) == n \in Nat /\ Len(seqs) = n /\ \A i \in 1 .. n : seqs[i] \in Seq(Y)

(* Then all of them put together hold as many.                             *)
LEMMA FlattenHits ==
  ASSUME NEW Y, NEW seqs, NEW n, SequencesOver(seqs, n, Y), NEW P, NEW h, OnlyAt(h, seqs, n, P)
  PROVE  Cardinality(Hits(FlattenSeq(seqs), P)) = Cardinality(Hits(seqs[h], P))
<1> DEFINE J == JoinedTo(seqs, n)
           c == Cardinality(Hits(seqs[h], P))
           Good(k) == /\ k # 0 => J[k] \in Seq(Y)
                      /\ k # 0 /\ k < h => Hits(J[k], P) = {}
                      /\ k >= h => IsFiniteSet(Hits(J[k], P)) /\ Cardinality(Hits(J[k], P)) = c
           S == {k \in 0 .. n : Good(k)}
<1> n \in Nat /\ Len(seqs) = n /\ \A i \in 1 .. n : seqs[i] \in Seq(Y)  BY DEF SequencesOver
<1>0. /\ h \in 1 .. n /\ IsFiniteSet(Hits(seqs[h], P))
      /\ \A i \in 1 .. n : i # h => Hits(seqs[i], P) = {}
  BY DEF OnlyAt
<1>1. FlattenSeq(seqs) = J[n]  BY <1>0, FlattenIs
<1>2. \A i \in 1 .. n : J[i] = IF i = 1 THEN seqs[i] ELSE J[i - 1] \o seqs[i]
  <2> DEFINE G == [i \in 1 .. n |-> IF i = 1 THEN seqs[i] ELSE J[i - 1] \o seqs[i]]
  <2>1. J = G  BY JoinedIs
  <2>2. \A i \in 1 .. n : G[i] = IF i = 1 THEN seqs[i] ELSE J[i - 1] \o seqs[i]
    <3> HIDE DEF J
    <3>1. QED  OBVIOUS
  <2> HIDE DEF G, J
  <2>3. QED  BY <2>1, <2>2
<1> HIDE DEF J, c
<1>3. ASSUME NEW k \in 1 .. n, Good(k - 1) PROVE Good(k)
  <2>1. CASE k = 1
    <3>1. J[k] = seqs[k]  BY <1>2, <2>1
    <3>2. k < h \/ k = h  BY <1>0, <2>1
    <3>3. QED  BY <1>0, <2>1, <3>1, <3>2 DEF c
  <2>2. CASE k # 1
    <3>b. J[k] = J[k - 1] \o seqs[k]  BY <1>2, <2>2
    <3>c. k - 1 # 0 /\ k - 1 \in 1 .. n  BY <2>2
    <3>1. J[k] = J[k - 1] \o seqs[k] /\ k - 1 # 0 /\ k - 1 \in 1 .. n  BY <3>b, <3>c
    <3>2. J[k - 1] \in Seq(Y) /\ seqs[k] \in Seq(Y)  BY <1>3, <3>1
    <3> DEFINE p == J[k - 1]
               q == seqs[k]
    <3>a. p \in Seq(Y) /\ q \in Seq(Y)  BY <3>2
    <3> HIDE DEF p, q
    <3>3. /\ p \o q \in Seq(Y)
          /\ Hits(q, P) = {} => Hits(p \o q, P) = Hits(p, P)
          /\ Hits(p, P) = {} /\ IsFiniteSet(Hits(q, P)) =>
              /\ IsFiniteSet(Hits(p \o q, P))
              /\ Cardinality(Hits(p \o q, P)) = Cardinality(Hits(q, P))
      BY <3>a, HitsTogether
    <3>4. CASE k < h
      <4>0. k - 1 < h /\ k # h /\ ~ (k >= h)  BY <1>0, <3>4
      <4>1. Hits(p, P) = {} /\ Hits(q, P) = {}  BY <1>0, <1>3, <3>1, <4>0 DEF p, q
      <4>2. Hits(p \o q, P) = {} /\ p \o q \in Seq(Y)  BY <3>3, <4>1
      <4>3. Hits(J[k], P) = {} /\ J[k] \in Seq(Y)  BY <3>1, <4>2 DEF p, q
      <4>4. QED  BY <4>0, <4>3
    <3>5. CASE k = h
      <4>1. Hits(p, P) = {} /\ IsFiniteSet(Hits(q, P)) /\ Cardinality(Hits(q, P)) = c
        BY <1>0, <1>3, <3>1, <3>5 DEF p, q, c
      <4>2. QED  BY <3>1, <3>3, <3>5, <4>1 DEF p, q
    <3>6. CASE k > h
      <4>1. IsFiniteSet(Hits(p, P)) /\ Cardinality(Hits(p, P)) = c /\ Hits(q, P) = {}
        <5>1. k - 1 >= h /\ k # h  BY <1>0, <3>6
        <5>2. QED  BY <1>0, <1>3, <5>1 DEF p, q
      <4>2. IsFiniteSet(Hits(p \o q, P)) /\ Cardinality(Hits(p \o q, P)) = c /\ p \o q \in Seq(Y)
        BY <3>3, <4>1
      <4>3. IsFiniteSet(Hits(J[k], P)) /\ Cardinality(Hits(J[k], P)) = c /\ J[k] \in Seq(Y)
        BY <3>1, <4>2 DEF p, q
      <4>4. ~ (k < h)  BY <1>0, <3>6
      <4>5. QED  BY <4>3, <4>4
    <3>7. QED  BY <1>0, <3>4, <3>5, <3>6
  <2>3. QED  BY <2>1, <2>2
<1>4. n \in S
  <2>1. 0 \in S  BY <1>0
  <2>2. \A k \in 1 .. n : k - 1 \in S => k \in S
    <3> HIDE DEF Good
    <3>1. QED  BY <1>3
  <2> HIDE DEF S
  <2>3. n \in 0 .. n  OBVIOUS
  <2>4. QED  BY <2>1, <2>2, <2>3, UpTo
<1>5. QED  BY <1>0, <1>1, <1>4 DEF c

(* The lists that have object o.                                           *)
With(o) == {s \in Lists(Objects) : o \in Elements(s)}

(* The passes of one material: all of them have its objects.               *)
LEMMA MaterialPasses ==
  ASSUME NEW l \in Wrappers, NEW m \in Materials, NEW o
  PROVE  /\ MaterialRender(l, m) \in Seq(Lists(Objects))
         /\ o \notin Elements(l.objects[m]) => Hits(MaterialRender(l, m), With(o)) = {}
         /\ o \in Elements(l.objects[m]) =>
              /\ IsFiniteSet(Hits(MaterialRender(l, m), With(o)))
              /\ Cardinality(Hits(MaterialRender(l, m), With(o))) = PassCount[m]
<1> DEFINE n == PassCount[m]
           s == l.objects[m]
           r == MaterialRender(l, m)
<1>1. n \in Nat  BY PassesPositive
<1>2. s \in Lists(Objects)  BY DEF Wrappers
<1>3. r = [k \in 1 .. n |-> s]  BY DEF MaterialRender
<1> HIDE DEF n, s, r
<1>4. r \in Seq(Lists(Objects)) /\ Len(r) = n /\ \A k \in 1 .. n : r[k] = s
  <2>1. r \in [1 .. n -> Lists(Objects)]  BY <1>2, <1>3
  <2>2. r \in Seq(Lists(Objects)) /\ Len(r) = n  BY <1>1, <2>1
  <2>3. QED  BY <1>3, <2>2
<1>5. o \notin Elements(s) => Hits(r, With(o)) = {}  BY <1>4 DEF Hits, With
<1>6. o \in Elements(s) => Hits(r, With(o)) = 1 .. n  BY <1>2, <1>4 DEF Hits, With
<1>7. IsFiniteSet(1 .. n) /\ Cardinality(1 .. n) = n
  <2>1. Cardinality(1 .. n) = IF 1 > n THEN 0 ELSE n - 1 + 1  BY <1>1, FS_Interval
  <2>2. IsFiniteSet(1 .. n)  BY <1>1, FS_Interval
  <2>3. QED  BY <1>1, <2>1, <2>2
<1>8. QED  BY <1>4, <1>5, <1>6, <1>7 DEF n, s, r

(* The passes of an effect: o is in those of its material only.            *)
LEMMA EffectPasses ==
  ASSUME NEW X, X \subseteq Objects, NEW l, Sorted(l, X), NEW e \in Effects, NEW o \in Objects
  PROVE  /\ EffectRender(l, e) \in Seq(Lists(Objects))
         /\ o \notin X \/ Effect[Material[o]] # e => Hits(EffectRender(l, e), With(o)) = {}
         /\ o \in X /\ Effect[Material[o]] = e =>
              Cardinality(Hits(EffectRender(l, e), With(o))) = PassCount[Material[o]]
<1> DEFINE t == l.materials[e]
           n == Len(t)
           seqs == [k \in DOMAIN t |-> MaterialRender(l, t[k])]
           m == Material[o]
<1>1. l \in Wrappers /\ m \in Materials  BY DEF Sorted, Materials
<1>2. t \in Lists(Materials)  BY <1>1 DEF Wrappers
<1>3. n \in Nat /\ DOMAIN t = 1 .. n /\ \A k \in 1 .. n : t[k] \in Materials
  BY <1>2 DEF Lists
<1>4. EffectRender(l, e) = FlattenSeq(seqs)  BY DEF EffectRender
<1> HIDE DEF t
<1>5. /\ seqs = [k \in 1 .. n |-> seqs[k]]
      /\ \A k \in 1 .. n : seqs[k] = MaterialRender(l, t[k])
  BY <1>3
<1> HIDE DEF n, seqs, m
<1>6. \A k \in 1 .. n : seqs[k] \in Seq(Lists(Objects))
  BY <1>1, <1>3, <1>5, MaterialPasses
<1>7. Len(seqs) = n /\ (n = 0 => seqs = <<>>)  BY <1>3, <1>5, <1>6
<1>8. \A k \in 1 .. n : o \in Elements(l.objects[t[k]]) <=> t[k] = m /\ o \in X
  BY <1>3 DEF Sorted, m
<1>9. \A k \in 1 .. n : ~ (t[k] = m /\ o \in X) => Hits(seqs[k], With(o)) = {}
  BY <1>1, <1>3, <1>5, <1>8, MaterialPasses
<1>10. ASSUME o \notin X \/ Effect[m] # e PROVE Hits(FlattenSeq(seqs), With(o)) = {}
  <2> DEFINE Y == Lists(Objects) \ With(o)
  <2>1. \A k \in 1 .. n : ~ (t[k] = m /\ o \in X)
    <3>1. m \in Elements(t) => Effect[m] = e  BY <1>1 DEF Sorted, t
    <3>2. \A k \in 1 .. n : t[k] \in Elements(t)  BY DEF Elements, n
    <3>3. QED  BY <1>10, <3>1, <3>2
  <2>2. \A k \in 1 .. n : seqs[k] \in Seq(Y)
    <3> SUFFICES ASSUME NEW k \in 1 .. n PROVE seqs[k] \in Seq(Y)
      OBVIOUS
    <3>1. seqs[k] \in Seq(Lists(Objects)) /\ Hits(seqs[k], With(o)) = {}  BY <1>6, <1>9, <2>1
    <3>2. \A i \in 1 .. Len(seqs[k]) : seqs[k][i] \in Y  BY <3>1 DEF Hits
    <3> HIDE DEF Y
    <3>3. QED  BY <3>1, <3>2
  <2> HIDE DEF Y
  <2>3. FlattenSeq(seqs) \in Seq(Y)  BY <1>3, <1>7, <2>2, FlattenIn
  <2>4. \A i \in 1 .. Len(FlattenSeq(seqs)) : FlattenSeq(seqs)[i] \in Y  BY <2>3
  <2>5. QED  BY <2>4 DEF Hits, Y
<1>11. ASSUME o \in X, Effect[m] = e
       PROVE  Cardinality(Hits(FlattenSeq(seqs), With(o))) = PassCount[m]
  <2>1. m \in Elements(t)  BY <1>1, <1>11 DEF Sorted, t, m
  <2>2. PICK h \in 1 .. n : t[h] = m  BY <2>1 DEF Elements, n
  <2>3. \A k \in 1 .. n : k # h => t[k] # m  BY <1>2, <2>2 DEF Lists, n
  <2>4. \A k \in 1 .. n : k # h => Hits(seqs[k], With(o)) = {}  BY <1>9, <2>3
  <2>5. seqs[h] = MaterialRender(l, m) /\ o \in Elements(l.objects[m])  BY <1>5, <1>8, <1>11, <2>2
  <2>6. IsFiniteSet(Hits(seqs[h], With(o))) /\ Cardinality(Hits(seqs[h], With(o))) = PassCount[m]
    BY <1>1, <2>5, MaterialPasses
  <2> DEFINE Y == Lists(Objects)
             P == With(o)
  <2>7. /\ \A k \in 1 .. n : seqs[k] \in Seq(Y)
        /\ IsFiniteSet(Hits(seqs[h], P)) /\ \A k \in 1 .. n : k # h => Hits(seqs[k], P) = {}
    BY <1>6, <2>4, <2>6
  <2> HIDE DEF Y, P
  <2>8. Cardinality(Hits(FlattenSeq(seqs), P)) = Cardinality(Hits(seqs[h], P))
    <3>1. SequencesOver(seqs, n, Y)  BY <1>3, <1>7, <2>7 DEF SequencesOver
    <3>2. OnlyAt(h, seqs, n, P)  BY <2>7 DEF OnlyAt
    <3>3. QED  BY <3>1, <3>2, FlattenHits, ZenonT(40)
  <2>9. QED  BY <2>6, <2>8 DEF P
<1>12. FlattenSeq(seqs) \in Seq(Lists(Objects))
  <2> DEFINE Y == Lists(Objects)
  <2>1. \A k \in 1 .. n : seqs[k] \in Seq(Y)  BY <1>6
  <2> HIDE DEF Y
  <2>2. FlattenSeq(seqs) \in Seq(Y)  BY <1>3, <1>7, <2>1, FlattenIn
  <2>3. QED  BY <2>2 DEF Y
<1>13. QED  BY <1>4, <1>10, <1>11, <1>12 DEF m

(* All passes.                                                             *)
LEMMA PassesAre ==
  ASSUME NEW X, X \subseteq Objects, NEW l, Sorted(l, X)
  PROVE  /\ AllPasses(l) \in Seq(Lists(Objects))
         /\ \A o \in Objects : Cardinality(Hits(AllPasses(l), With(o))) = IF o \in X THEN PassCount[Material[o]] ELSE 0
<1> DEFINE t == l.effects
           n == Len(t)
           seqs == [k \in DOMAIN t |-> EffectRender(l, t[k])]
<1>1. l \in Wrappers  BY DEF Sorted
<1>2. t \in Lists(Effects)  BY <1>1 DEF Wrappers
<1>3. n \in Nat /\ DOMAIN t = 1 .. n /\ \A k \in 1 .. n : t[k] \in Effects
  BY <1>2 DEF Lists
<1>4. AllPasses(l) = FlattenSeq(seqs)  BY DEF AllPasses
<1> HIDE DEF t
<1>5. /\ seqs = [k \in 1 .. n |-> seqs[k]]
      /\ \A k \in 1 .. n : seqs[k] = EffectRender(l, t[k])
  BY <1>3
<1> HIDE DEF n, seqs
<1>6. \A k \in 1 .. n : seqs[k] \in Seq(Lists(Objects))
  <2> SUFFICES ASSUME NEW k \in 1 .. n PROVE seqs[k] \in Seq(Lists(Objects))
    OBVIOUS
  <2>1. t[k] \in Effects  BY <1>3
  <2>2. \E o : o \in Objects  BY <2>1 DEF Effects, Materials
  <2>3. EffectRender(l, t[k]) \in Seq(Lists(Objects))  BY <2>1, <2>2, EffectPasses
  <2>4. QED  BY <1>5, <2>3
<1>7. Len(seqs) = n /\ (n = 0 => seqs = <<>>)  BY <1>3, <1>5, <1>6
<1>8. FlattenSeq(seqs) \in Seq(Lists(Objects))
  <2> DEFINE Y == Lists(Objects)
  <2>1. \A k \in 1 .. n : seqs[k] \in Seq(Y)  BY <1>6
  <2> HIDE DEF Y
  <2>2. FlattenSeq(seqs) \in Seq(Y)  BY <1>3, <1>7, <2>1, FlattenIn
  <2>3. QED  BY <2>2 DEF Y
<1>9. ASSUME NEW o \in Objects
      PROVE  Cardinality(Hits(FlattenSeq(seqs), With(o))) = IF o \in X THEN PassCount[Material[o]] ELSE 0
  <2> DEFINE e == Effect[Material[o]]
  <2>1. \A k \in 1 .. n : o \notin X \/ e # t[k] => Hits(seqs[k], With(o)) = {}
    BY <1>3, <1>5, EffectPasses
  <2>2. CASE o \notin X
    <3> DEFINE Y == Lists(Objects) \ With(o)
    <3>1. \A k \in 1 .. n : seqs[k] \in Seq(Y)
      <4> SUFFICES ASSUME NEW k \in 1 .. n PROVE seqs[k] \in Seq(Y)
        OBVIOUS
      <4>1. seqs[k] \in Seq(Lists(Objects)) /\ Hits(seqs[k], With(o)) = {}  BY <1>6, <2>1, <2>2
      <4>2. \A i \in 1 .. Len(seqs[k]) : seqs[k][i] \in Y  BY <4>1 DEF Hits
      <4> HIDE DEF Y
      <4>3. QED  BY <4>1, <4>2
    <3> HIDE DEF Y
    <3>2. FlattenSeq(seqs) \in Seq(Y)  BY <1>3, <1>7, <3>1, FlattenIn
    <3>3. \A i \in 1 .. Len(FlattenSeq(seqs)) : FlattenSeq(seqs)[i] \in Y  BY <3>2
    <3>4. Hits(FlattenSeq(seqs), With(o)) = {}  BY <3>3 DEF Hits, Y
    <3>5. QED  BY <2>2, <3>4, FS_EmptySet
  <2>3. CASE o \in X
    <3>1. e \in Effects /\ e \in Elements(t)  BY <2>3 DEF Sorted, Effects, Materials, t
    <3>2. PICK h \in 1 .. n : t[h] = e  BY <3>1 DEF Elements, n
    <3>3. \A k \in 1 .. n : k # h => t[k] # e  BY <1>2, <3>2 DEF Lists, n
    <3>4. \A k \in 1 .. n : k # h => Hits(seqs[k], With(o)) = {}  BY <2>1, <3>3
    <3>5. Cardinality(Hits(seqs[h], With(o))) = PassCount[Material[o]]
      BY <1>5, <2>3, <3>1, <3>2, EffectPasses
    <3>6. IsFiniteSet(Hits(seqs[h], With(o)))
      <4>1. seqs[h] \in Seq(Lists(Objects))  BY <1>6
      <4>2. Len(seqs[h]) \in Nat  BY <4>1
      <4>3. IsFiniteSet(1 .. Len(seqs[h]))  BY <4>2, FS_Interval
      <4>4. Hits(seqs[h], With(o)) \subseteq 1 .. Len(seqs[h])  BY DEF Hits
      <4>5. QED  BY <4>3, <4>4, FS_Subset
    <3> DEFINE Y == Lists(Objects)
               P == With(o)
    <3>7. /\ \A k \in 1 .. n : seqs[k] \in Seq(Y)
          /\ IsFiniteSet(Hits(seqs[h], P)) /\ \A k \in 1 .. n : k # h => Hits(seqs[k], P) = {}
      BY <1>6, <3>4, <3>6
    <3> HIDE DEF Y, P
    <3>8. Cardinality(Hits(FlattenSeq(seqs), P)) = Cardinality(Hits(seqs[h], P))
      <4>1. SequencesOver(seqs, n, Y)  BY <1>3, <1>7, <3>7 DEF SequencesOver
      <4>2. OnlyAt(h, seqs, n, P)  BY <3>7 DEF OnlyAt
      <4>3. QED  BY <4>1, <4>2, FlattenHits
    <3>9. QED  BY <2>3, <3>5, <3>8 DEF P
  <2>4. QED  BY <2>2, <2>3
<1>10. QED  BY <1>4, <1>8, <1>9

-----------------------------------------------------------------------------
(* What a process draws, from lists that have nothing.                     *)
EachOnce(asked, passes) ==
  \A o \in Objects :
    /\ \A k \in DOMAIN passes : Cardinality({j \in DOMAIN passes[k] : passes[k][j] = o}) <= 1
    /\ Cardinality({k \in DOMAIN passes : Contains(passes[k], o)})
         = IF Contains(asked, o) THEN PassCount[Material[o]] ELSE 0

(* From lists that have nothing, what is drawn is what was asked, once in  *)
(* each pass; and the lists have nothing again.                            *)
LEMMA DrawnIsAsked ==
  ASSUME NEW requests \in Requests, NEW sorted, sorted = SortAll(RenderRequests(NoLists, requests))
  PROVE  /\ Cleared(sorted) = NoLists /\ EachOnce(requests, AllPasses(sorted))
         /\ AllPasses(sorted) \in Seq(Lists(Objects))
<1> DEFINE X == Elements(requests)
           passes == AllPasses(sorted)
<1>1. requests \in Seq(Objects)  BY RequestsAreObjects
<1>2. X \subseteq Objects  BY <1>1 DEF Elements
<1>3. PICK list \in Lists(Objects) :
        RenderRequests(NoLists, requests) = [NoLists EXCEPT !.stage = list] /\ Elements(list) = X
  BY <1>1, RequestsListed
<1>4. sorted = SortAll(Requested(list))  BY <1>3 DEF Requested
<1> HIDE DEF X, passes
<1>5. Sorted(sorted, X) /\ sorted.stage = <<>>
  <2>1. \A l : l = Requested(list) => Sorted(SortAll(l), Elements(list)) /\ SortAll(l).stage = <<>>
    BY AllSorted
  <2>2. QED  BY <1>3, <1>4, <2>1
<1>6. Cleared(sorted) = NoLists  BY <1>2, <1>5, ClearedIs
<1>7. /\ passes \in Seq(Lists(Objects))
      /\ \A o \in Objects : Cardinality(Hits(passes, With(o))) = IF o \in X THEN PassCount[Material[o]] ELSE 0
  BY <1>2, <1>5, PassesAre DEF passes
<1>8. Len(passes) \in Nat /\ DOMAIN passes = 1 .. Len(passes) /\ \A k \in DOMAIN passes : passes[k] \in Lists(Objects)
  BY <1>7
<1>9. ASSUME NEW o \in Objects, NEW k \in DOMAIN passes
      PROVE  Cardinality({j \in DOMAIN passes[k] : passes[k][j] = o}) <= 1
  <2> DEFINE s == passes[k]
             A == {j \in DOMAIN s : s[j] = o}
  <2>1. s \in Lists(Objects)  BY <1>8
  <2> HIDE DEF s
  <2>2. \A i, j \in A : i = j  BY <2>1 DEF Lists
  <2>3. CASE A = {}
    <3>1. Cardinality(A) = 0  BY <2>3, FS_EmptySet
    <3>2. QED  BY <3>1 DEF s
  <2>4. CASE A # {}
    <3>1. PICK i : i \in A  BY <2>4
    <3>2. A = {i}  BY <2>2, <3>1
    <3> HIDE DEF A
    <3>3. Cardinality(A) = 1  BY <3>2, FS_Singleton
    <3>4. QED  BY <3>3 DEF A, s
  <2>5. QED  BY <2>3, <2>4
<1>10. ASSUME NEW o \in Objects
       PROVE  Cardinality({k \in DOMAIN passes : Contains(passes[k], o)})
                = IF Contains(requests, o) THEN PassCount[Material[o]] ELSE 0
  <2>1. {k \in DOMAIN passes : Contains(passes[k], o)} = Hits(passes, With(o))
    BY <1>8, ContainsIs DEF Hits, With
  <2>2. Contains(requests, o) <=> o \in X  BY ContainsIs DEF X
  <2>3. QED  BY <1>7, <2>1, <2>2
<1>11. QED  BY <1>6, <1>7, <1>9, <1>10 DEF EachOnce, passes

-----------------------------------------------------------------------------
(* The chain of render targets.                                            *)
Names == {"default"} \cup
  UNION {UNION {{p.name : p \in Range(sc[k].normal) \cup Range(sc[k].post)} : k \in DOMAIN sc} : sc \in Scenes}
Images == {Old} \cup Seq(Names)
Places == Surfaces \cup {NULL}
Gfx == [rt : [RT -> TargetType], immediate : BOOLEAN, target : [RT -> Places],
        semantic : [Semantics -> Places], image : [Surfaces -> Images], lost : Nat]

(* The fields of the graphics state, each of its type.                     *)
Typed(rt, immediate, target, semantic, image, lost) ==
  /\ rt \in [RT -> TargetType] /\ immediate \in BOOLEAN /\ target \in [RT -> Places]
  /\ semantic \in [Semantics -> Places] /\ image \in [Surfaces -> Images] /\ lost \in Nat

(* A graphics state has the fields it should.                              *)
LEMMA GfxIs ==
  ASSUME NEW g \in Gfx
  PROVE  Typed(g.rt, g.immediate, g.target, g.semantic, g.image, g.lost)
BY DEF Gfx, Typed

(* There are finitely many targets, and a first.                           *)
LEMMA TargetsFinite == IsFiniteSet(RT) /\ RT \subseteq Nat /\ 0 \in RT
<1>1. Count \in Nat \ {0}  BY CountPositive
<1>2. IsFiniteSet(0 .. Count - 1)  BY <1>1, FS_Interval
<1>3. QED  BY <1>1, <1>2 DEF RT

(* A set of numbers up to a bound has a greatest one.                      *)
LEMMA MaxIs ==
  ASSUME NEW n \in Nat, NEW S, S \subseteq 0 .. n, S # {}
  PROVE  Max(S) \in S
<1> DEFINE T == {x \in 0 .. n : n - x \in S}
<1>1. T \subseteq Nat  OBVIOUS
<1>2. T # {}
  <2>1. PICK y : y \in S  OBVIOUS
  <2>2. y \in 0 .. n /\ n - y \in 0 .. n /\ n - (n - y) = y  BY <2>1
  <2>3. n - y \in T  BY <2>1, <2>2
  <2>4. QED  BY <2>3
<1>3. PICK x \in T : \A y \in T : x <= y
  <2> HIDE DEF T
  <2>1. QED  BY <1>1, <1>2, Least
<1>4. \A y \in S : n - x >= y
  <2> SUFFICES ASSUME NEW y \in S PROVE n - x >= y
    OBVIOUS
  <2>1. y \in 0 .. n /\ n - y \in 0 .. n /\ n - (n - y) = y  OBVIOUS
  <2>2. n - y \in T  BY <2>1
  <2>3. x <= n - y /\ x \in 0 .. n  BY <1>3, <2>2
  <2>4. QED  BY <2>1, <2>3
<1>5. n - x \in S /\ \A y \in S : n - x >= y  BY <1>3, <1>4
<1>6. QED  BY <1>5 DEF Max

(* SetRenderTargets sets surfaces, or leaves the device as it is.          *)
LEMMA SetIs ==
  ASSUME NEW target \in [RT -> Places], NEW rt, NEW D, D \subseteq RT, NEW Sets \in [D -> Places]
  PROVE  SetRenderTargets(target, rt, Sets) \in [RT -> Places]
<1> SUFFICES ASSUME NEW k \in RT, NEW s, s = {i \in DOMAIN Sets : rt[i].index = k}, s # {}
             PROVE  Sets[Max(s)] \in Places
  BY DEF SetRenderTargets
<1>1. s \subseteq D  OBVIOUS
<1>2. s \subseteq 0 .. (Count - 1) /\ Count - 1 \in Nat
  <2>1. Count - 1 \in Nat  BY CountPositive
  <2>2. s \subseteq RT  BY <1>1
  <2>3. QED  BY <2>1, <2>2 DEF RT
<1>3. Max(s) \in s  BY <1>2, MaxIs
<1>4. QED  BY <1>1, <1>3

(* What a render target is used for: the fields that a pass leaves alone.  *)
SameTarget(r, s) ==
  /\ s.enabled = r.enabled /\ s.index = r.index /\ s.previous = r.previous
  /\ s.immediate = r.immediate /\ s.override = r.override /\ s.mode = r.mode /\ s.first = r.first
SameUse(g, h) ==
  /\ h.immediate = g.immediate /\ h.lost = g.lost
  /\ \A i \in RT : SameTarget(g.rt[i], h.rt[i])

(* Where the targets are: none in use; those in use begun, or in a pass.   *)
Idle(g) == \A i \in RT : g.rt[i].state \in {"UNKNOWN", "END"}
Begun(g) == \A i \in RT : g.rt[i].state \in IF g.rt[i].enabled THEN {"BEGIN", "ENDPASS"} ELSE {"UNKNOWN", "END"}
Passing(g) == \A i \in RT : g.rt[i].state \in IF g.rt[i].enabled THEN {"BEGINPASS"} ELSE {"UNKNOWN", "END"}

(* DisplayRenderTargetChain::RenderBeginPass: the targets in use are in a  *)
(* pass, and their use is the same.                                        *)
LEMMA BeginPassIs ==
  ASSUME NEW g \in Gfx
  PROVE  /\ RenderBeginPass(g) \in Gfx /\ SameUse(g, RenderBeginPass(g))
         /\ Begun(g) \/ Passing(g) => Passing(RenderBeginPass(g))
         /\ RenderBeginPass(g).image = g.image
<1> DEFINE begun == {i \in RT : Ready(g.rt[i], {"BEGIN", "ENDPASS"})}
           Chosen(i) == IF g.rt[i].override # NULL THEN g.rt[i].override
                        ELSE Buffer(i, IF g.rt[i].first THEN Original ELSE g.rt[i].current)
           swapped == {i \in begun : /\ g.rt[i].mode = "POST" \/ g.rt[i].texture = NULL
                                     /\ ~g.rt[i].immediate
                                     /\ Chosen(i) # g.rt[i].texture}
           published == {i \in begun : g.rt[i].mode = "POST"}
           rt == [i \in RT |-> IF i \notin begun THEN g.rt[i]
                   ELSE [g.rt[i] EXCEPT !.state = "BEGINPASS", !.texture = IF i \in swapped THEN Chosen(i) ELSE @]]
           target == SetRenderTargets(g.target, g.rt, [i \in swapped |-> Chosen(i)])
           semantic == [s \in Semantics |-> IF s[2] \notin published THEN g.semantic[s]
                          ELSE IF s[1] = "RT" THEN g.rt[s[2]].texture ELSE Buffer(s[2], Original)]
           h == RenderBeginPass(g)
<1>1. h = [g EXCEPT !.rt = rt, !.target = target, !.semantic = semantic]
  BY Zenon DEF RenderBeginPass
<1>2. Typed(g.rt, g.immediate, g.target, g.semantic, g.image, g.lost)  BY GfxIs
<1>3. \A i \in RT : Chosen(i) \in Surfaces
  <2> SUFFICES ASSUME NEW i \in RT PROVE Chosen(i) \in Surfaces
    OBVIOUS
  <2>1. g.rt[i].override \in Places /\ g.rt[i].current \in {0, 1}  BY <1>2 DEF Typed, TargetType, Places
  <2>2. \A b \in {0, 1, Original} : Buffer(i, b) \in Surfaces  BY DEF Surfaces
  <2>3. QED  BY <2>1, <2>2 DEF Places
<1> HIDE DEF Chosen
<1>4. ASSUME NEW i \in RT
      PROVE  /\ rt[i] \in TargetType /\ SameTarget(g.rt[i], rt[i])
             /\ i \in begun => rt[i].state = "BEGINPASS"
             /\ i \notin begun => rt[i] = g.rt[i]
  <2>1. g.rt[i] \in TargetType  BY <1>2 DEF Typed
  <2>2. CASE i \notin begun  BY <2>1, <2>2 DEF SameTarget
  <2>3. CASE i \in begun
    <3> DEFINE t == IF i \in swapped THEN Chosen(i) ELSE g.rt[i].texture
    <3>1. t \in Places  BY <1>3, <2>1 DEF TargetType, Places
    <3>2. rt[i] = [g.rt[i] EXCEPT !.state = "BEGINPASS", !.texture = t]  BY <2>3
    <3> HIDE DEF t, rt, begun
    <3>3. QED  BY <2>1, <2>3, <3>1, <3>2 DEF TargetType, SameTarget, Places
  <2>4. QED  BY <2>2, <2>3
<1>5. rt \in [RT -> TargetType]  BY <1>4
<1>6. target \in [RT -> Places]
  <2> DEFINE Sets == [i \in swapped |-> Chosen(i)]
  <2>1. swapped \subseteq RT /\ Sets \in [swapped -> Places]  BY <1>3 DEF Places
  <2>2. g.target \in [RT -> Places]  BY <1>2 DEF Typed
  <2> HIDE DEF Sets, swapped
  <2>3. SetRenderTargets(g.target, g.rt, Sets) \in [RT -> Places]  BY <2>1, <2>2, SetIs
  <2>4. QED  BY <2>3 DEF Sets
<1>7. semantic \in [Semantics -> Places]
  <2> SUFFICES ASSUME NEW s \in Semantics PROVE semantic[s] \in Places
    OBVIOUS
  <2>1. s[2] \in RT /\ g.semantic[s] \in Places  BY <1>2 DEF Semantics, Typed
  <2>2. g.rt[s[2]].texture \in Places  BY <1>2, <2>1 DEF Typed, TargetType, Places
  <2>3. Buffer(s[2], Original) \in Places  BY <2>1 DEF Surfaces, Places
  <2>4. QED  BY <2>1, <2>2, <2>3
<1>8. \A i \in RT : i \in begun <=> g.rt[i].enabled /\ g.rt[i].state \in {"BEGIN", "ENDPASS"}
  BY DEF Ready
<1> HIDE DEF rt, target, semantic, begun
<1>9. /\ h.rt = rt /\ h.immediate = g.immediate /\ h.lost = g.lost /\ h.image = g.image
      /\ h \in Gfx
  BY <1>1, <1>5, <1>6, <1>7 DEF Gfx
<1> HIDE DEF h
<1>10. SameUse(g, h)  BY <1>4, <1>9 DEF SameUse
<1>11. ASSUME Begun(g) \/ Passing(g) PROVE Passing(h)
  <2> SUFFICES ASSUME NEW i \in RT
               PROVE  h.rt[i].state \in IF h.rt[i].enabled THEN {"BEGINPASS"} ELSE {"UNKNOWN", "END"}
    BY DEF Passing
  <2>1. h.rt[i].enabled = g.rt[i].enabled /\ h.rt[i] = rt[i]  BY <1>4, <1>9 DEF SameTarget
  <2>2. g.rt[i].enabled => g.rt[i].state \in {"BEGIN", "ENDPASS", "BEGINPASS"}  BY <1>11 DEF Begun, Passing
  <2>3. ~ g.rt[i].enabled => g.rt[i].state \in {"UNKNOWN", "END"}  BY <1>11 DEF Begun, Passing
  <2>4. QED  BY <1>4, <1>8, <2>1, <2>2, <2>3
<1>12. QED  BY <1>9, <1>10, <1>11 DEF h

(* DisplayRenderTargetChain::RenderEndPass: they are in no pass again.     *)
LEMMA EndPassIs ==
  ASSUME NEW g \in Gfx
  PROVE  /\ RenderEndPass(g) \in Gfx /\ SameUse(g, RenderEndPass(g))
         /\ Begun(g) \/ Passing(g) => Begun(RenderEndPass(g))
         /\ RenderEndPass(g).image = g.image /\ RenderEndPass(g).target = g.target
<1> DEFINE begun == {i \in RT : Ready(g.rt[i], {"BEGINPASS"})}
           rt == [i \in RT |-> IF i \notin begun THEN g.rt[i]
                   ELSE [g.rt[i] EXCEPT !.state = "ENDPASS", !.current = IF g.rt[i].immediate THEN @ ELSE 1 - @]]
           semantic == [s \in Semantics |->
                          IF s[2] \in begun /\ g.rt[s[2]].mode = "POST" THEN NULL ELSE g.semantic[s]]
           h == RenderEndPass(g)
<1>1. h = [g EXCEPT !.rt = rt, !.semantic = semantic]  BY Zenon DEF RenderEndPass
<1>2. Typed(g.rt, g.immediate, g.target, g.semantic, g.image, g.lost)  BY GfxIs
<1>3. ASSUME NEW i \in RT
      PROVE  /\ rt[i] \in TargetType /\ SameTarget(g.rt[i], rt[i])
             /\ i \in begun => rt[i].state = "ENDPASS"
             /\ i \notin begun => rt[i] = g.rt[i]
  <2>1. g.rt[i] \in TargetType  BY <1>2 DEF Typed
  <2>2. CASE i \notin begun  BY <2>1, <2>2 DEF SameTarget
  <2>3. CASE i \in begun
    <3> DEFINE t == IF g.rt[i].immediate THEN g.rt[i].current ELSE 1 - g.rt[i].current
    <3>1. t \in {0, 1}  BY <2>1 DEF TargetType
    <3>2. rt[i] = [g.rt[i] EXCEPT !.state = "ENDPASS", !.current = t]  BY <2>3
    <3> HIDE DEF t, rt, begun
    <3>3. QED  BY <2>1, <2>3, <3>1, <3>2 DEF TargetType, SameTarget
  <2>4. QED  BY <2>2, <2>3
<1>4. rt \in [RT -> TargetType]  BY <1>3
<1>5. semantic \in [Semantics -> Places]  BY <1>2 DEF Typed, Places
<1>6. \A i \in RT : i \in begun <=> g.rt[i].enabled /\ g.rt[i].state = "BEGINPASS"
  BY DEF Ready
<1> HIDE DEF rt, semantic, begun
<1>7. /\ h.rt = rt /\ h.immediate = g.immediate /\ h.lost = g.lost /\ h.image = g.image
      /\ h.target = g.target /\ h \in Gfx
  BY <1>1, <1>4, <1>5 DEF Gfx
<1> HIDE DEF h
<1>8. SameUse(g, h)  BY <1>3, <1>7 DEF SameUse
<1>9. ASSUME Begun(g) \/ Passing(g) PROVE Begun(h)
  <2> SUFFICES ASSUME NEW i \in RT
               PROVE  h.rt[i].state \in IF h.rt[i].enabled THEN {"BEGIN", "ENDPASS"} ELSE {"UNKNOWN", "END"}
    BY DEF Begun
  <2>1. h.rt[i].enabled = g.rt[i].enabled /\ h.rt[i] = rt[i]  BY <1>3, <1>7 DEF SameTarget
  <2>2. g.rt[i].enabled => g.rt[i].state \in {"BEGIN", "ENDPASS", "BEGINPASS"}  BY <1>9 DEF Begun, Passing
  <2>3. ~ g.rt[i].enabled => g.rt[i].state \in {"UNKNOWN", "END"}  BY <1>9 DEF Begun, Passing
  <2>4. QED  BY <1>3, <1>6, <2>1, <2>2, <2>3
<1>10. QED  BY <1>7, <1>8, <1>9 DEF h

(* The references to the back buffer between two processes: one at most is *)
(* lost, or target 0 holds one that RenderBegin will lose.                 *)
Refs(g) ==
  /\ g.lost \in {0, 1}
  /\ \A i \in RT : g.rt[i].previous # NULL => i = 0 /\ g.lost = 0
Clean(g) == g.lost = 0 /\ \A i \in RT : g.rt[i].previous = NULL

(* What RenderBegin and RenderEnd leave alone.                             *)
SamePlan(g, h) ==
  /\ h.immediate = g.immediate
  /\ \A i \in RT : /\ h.rt[i].enabled = g.rt[i].enabled /\ h.rt[i].index = g.rt[i].index
                   /\ h.rt[i].immediate = g.rt[i].immediate
                   /\ ~ g.rt[i].enabled => h.rt[i].previous = g.rt[i].previous

(* DisplayRenderTargetChain::RenderBegin: one reference at most is lost,   *)
(* the one that was held.                                                  *)
LEMMA BeginIs ==
  ASSUME NEW g \in Gfx, NEW mode \in {"NORMAL", "POST"}, Idle(g), Refs(g)
  PROVE  /\ RenderBegin(g, mode) \in Gfx /\ Begun(RenderBegin(g, mode))
         /\ SamePlan(g, RenderBegin(g, mode))
         /\ RenderBegin(g, mode).lost \in {0, 1}
         /\ RenderBegin(g, mode).lost = 1 => ~ Clean(g)
         /\ RenderBegin(g, mode).lost = 1 => \A i \in RT : ~ g.rt[i].enabled => g.rt[i].previous = NULL
<1> DEFINE begun == {i \in RT : Ready(g.rt[i], {"UNKNOWN", "END"})}
           lostNow == {i \in begun : g.rt[i].index = 0 /\ g.rt[i].previous # NULL}
           Next1(r) == [r EXCEPT !.state = "BEGIN", !.mode = mode,
                                 !.previous = IF r.index = 0 THEN g.target[0] ELSE r.previous,
                                 !.current = IF mode = "NORMAL" THEN 0 ELSE r.current,
                                 !.first = mode = "NORMAL" \/ r.first,
                                 !.texture = IF mode = "NORMAL" THEN NULL ELSE r.texture]
           rt == [i \in RT |-> IF i \in begun THEN Next1(g.rt[i]) ELSE g.rt[i]]
           h == RenderBegin(g, mode)
<1>1. h = [g EXCEPT !.rt = rt, !.lost = g.lost + Cardinality(lostNow)]
  BY DEF RenderBegin
<1>2. Typed(g.rt, g.immediate, g.target, g.semantic, g.image, g.lost)  BY GfxIs
<1>3. ASSUME NEW i \in RT
      PROVE  /\ rt[i] \in TargetType
             /\ rt[i].enabled = g.rt[i].enabled /\ rt[i].index = g.rt[i].index
             /\ rt[i].immediate = g.rt[i].immediate
             /\ i \in begun => rt[i].state = "BEGIN"
             /\ i \notin begun => rt[i] = g.rt[i]
  <2>1. g.rt[i] \in TargetType  BY <1>2 DEF Typed
  <2>2. CASE i \notin begun  BY <2>1, <2>2
  <2>3. CASE i \in begun
    <3> DEFINE previous == IF g.rt[i].index = 0 THEN g.target[0] ELSE g.rt[i].previous
               current == IF mode = "NORMAL" THEN 0 ELSE g.rt[i].current
               first == (mode = "NORMAL" \/ g.rt[i].first)
               texture == IF mode = "NORMAL" THEN NULL ELSE g.rt[i].texture
    <3>1. previous \in Places
      <4>1. g.target[0] \in Places  BY <1>2, TargetsFinite DEF Typed
      <4>2. g.rt[i].previous \in Places  BY <2>1 DEF TargetType, Places
      <4>3. QED  BY <4>1, <4>2
    <3>2. current \in {0, 1} /\ first \in BOOLEAN  BY <2>1 DEF TargetType
    <3>3. texture \in Places  BY <2>1 DEF TargetType, Places
    <3>4. rt[i] = [g.rt[i] EXCEPT !.state = "BEGIN", !.mode = mode, !.previous = previous,
                                  !.current = current, !.first = first, !.texture = texture]
      BY <2>3
    <3> HIDE DEF previous, current, first, texture, rt, begun
    <3>5. rt[i] = [enabled |-> g.rt[i].enabled, index |-> g.rt[i].index, state |-> "BEGIN", mode |-> mode,
                   current |-> current, texture |-> texture, override |-> g.rt[i].override,
                   first |-> first, immediate |-> g.rt[i].immediate, previous |-> previous]
      BY <2>1, <3>4 DEF TargetType
    <3>6. /\ g.rt[i].enabled \in BOOLEAN /\ g.rt[i].index \in RT /\ g.rt[i].override \in Places
          /\ g.rt[i].immediate \in BOOLEAN
      BY <2>1 DEF TargetType, Places
    <3>7. rt[i] \in TargetType  BY <3>1, <3>2, <3>3, <3>5, <3>6 DEF TargetType, Places
    <3>8. QED  BY <2>3, <3>5, <3>7
  <2>4. QED  BY <2>2, <2>3
<1>4. rt \in [RT -> TargetType]  BY <1>3
<1>5. \A i \in RT : i \in begun <=> g.rt[i].enabled
  BY DEF Ready, Idle
<1>6. /\ g.lost \in {0, 1} /\ lostNow \subseteq {0}
      /\ lostNow # {} => g.lost = 0 /\ g.rt[0].enabled /\ g.rt[0].previous # NULL
  <2>1. \A i \in lostNow : i = 0 /\ g.lost = 0 /\ g.rt[i].enabled /\ g.rt[i].previous # NULL
    BY <1>5 DEF Refs
  <2>2. g.lost \in {0, 1}  BY DEF Refs
  <2> HIDE DEF lostNow
  <2>3. QED  BY <2>1, <2>2
<1>7. Cardinality(lostNow) = IF lostNow = {} THEN 0 ELSE 1
  <2>1. lostNow = {} \/ lostNow = {0}  BY <1>6
  <2> HIDE DEF lostNow
  <2>2. QED  BY <2>1, FS_EmptySet, FS_Singleton
<1> HIDE DEF rt, begun, lostNow
<1>8. /\ h.rt = rt /\ h.immediate = g.immediate /\ h.lost = g.lost + Cardinality(lostNow)
      /\ h.target = g.target /\ h.semantic = g.semantic /\ h.image = g.image
      /\ h = [rt |-> rt, immediate |-> g.immediate, target |-> g.target, semantic |-> g.semantic,
              image |-> g.image, lost |-> g.lost + Cardinality(lostNow)]
  BY <1>1 DEF Gfx
<1>9. g.lost + Cardinality(lostNow) \in {0, 1}  BY <1>6, <1>7
<1>10. h \in Gfx  BY <1>2, <1>4, <1>8, <1>9 DEF Gfx, Typed
<1>11. g.lost + Cardinality(lostNow) = 1 =>
         /\ ~ Clean(g)
         /\ \A i \in RT : ~ g.rt[i].enabled => g.rt[i].previous = NULL
  <2>1. 0 \in RT /\ g.lost \in {0, 1}  BY <1>6, TargetsFinite
  <2>2. CASE lostNow = {}
    <3>1. g.lost + Cardinality(lostNow) = 1 => g.lost = 1  BY <1>7, <2>1, <2>2
    <3>2. g.lost = 1 => ~ Clean(g)  BY DEF Clean
    <3>3. g.lost = 1 => \A i \in RT : g.rt[i].previous = NULL  BY DEF Refs
    <3>4. QED  BY <3>1, <3>2, <3>3
  <2>3. CASE lostNow # {}
    <3>1. g.rt[0].enabled /\ g.rt[0].previous # NULL  BY <1>6, <2>3
    <3>2. ~ Clean(g)  BY <2>1, <3>1 DEF Clean
    <3>3. \A i \in RT : g.rt[i].previous # NULL => i = 0  BY DEF Refs
    <3>4. QED  BY <3>1, <3>2, <3>3
  <2>4. QED  BY <2>2, <2>3
<1> HIDE DEF h
<1>12. SamePlan(g, h)  BY <1>3, <1>5, <1>8 DEF SamePlan
<1>13. Begun(h)
  <2> SUFFICES ASSUME NEW i \in RT
               PROVE  h.rt[i].state \in IF h.rt[i].enabled THEN {"BEGIN", "ENDPASS"} ELSE {"UNKNOWN", "END"}
    BY DEF Begun
  <2>1. h.rt[i] = rt[i] /\ rt[i].enabled = g.rt[i].enabled  BY <1>3, <1>8
  <2>2. QED  BY <1>3, <1>5, <2>1 DEF Idle
<1>14. QED  BY <1>8, <1>9, <1>10, <1>11, <1>12, <1>13 DEF h

(* DisplayRenderTargetChain::RenderEnd: the targets that were in use hold  *)
(* nothing.                                                                *)
LEMMA EndIs ==
  ASSUME NEW g \in Gfx, Begun(g)
  PROVE  /\ RenderEnd(g) \in Gfx /\ Idle(RenderEnd(g))
         /\ SamePlan(g, RenderEnd(g)) /\ RenderEnd(g).lost = g.lost
         /\ \A i \in RT : g.rt[i].enabled => RenderEnd(g).rt[i].previous = NULL
<1> DEFINE begun == {i \in RT : Ready(g.rt[i], {"BEGIN", "ENDPASS"})}
           restored == {i \in begun : g.rt[i].index # 0 \/ g.rt[i].previous # NULL}
           rt == [i \in RT |-> IF i \notin begun THEN g.rt[i]
                   ELSE [g.rt[i] EXCEPT !.state = "END", !.first = FALSE, !.previous = NULL]]
           target == SetRenderTargets(g.target, g.rt, [i \in restored |-> g.rt[i].previous])
           h == RenderEnd(g)
<1>1. h = [g EXCEPT !.rt = rt, !.target = target]  BY DEF RenderEnd
<1>2. Typed(g.rt, g.immediate, g.target, g.semantic, g.image, g.lost)  BY GfxIs
<1>3. ASSUME NEW i \in RT
      PROVE  /\ rt[i] \in TargetType
             /\ rt[i].enabled = g.rt[i].enabled /\ rt[i].index = g.rt[i].index
             /\ rt[i].immediate = g.rt[i].immediate
             /\ i \in begun => rt[i].state = "END" /\ rt[i].previous = NULL
             /\ i \notin begun => rt[i] = g.rt[i]
  <2>1. g.rt[i] \in TargetType  BY <1>2 DEF Typed
  <2>2. CASE i \notin begun  BY <2>1, <2>2
  <2>3. CASE i \in begun
    <3>1. rt[i] = [g.rt[i] EXCEPT !.state = "END", !.first = FALSE, !.previous = NULL]  BY <2>3
    <3> HIDE DEF rt, begun
    <3>2. QED  BY <2>1, <2>3, <3>1 DEF TargetType
  <2>4. QED  BY <2>2, <2>3
<1>4. rt \in [RT -> TargetType]  BY <1>3
<1>5. target \in [RT -> Places]
  <2> DEFINE Sets == [i \in restored |-> g.rt[i].previous]
  <2>1. \A i \in RT : g.rt[i].previous \in Places  BY <1>2 DEF Typed, TargetType, Places
  <2>2. restored \subseteq RT /\ Sets \in [restored -> Places]  BY <2>1
  <2>3. g.target \in [RT -> Places]  BY <1>2 DEF Typed
  <2> HIDE DEF Sets, restored
  <2>4. SetRenderTargets(g.target, g.rt, Sets) \in [RT -> Places]  BY <2>2, <2>3, SetIs
  <2>5. QED  BY <2>4 DEF Sets
<1>6. \A i \in RT : i \in begun <=> g.rt[i].enabled
  BY DEF Ready, Begun
<1> HIDE DEF rt, begun, target
<1>7. /\ h.rt = rt /\ h.immediate = g.immediate /\ h.lost = g.lost
      /\ h = [rt |-> rt, immediate |-> g.immediate, target |-> target, semantic |-> g.semantic,
              image |-> g.image, lost |-> g.lost]
  BY <1>1 DEF Gfx
<1>8. h \in Gfx  BY <1>2, <1>4, <1>5, <1>7 DEF Gfx, Typed
<1> HIDE DEF h
<1>9. SamePlan(g, h)  BY <1>3, <1>6, <1>7 DEF SamePlan
<1>10. Idle(h)
  <2> SUFFICES ASSUME NEW i \in RT PROVE h.rt[i].state \in {"UNKNOWN", "END"}
    BY DEF Idle
  <2>1. QED  BY <1>3, <1>6, <1>7 DEF Begun
<1>11. \A i \in RT : g.rt[i].enabled => h.rt[i].previous = NULL  BY <1>3, <1>6, <1>7
<1>12. QED  BY <1>7, <1>8, <1>9, <1>10, <1>11 DEF h

(* From RenderBegin, over any passes, to RenderEnd.                        *)
LEMMA RoundIs ==
  ASSUME NEW g \in Gfx, NEW mode \in {"NORMAL", "POST"}, Idle(g), Refs(g),
         NEW b, b = RenderBegin(g, mode),
         NEW e \in Gfx, SameUse(b, e), Begun(e)
  PROVE  LET h == RenderEnd(e)
         IN /\ h \in Gfx /\ Idle(h) /\ Refs(h)
            /\ h.immediate = g.immediate
            /\ \A i \in RT : h.rt[i].index = g.rt[i].index /\ h.rt[i].immediate = g.rt[i].immediate
            /\ Clean(g) => Clean(h)
            /\ \A i \in RT : g.rt[i].previous = NULL => h.rt[i].previous = NULL
<1> DEFINE h == RenderEnd(e)
<1>1. /\ b \in Gfx /\ Begun(b) /\ SamePlan(g, b) /\ b.lost \in {0, 1}
      /\ b.lost = 1 => ~ Clean(g)
      /\ b.lost = 1 => \A i \in RT : ~ g.rt[i].enabled => g.rt[i].previous = NULL
  BY BeginIs
<1>2. /\ h \in Gfx /\ Idle(h) /\ SamePlan(e, h) /\ h.lost = e.lost
      /\ \A i \in RT : e.rt[i].enabled => h.rt[i].previous = NULL
  BY EndIs
<1>3. /\ e.immediate = b.immediate /\ e.lost = b.lost
      /\ \A i \in RT : /\ e.rt[i].enabled = b.rt[i].enabled /\ e.rt[i].index = b.rt[i].index
                       /\ e.rt[i].previous = b.rt[i].previous /\ e.rt[i].immediate = b.rt[i].immediate
  BY DEF SameUse, SameTarget
<1> HIDE DEF h
<1>4. ASSUME NEW i \in RT
      PROVE  /\ h.rt[i].index = g.rt[i].index /\ h.rt[i].immediate = g.rt[i].immediate
             /\ h.rt[i].previous = IF g.rt[i].enabled THEN NULL ELSE g.rt[i].previous
  <2>1. /\ b.rt[i].enabled = g.rt[i].enabled /\ b.rt[i].index = g.rt[i].index
        /\ b.rt[i].immediate = g.rt[i].immediate
        /\ ~ g.rt[i].enabled => b.rt[i].previous = g.rt[i].previous
    BY <1>1 DEF SamePlan
  <2>2. /\ h.rt[i].index = e.rt[i].index /\ h.rt[i].immediate = e.rt[i].immediate
        /\ ~ e.rt[i].enabled => h.rt[i].previous = e.rt[i].previous
    BY <1>2 DEF SamePlan
  <2>3. QED  BY <1>2, <1>3, <2>1, <2>2
<1>5. h.lost = b.lost /\ h.immediate = g.immediate  BY <1>1, <1>2, <1>3 DEF SamePlan
<1>6. Refs(h)
  <2>1. ASSUME NEW i \in RT, h.rt[i].previous # NULL PROVE i = 0 /\ h.lost = 0
    BY <1>1, <1>4, <1>5, <2>1 DEF Refs
  <2>2. QED  BY <1>1, <1>5, <2>1 DEF Refs
<1>7. Clean(g) => Clean(h)  BY <1>1, <1>4, <1>5 DEF Clean
<1>8. QED  BY <1>2, <1>4, <1>5, <1>6, <1>7 DEF h

(* What the operators that choose the targets leave alone.                 *)
SameHold(g, h) ==
  /\ h.immediate = g.immediate /\ h.lost = g.lost
  /\ \A i \in RT : /\ h.rt[i].state = g.rt[i].state /\ h.rt[i].previous = g.rt[i].previous
                   /\ h.rt[i].immediate = g.rt[i].immediate

(* Only the targets of the chain change.                                   *)
LEMMA NewTargetsIs ==
  ASSUME NEW g \in Gfx, NEW rt \in [RT -> TargetType], NEW h, h = [g EXCEPT !.rt = rt]
  PROVE  h \in Gfx /\ h.rt = rt /\ h.immediate = g.immediate /\ h.lost = g.lost /\ h.image = g.image
BY DEF Gfx

(* EnableAllRenderTargets: every target is in use, at its own index.       *)
LEMMA EnableIs ==
  ASSUME NEW g \in Gfx
  PROVE  LET h == EnableAllRenderTargets(g)
         IN h \in Gfx /\ SameHold(g, h) /\ \A i \in RT : h.rt[i].index = i /\ h.rt[i].enabled
<1> DEFINE h == EnableAllRenderTargets(g)
           rt == [i \in RT |-> [g.rt[i] EXCEPT !.enabled = TRUE, !.override = NULL, !.index = i]]
<1>1. h = [g EXCEPT !.rt = rt]  BY DEF EnableAllRenderTargets
<1>2. Typed(g.rt, g.immediate, g.target, g.semantic, g.image, g.lost)  BY GfxIs
<1>3. ASSUME NEW i \in RT
      PROVE  /\ rt[i] \in TargetType /\ rt[i].index = i /\ rt[i].enabled
             /\ rt[i].state = g.rt[i].state /\ rt[i].previous = g.rt[i].previous
             /\ rt[i].immediate = g.rt[i].immediate
  <2>1. g.rt[i] \in TargetType  BY <1>2 DEF Typed
  <2>2. rt[i] = [g.rt[i] EXCEPT !.enabled = TRUE, !.override = NULL, !.index = i]  OBVIOUS
  <2> HIDE DEF rt
  <2>3. QED  BY <2>1, <2>2 DEF TargetType
<1>4. rt \in [RT -> TargetType]  BY <1>3
<1> HIDE DEF rt, h
<1>5. h \in Gfx /\ h.rt = rt /\ h.immediate = g.immediate /\ h.lost = g.lost /\ h.image = g.image
  BY <1>1, <1>4, NewTargetsIs
<1>6. QED  BY <1>3, <1>5 DEF SameHold, h

(* DisableAllRenderTargets: none is in use; the indices stay.              *)
LEMMA DisableIs ==
  ASSUME NEW g \in Gfx
  PROVE  LET h == DisableAllRenderTargets(g)
         IN h \in Gfx /\ SameHold(g, h) /\ \A i \in RT : h.rt[i].index = g.rt[i].index
<1> DEFINE h == DisableAllRenderTargets(g)
           rt == [i \in RT |-> [g.rt[i] EXCEPT !.enabled = FALSE, !.override = NULL]]
<1>1. h = [g EXCEPT !.rt = rt]  BY DEF DisableAllRenderTargets
<1>2. Typed(g.rt, g.immediate, g.target, g.semantic, g.image, g.lost)  BY GfxIs
<1>3. ASSUME NEW i \in RT
      PROVE  /\ rt[i] \in TargetType /\ rt[i].index = g.rt[i].index
             /\ rt[i].state = g.rt[i].state /\ rt[i].previous = g.rt[i].previous
             /\ rt[i].immediate = g.rt[i].immediate
  <2>1. g.rt[i] \in TargetType  BY <1>2 DEF Typed
  <2>2. rt[i] = [g.rt[i] EXCEPT !.enabled = FALSE, !.override = NULL]  OBVIOUS
  <2> HIDE DEF rt
  <2>3. QED  BY <2>1, <2>2 DEF TargetType
<1>4. rt \in [RT -> TargetType]  BY <1>3
<1> HIDE DEF rt, h
<1>5. h \in Gfx /\ h.rt = rt /\ h.immediate = g.immediate /\ h.lost = g.lost /\ h.image = g.image
  BY <1>1, <1>4, NewTargetsIs
<1>6. QED  BY <1>3, <1>5 DEF SameHold, h

(* A process names each target once, so no more of them than there are,    *)
(* and the index it gives to one is an index of the device.                *)
LEMMA EntriesFit ==
  ASSUME NEW p, IsProcess(p)
  PROVE  \A e \in DOMAIN p.targets : /\ e - 1 \in RT /\ p.targets[e].rt \in RT
                                     /\ p.targets[e].texture \in Places
<1> DEFINE n == Len(p.targets)
           f == [e \in 1 .. n |-> p.targets[e].rt]
<1>1. p.targets \in Seq([rt : RT, texture : {NULL} \cup {Texture(x) : x \in Textures}])
  BY DEF IsProcess
<1>2. n \in Nat /\ DOMAIN p.targets = 1 .. n  BY <1>1
<1>3. \A e \in 1 .. n : p.targets[e].rt \in RT /\ p.targets[e].texture \in Places
  <2> SUFFICES ASSUME NEW e \in 1 .. n
               PROVE  p.targets[e].rt \in RT /\ p.targets[e].texture \in Places
    OBVIOUS
  <2>1. p.targets[e] \in [rt : RT, texture : {NULL} \cup {Texture(x) : x \in Textures}]
    <3> DEFINE E == [rt : RT, texture : {NULL} \cup {Texture(x) : x \in Textures}]
               s == p.targets
    <3>1. s \in Seq(E) /\ e \in 1 .. Len(s)  BY <1>1
    <3> HIDE DEF E, s
    <3>2. s[e] \in E  BY <3>1
    <3>3. QED  BY <3>2 DEF E, s
  <2>2. QED  BY <2>1 DEF Places, Surfaces
<1>4. \A i, j \in 1 .. n : p.targets[i].rt = p.targets[j].rt => i = j  BY <1>2 DEF IsProcess
<1>5. f \in Injection(1 .. n, RT)  BY <1>3, <1>4 DEF Injection, IsInjective
<1>6. Cardinality(1 .. n) <= Cardinality(RT)
  <2> DEFINE S == 1 .. n
             T == RT
  <2>1. f \in Injection(S, T) /\ IsFiniteSet(T)  BY <1>5, TargetsFinite
  <2> HIDE DEF S, T, f
  <2>2. Cardinality(S) <= Cardinality(T)  BY <2>1, FS_Injection
  <2>3. QED  BY <2>2 DEF S, T
<1>7. Count \in Nat /\ Count # 0  BY CountPositive
<1>8. Cardinality(1 .. n) = n
  <2>1. Cardinality(1 .. n) = IF 1 > n THEN 0 ELSE n - 1 + 1
    <3> DEFINE a == 1
    <3>1. a \in Int /\ n \in Int  BY <1>2
    <3> HIDE DEF a, n
    <3>2. Cardinality(a .. n) = IF a > n THEN 0 ELSE n - a + 1  BY <3>1, FS_Interval
    <3>3. QED  BY <3>2 DEF a
  <2>2. QED  BY <1>2, <2>1
<1>9. Cardinality(RT) = Count
  <2> DEFINE a == 0
             b == Count - 1
  <2>1. a \in Int /\ b \in Int  BY <1>7
  <2> HIDE DEF a, b
  <2>2. Cardinality(a .. b) = IF a > b THEN 0 ELSE b - a + 1  BY <2>1, FS_Interval
  <2>3. QED  BY <1>7, <2>2 DEF a, b, RT
<1>10. n <= Count  BY <1>6, <1>8, <1>9
<1> HIDE DEF n
<1>11. ASSUME NEW e \in 1 .. n PROVE e - 1 \in RT  BY <1>2, <1>7, <1>10 DEF RT
<1>12. QED  BY <1>2, <1>3, <1>11

(* The targets that a process names are in use; at their own index, if it  *)
(* names them in their order.                                              *)
LEMMA UseIs ==
  ASSUME NEW g \in Gfx, NEW p, IsProcess(p)
  PROVE  LET h == UseTargets(g, p)
         IN /\ h \in Gfx /\ SameHold(g, h)
            /\ p.targets = <<>> => \A i \in RT : h.rt[i].index = g.rt[i].index
            /\ (\A e \in DOMAIN p.targets : p.targets[e].rt = e - 1) =>
                 \A i \in RT : /\ g.rt[i].index = i => h.rt[i].index = i
                               /\ g.rt[i].enabled => h.rt[i].enabled
<1> DEFINE h == UseTargets(g, p)
           Entries(i) == {e \in DOMAIN p.targets : p.targets[e].rt = i}
           rt == [i \in RT |-> IF Entries(i) = {} THEN g.rt[i]
                   ELSE [g.rt[i] EXCEPT !.enabled = TRUE, !.index = Max(Entries(i)) - 1,
                                        !.override = p.targets[Max(Entries(i))].texture]]
<1>1. h = [g EXCEPT !.rt = rt]  BY DEF UseTargets
<1>2. Typed(g.rt, g.immediate, g.target, g.semantic, g.image, g.lost)  BY GfxIs
<1>3. \A e \in DOMAIN p.targets : /\ e - 1 \in RT /\ p.targets[e].rt \in RT
                                  /\ p.targets[e].texture \in Places
  BY EntriesFit
<1>4. \A i \in RT : Entries(i) # {} => Max(Entries(i)) \in Entries(i)
  <2> SUFFICES ASSUME NEW S, S \subseteq DOMAIN p.targets, S # {} PROVE Max(S) \in S
    OBVIOUS
  <2> DEFINE n == Len(p.targets)
  <2>1. n \in Nat /\ DOMAIN p.targets = 1 .. n  BY DEF IsProcess
  <2> HIDE DEF n
  <2>2. S \subseteq 0 .. n  BY <2>1
  <2>3. QED  BY <2>1, <2>2, MaxIs
<1>5. ASSUME NEW i \in RT
      PROVE  /\ rt[i] \in TargetType
             /\ rt[i].state = g.rt[i].state /\ rt[i].previous = g.rt[i].previous
             /\ rt[i].immediate = g.rt[i].immediate
             /\ p.targets = <<>> => rt[i].index = g.rt[i].index
             /\ (\A e \in DOMAIN p.targets : p.targets[e].rt = e - 1) =>
                  /\ g.rt[i].index = i => rt[i].index = i
                  /\ g.rt[i].enabled => rt[i].enabled
  <2>1. g.rt[i] \in TargetType  BY <1>2 DEF Typed
  <2>2. CASE Entries(i) = {}
    <3>1. rt[i] = g.rt[i]  BY <2>2
    <3> HIDE DEF rt, Entries
    <3>2. QED  BY <2>1, <3>1
  <2>3. CASE Entries(i) # {}
    <3> DEFINE e == Max(Entries(i))
    <3>1. e \in Entries(i)  BY <1>4, <2>3
    <3>2. e \in DOMAIN p.targets /\ p.targets[e].rt = i  BY <3>1
    <3>3. rt[i] = [g.rt[i] EXCEPT !.enabled = TRUE, !.index = e - 1, !.override = p.targets[e].texture]
      BY <2>3
    <3> HIDE DEF rt, e, Entries
    <3>4. e - 1 \in RT /\ p.targets[e].texture \in Places  BY <1>3, <3>2
    <3>5. /\ rt[i] \in TargetType /\ rt[i].state = g.rt[i].state /\ rt[i].previous = g.rt[i].previous
          /\ rt[i].immediate = g.rt[i].immediate /\ rt[i].index = e - 1 /\ rt[i].enabled
      BY <2>1, <3>3, <3>4 DEF TargetType, Places
    <3>6. p.targets # <<>>  BY <3>2
    <3>7. (\A d \in DOMAIN p.targets : p.targets[d].rt = d - 1) => e - 1 = i  BY <3>2
    <3>8. QED  BY <3>5, <3>6, <3>7
  <2>4. QED  BY <2>2, <2>3
<1>6. rt \in [RT -> TargetType]  BY <1>5
<1> HIDE DEF rt, h
<1>7. h \in Gfx /\ h.rt = rt /\ h.immediate = g.immediate /\ h.lost = g.lost /\ h.image = g.image
  BY <1>1, <1>6, NewTargetsIs
<1>8. SameHold(g, h)  BY <1>5, <1>7 DEF SameHold
<1>9. QED  BY <1>5, <1>7, <1>8 DEF h

(* To write directly or not again: the surfaces that are held change.      *)
LEMMA ImmediateIs ==
  ASSUME NEW g \in Gfx, NEW write \in BOOLEAN
  PROVE  LET h == SetImmediateWrite(g, write)
         IN /\ h \in Gfx /\ h.immediate = write /\ h.lost = g.lost
            /\ (\A i \in RT : g.rt[i].immediate = g.immediate) => \A i \in RT : h.rt[i].immediate = write
            /\ \A i \in RT : /\ h.rt[i].state = g.rt[i].state /\ h.rt[i].enabled = g.rt[i].enabled
                             /\ h.rt[i].index = g.rt[i].index
                             /\ h.rt[i].previous # NULL => g.rt[i].previous # NULL \/ g.rt[i].index = 0
            /\ g.immediate = write => h = g
<1> DEFINE h == SetImmediateWrite(g, write)
<1>1. CASE g.immediate = write
  <2>1. h = g  BY <1>1 DEF SetImmediateWrite
  <2>2. g.immediate = write  BY <1>1
  <2> HIDE DEF h
  <2>3. QED  BY <2>1, <2>2 DEF h
<1>2. CASE g.immediate # write
  <2> DEFINE changed == {i \in RT : g.rt[i].immediate # write}
             givenBack == {i \in changed : write /\ g.rt[i].previous # NULL}
             held == {i \in changed : ~write /\ g.rt[i].previous = NULL /\ g.rt[i].index = 0}
             rt == [i \in RT |-> [g.rt[i] EXCEPT
                      !.immediate = write,
                      !.previous = IF i \in givenBack THEN NULL
                                   ELSE IF i \in held THEN g.target[0] ELSE g.rt[i].previous]]
             target == SetRenderTargets(g.target, g.rt, [i \in givenBack |-> g.rt[i].previous])
  <2>1. h = [g EXCEPT !.immediate = write, !.rt = rt, !.target = target]  BY <1>2 DEF SetImmediateWrite
  <2>2. Typed(g.rt, g.immediate, g.target, g.semantic, g.image, g.lost)  BY GfxIs
  <2>3. ASSUME NEW i \in RT
        PROVE  /\ rt[i] \in TargetType /\ rt[i].immediate = write
               /\ rt[i].state = g.rt[i].state /\ rt[i].enabled = g.rt[i].enabled /\ rt[i].index = g.rt[i].index
               /\ rt[i].previous # NULL => g.rt[i].previous # NULL \/ g.rt[i].index = 0
    <3> DEFINE previous == IF i \in givenBack THEN NULL
                           ELSE IF i \in held THEN g.target[0] ELSE g.rt[i].previous
    <3>1. g.rt[i] \in TargetType  BY <2>2 DEF Typed
    <3>2. previous \in Places
      <4>1. g.target[0] \in Places  BY <2>2, TargetsFinite DEF Typed
      <4>2. g.rt[i].previous \in Places  BY <3>1 DEF TargetType, Places
      <4>3. NULL \in Places  BY DEF Places
      <4> HIDE DEF givenBack, held
      <4>4. QED  BY <4>1, <4>2, <4>3
    <3>3. previous # NULL => g.rt[i].previous # NULL \/ g.rt[i].index = 0
      <4>1. i \in held => g.rt[i].index = 0  OBVIOUS
      <4> HIDE DEF givenBack, held
      <4>2. QED  BY <4>1
    <3>4. rt[i] = [g.rt[i] EXCEPT !.immediate = write, !.previous = previous]  OBVIOUS
    <3> HIDE DEF previous, rt
    <3>5. QED  BY <3>1, <3>2, <3>3, <3>4 DEF TargetType, Places
  <2>4. rt \in [RT -> TargetType]  BY <2>3
  <2>5. target \in [RT -> Places]
    <3> DEFINE Sets == [i \in givenBack |-> g.rt[i].previous]
    <3>1. \A i \in RT : g.rt[i].previous \in Places  BY <2>2 DEF Typed, TargetType, Places
    <3>2. givenBack \subseteq RT /\ Sets \in [givenBack -> Places]  BY <3>1
    <3>3. g.target \in [RT -> Places]  BY <2>2 DEF Typed
    <3> HIDE DEF Sets, givenBack
    <3>4. SetRenderTargets(g.target, g.rt, Sets) \in [RT -> Places]  BY <3>2, <3>3, SetIs
    <3>5. QED  BY <3>4 DEF Sets
  <2> HIDE DEF rt, target, changed, givenBack, held
  <2>6. /\ h.rt = rt /\ h.immediate = write /\ h.lost = g.lost
        /\ h = [rt |-> rt, immediate |-> write, target |-> target, semantic |-> g.semantic,
                image |-> g.image, lost |-> g.lost]
    BY <2>1 DEF Gfx
  <2>7. h \in Gfx  BY <2>2, <2>4, <2>5, <2>6 DEF Gfx, Typed
  <2> HIDE DEF h
  <2>8. QED  BY <1>2, <2>3, <2>6, <2>7 DEF h
<1>3. QED  BY <1>1, <1>2

(* Images.                                                                 *)
LEMMA AddIs ==
  ASSUME NEW image \in Images, NEW name \in Names
  PROVE  Add(image, name) \in Images /\ <<name>> \in Images
<1>1. <<name>> \in Seq(Names)  OBVIOUS
<1>2. CASE image = Old  BY <1>1, <1>2 DEF Add, Images
<1>3. CASE image # Old
  <2>1. image \in Seq(Names) /\ Append(image, name) \in Seq(Names)  BY <1>3 DEF Images
  <2>2. Add(image, name) \in {image, Append(image, name)}  BY <1>3 DEF Add
  <2>3. QED  BY <1>1, <2>1, <2>2 DEF Images
<1>4. QED  BY <1>2, <1>3

(* Only the images change.                                                 *)
LEMMA NewImagesIs ==
  ASSUME NEW g \in Gfx, NEW image \in [Surfaces -> Images], NEW h, h = [g EXCEPT !.image = image]
  PROVE  /\ h \in Gfx /\ SameUse(g, h)
         /\ h.rt = g.rt /\ h.target = g.target
         /\ Begun(g) => Begun(h)
         /\ Passing(g) => Passing(h)
<1>1. /\ h \in Gfx /\ h.rt = g.rt /\ h.immediate = g.immediate /\ h.lost = g.lost
      /\ h.target = g.target
  BY DEF Gfx
<1>2. SameUse(g, h)  BY <1>1 DEF SameUse, SameTarget
<1>3. (Begun(g) => Begun(h)) /\ (Passing(g) => Passing(h))  BY <1>1 DEF Begun, Passing
<1>4. QED  BY <1>1, <1>2, <1>3

(* A draw.                                                                 *)
LEMMA PaintIs ==
  ASSUME NEW g \in Gfx, NEW name \in Names
  PROVE  /\ Paint(g, name) \in Gfx /\ SameUse(g, Paint(g, name))
         /\ Begun(g) => Begun(Paint(g, name))
         /\ Passing(g) => Passing(Paint(g, name))
<1> DEFINE image == [s \in Surfaces |-> IF s \in Targets(g) THEN Add(g.image[s], name) ELSE g.image[s]]
<1>1. g.image \in [Surfaces -> Images]  BY DEF Gfx
<1>2. \A s \in Surfaces : Add(g.image[s], name) \in Images  BY <1>1, AddIs
<1>3. image \in [Surfaces -> Images]  BY <1>1, <1>2
<1>4. Paint(g, name) = [g EXCEPT !.image = image]  BY DEF Paint
<1> HIDE DEF image
<1>5. QED  BY <1>3, <1>4, NewImagesIs

(* A clear.                                                                *)
LEMMA ClearIs ==
  ASSUME NEW g \in Gfx, NEW name \in Names
  PROVE  /\ Clear(g, name) \in Gfx /\ SameUse(g, Clear(g, name))
         /\ Begun(g) => Begun(Clear(g, name))
         /\ Passing(g) => Passing(Clear(g, name))
<1> DEFINE image == [s \in Surfaces |-> IF s \in Targets(g) THEN <<name>> ELSE g.image[s]]
<1>1. g.image \in [Surfaces -> Images]  BY DEF Gfx
<1>2. <<name>> \in Images  BY DEF Images
<1>3. image \in [Surfaces -> Images]  BY <1>1, <1>2
<1>4. Clear(g, name) = [g EXCEPT !.image = image]  BY DEF Clear
<1> HIDE DEF image
<1>5. QED  BY <1>3, <1>4, NewImagesIs

(* A use that stays the same twice has stayed the same.                    *)
LEMMA SameUseTwice ==
  ASSUME NEW f, NEW g, NEW h, SameUse(f, g), SameUse(g, h)
  PROVE  SameUse(f, h)
BY DEF SameUse, SameTarget

(* Nothing changes a use by doing nothing.                                 *)
LEMMA SameUseOnce ==
  ASSUME NEW g
  PROVE  SameUse(g, g)
BY DEF SameUse, SameTarget

(* A whole pass.                                                           *)
LEMMA DrawPassIs ==
  ASSUME NEW g \in Gfx, NEW name \in Names, Begun(g) \/ Passing(g)
  PROVE  DrawPass(g, name) \in Gfx /\ SameUse(g, DrawPass(g, name)) /\ Begun(DrawPass(g, name))
<1> DEFINE a == RenderBeginPass(g)
           b == Paint(a, name)
           c == RenderEndPass(b)
<1>1. a \in Gfx /\ SameUse(g, a) /\ Passing(a)  BY BeginPassIs
<1> HIDE DEF a
<1>2. b \in Gfx /\ SameUse(a, b) /\ Passing(b)  BY <1>1, PaintIs
<1> HIDE DEF b
<1>3. c \in Gfx /\ SameUse(b, c) /\ Begun(c)  BY <1>2, EndPassIs
<1> HIDE DEF c
<1>4. SameUse(g, c)  BY <1>1, <1>2, <1>3, SameUseTwice
<1>5. QED  BY <1>3, <1>4 DEF DrawPass, a, b, c

(* What every pass keeps, all passes of a process keep; and the last of    *)
(* them, if there is one, is a pass.                                       *)
LEMMA DrawPassesKeep ==
  ASSUME NEW W, NEW g \in W, NEW name, \A x \in W : DrawPass(x, name) \in W,
         NEW passes, Len(passes) \in Nat
  PROVE  /\ DrawPasses(g, name, passes) \in W
         /\ Len(passes) = 0 => DrawPasses(g, name, passes) = g
         /\ Len(passes) # 0 => \E x \in W : DrawPasses(g, name, passes) = DrawPass(x, name)
<1> DEFINE n == Len(passes)
           Is(f) == f = [k \in 0 .. n |-> IF k = 0 THEN g ELSE DrawPass(f[k - 1], name)]
           F == CHOOSE f : Is(f)
<1>1. n \in Nat  OBVIOUS
<1> HIDE DEF n
<1>2. \E f : Is(f)
  <2> DEFINE Op == [k \in 1 .. n |-> [a \in W |-> DrawPass(a, name)]]
             first == g
  <2>1. Op \in [1 .. n -> [W -> W]] /\ first \in W  OBVIOUS
  <2>2. \A a \in W, k \in 1 .. n : Op[k][a] = DrawPass(a, name)  OBVIOUS
  <2> HIDE DEF Op, first
  <2>3. \E f \in [0 .. n -> W] : f[0] = first /\ \A k \in 1 .. n : f[k] = Op[k][f[k - 1]]
    BY <1>1, <2>1, StepByStep, SMTT(30)
  <2>4. PICK f \in [0 .. n -> W] : f[0] = g /\ \A k \in 1 .. n : f[k] = Op[k][f[k - 1]]
    BY <2>3 DEF first
  <2>5. \A k \in 0 .. n : k # 0 => k \in 1 .. n /\ f[k - 1] \in W  BY <1>1
  <2>6. \A k \in 0 .. n : f[k] = IF k = 0 THEN g ELSE DrawPass(f[k - 1], name)
    BY <2>2, <2>4, <2>5
  <2>7. Is(f)  BY <2>4, <2>6
  <2>8. QED  BY <2>7
<1>3. Is(F)  BY <1>2
<1>4. F[0] = g /\ \A k \in 1 .. n : F[k] = DrawPass(F[k - 1], name)
  <2> DEFINE G == [k \in 0 .. n |-> IF k = 0 THEN g ELSE DrawPass(F[k - 1], name)]
  <2>1. F = G  BY <1>3
  <2>2. G[0] = g /\ \A k \in 1 .. n : G[k] = DrawPass(F[k - 1], name)
    <3> HIDE DEF F
    <3>1. QED  BY <1>1
  <2> HIDE DEF F, G
  <2>3. QED  BY <2>1, <2>2
<1>5. DrawPasses(g, name, passes) = F[n]  BY DEF DrawPasses, n
<1> HIDE DEF F
<1> DEFINE S == {k \in 0 .. n : F[k] \in W}
<1>6. \A k \in 0 .. n : k \in S
  <2>1. 0 \in S  BY <1>1, <1>4
  <2>2. \A k \in 1 .. n : k - 1 \in S => k \in S  BY <1>4
  <2> HIDE DEF S
  <2>3. QED  BY <1>1, <2>1, <2>2, UpTo
<1>7. \A k \in 0 .. n : F[k] \in W  BY <1>6
<1>8. n # 0 => n - 1 \in 0 .. n /\ n \in 1 .. n  BY <1>1
<1>9. n \in 0 .. n  BY <1>1
<1> HIDE DEF S
<1>10. QED  BY <1>4, <1>5, <1>7, <1>8, <1>9 DEF n

(* All passes of a process; none may have been asked for.                  *)
LEMMA DrawPassesAre ==
  ASSUME NEW g \in Gfx, NEW name \in Names, Begun(g) \/ Passing(g),
         NEW passes, Len(passes) \in Nat
  PROVE  LET h == DrawPasses(g, name, passes)
         IN h \in Gfx /\ SameUse(g, h) /\ (Begun(h) \/ h = g)
<1> DEFINE W == {x \in Gfx : SameUse(g, x) /\ (Begun(x) \/ x = g)}
<1>1. g \in W  BY SameUseOnce
<1>2. ASSUME NEW x \in W PROVE DrawPass(x, name) \in W
  <2>1. x \in Gfx /\ SameUse(g, x) /\ (Begun(x) \/ Passing(x))  OBVIOUS
  <2> DEFINE y == DrawPass(x, name)
  <2>2. y \in Gfx /\ SameUse(x, y) /\ Begun(y)  BY <2>1, DrawPassIs
  <2> HIDE DEF y
  <2>3. SameUse(g, y)  BY <2>1, <2>2, SameUseTwice
  <2>4. QED  BY <2>2, <2>3 DEF y
<1> HIDE DEF W
<1>3. DrawPasses(g, name, passes) \in W  BY <1>1, <1>2, DrawPassesKeep
<1>4. QED  BY <1>3 DEF W

(* The graphics state between two processes, and between those of a list   *)
(* of post processes.                                                      *)
Everywhere(g) == \A i \in RT : g.rt[i].immediate = g.immediate
Between(g) ==
  /\ g \in Gfx /\ Idle(g) /\ Refs(g) /\ Everywhere(g)
  /\ g.immediate => \A i \in RT : g.rt[i].previous = NULL /\ g.rt[i].index = i
Posting(g) ==
  /\ g \in Gfx /\ Begun(g) /\ Everywhere(g) /\ g.lost \in {0, 1}
  /\ \A i \in RT : g.rt[i].enabled /\ g.rt[i].index = i

(* From the targets of a process to what they are after it.                *)
LEMMA ProcessIs ==
  ASSUME NEW g, Between(g), NEW u \in Gfx, SameHold(g, u),
         g.immediate => \A i \in RT : u.rt[i].index = i,
         NEW mode \in {"NORMAL", "POST"}, NEW b, b = RenderBegin(u, mode),
         NEW e \in Gfx, SameUse(b, e), Begun(e)
  PROVE  LET h == RenderEnd(e)
         IN Between(h) /\ h.immediate = g.immediate /\ (Clean(g) => Clean(h))
<1> DEFINE h == RenderEnd(e)
<1>1. /\ Idle(u) /\ Refs(u) /\ Everywhere(u) /\ u.immediate = g.immediate /\ (Clean(g) => Clean(u))
      /\ \A i \in RT : u.rt[i].previous = g.rt[i].previous
  BY DEF Between, SameHold, Idle, Refs, Everywhere, Clean
<1>2. /\ h \in Gfx /\ Idle(h) /\ Refs(h)
      /\ h.immediate = u.immediate
      /\ \A i \in RT : h.rt[i].index = u.rt[i].index /\ h.rt[i].immediate = u.rt[i].immediate
      /\ Clean(u) => Clean(h)
      /\ \A i \in RT : u.rt[i].previous = NULL => h.rt[i].previous = NULL
  BY <1>1, RoundIs
<1> HIDE DEF h
<1>3. Everywhere(h)  BY <1>1, <1>2 DEF Everywhere
<1>4. g.immediate => \A i \in RT : h.rt[i].previous = NULL /\ h.rt[i].index = i
  BY <1>1, <1>2 DEF Between
<1>5. QED  BY <1>1, <1>2, <1>3, <1>4 DEF Between, h

(* One normal process.                                                     *)
LEMMA NormalIs ==
  ASSUME NEW g, Between(g), NEW p, IsProcess(p), p.name \in Names, p.targets = <<>> <=> g.immediate,
         NEW passes, Len(passes) \in Nat
  PROVE  LET h == RenderEnd(DrawPasses(NormalBegin(g, p), p.name, passes))
         IN Between(h) /\ h.immediate = g.immediate /\ (Clean(g) => Clean(h))
<1> DEFINE d == DisableAllRenderTargets(g)
           u == UseTargets(d, p)
           none == (p.targets = <<>>)
           w == SetImmediateWrite(u, none)
           b == RenderBegin(u, "NORMAL")
           c == IF p.clear THEN RenderEndPass(Clear(RenderBeginPass(b), p.name)) ELSE b
           e == DrawPasses(c, p.name, passes)
           h == RenderEnd(e)
<1>1. g \in Gfx  BY DEF Between
<1>2. d \in Gfx /\ SameHold(g, d) /\ \A i \in RT : d.rt[i].index = g.rt[i].index
  BY <1>1, DisableIs
<1> HIDE DEF d
<1>3. u \in Gfx /\ SameHold(d, u) /\ (p.targets = <<>> => \A i \in RT : u.rt[i].index = d.rt[i].index)
  BY <1>2, UseIs
<1> HIDE DEF u
<1>4. SameHold(g, u)  BY <1>2, <1>3 DEF SameHold
<1>5. g.immediate => \A i \in RT : u.rt[i].index = i
  BY <1>2, <1>3 DEF Between
<1>6. w = u
  <2>1. u.immediate = none
    <3>1. u.immediate = g.immediate /\ g.immediate \in BOOLEAN  BY <1>1, <1>4 DEF SameHold, Gfx
    <3>2. QED  BY <3>1
  <2> HIDE DEF none
  <2>2. QED  BY <2>1 DEF SetImmediateWrite
<1>7. NormalBegin(g, p) = c  BY <1>6 DEF NormalBegin, u, d
<1> HIDE DEF w, none
<1>8. b \in Gfx /\ Begun(b)
  <2>1. Idle(u) /\ Refs(u)  BY <1>4 DEF Between, SameHold, Idle, Refs
  <2>2. "NORMAL" \in {"NORMAL", "POST"}  OBVIOUS
  <2>3. QED  BY <1>3, <2>1, <2>2, BeginIs
<1> HIDE DEF b
<1>9. c \in Gfx /\ Begun(c) /\ SameUse(b, c)
  <2>1. CASE p.clear
    <3> DEFINE x == RenderBeginPass(b)
               y == Clear(x, p.name)
               z == RenderEndPass(y)
    <3>1. x \in Gfx /\ SameUse(b, x) /\ Passing(x)  BY <1>8, BeginPassIs
    <3> HIDE DEF x
    <3>2. y \in Gfx /\ SameUse(x, y) /\ Passing(y)  BY <3>1, ClearIs
    <3> HIDE DEF y
    <3>3. z \in Gfx /\ SameUse(y, z) /\ Begun(z)  BY <3>2, EndPassIs
    <3> HIDE DEF z
    <3>4. SameUse(b, z)  BY <3>1, <3>2, <3>3, SameUseTwice
    <3>5. c = z  BY <2>1 DEF x, y, z
    <3>6. QED  BY <3>3, <3>4, <3>5
  <2>2. CASE ~ p.clear
    <3>1. c = b  BY <2>2
    <3>2. QED  BY <1>8, <3>1, SameUseOnce
  <2>3. QED  BY <2>1, <2>2
<1> HIDE DEF c
<1>10. e \in Gfx /\ SameUse(c, e) /\ Begun(e)  BY <1>9, DrawPassesAre
<1> HIDE DEF e
<1>11. SameUse(b, e)  BY <1>9, <1>10, SameUseTwice
<1>12. Between(h) /\ h.immediate = g.immediate /\ (Clean(g) => Clean(h))
  <2>1. "NORMAL" \in {"NORMAL", "POST"} /\ b = RenderBegin(u, "NORMAL")  BY DEF b
  <2>2. QED  BY <1>3, <1>4, <1>5, <1>10, <1>11, <2>1, ProcessIs
<1>13. QED  BY <1>7, <1>12 DEF e

(* What stands for a normal process in a stage without any.                *)
LEMMA DefaultIs ==
  ASSUME NEW g, Between(g), NEW passes, Len(passes) \in Nat
  PROVE  LET b == RenderBegin(EnableAllRenderTargets(g), "NORMAL")
             h == RenderEnd(RenderEndPass(DrawPasses(Clear(RenderBeginPass(b), "default"), "default", passes)))
         IN Between(h) /\ h.immediate = g.immediate /\ (Clean(g) => Clean(h))
<1> DEFINE u == EnableAllRenderTargets(g)
           b == RenderBegin(u, "NORMAL")
           x == RenderBeginPass(b)
           y == Clear(x, "default")
           z == DrawPasses(y, "default", passes)
           e == RenderEndPass(z)
           h == RenderEnd(e)
<1>1. g \in Gfx /\ "default" \in Names  BY DEF Between, Names
<1>2. u \in Gfx /\ SameHold(g, u) /\ \A i \in RT : u.rt[i].index = i  BY <1>1, EnableIs
<1> HIDE DEF u
<1>3. b \in Gfx /\ Begun(b)
  <2>1. Idle(u) /\ Refs(u)  BY <1>2 DEF Between, SameHold, Idle, Refs
  <2>2. "NORMAL" \in {"NORMAL", "POST"}  OBVIOUS
  <2>3. QED  BY <1>2, <2>1, <2>2, BeginIs
<1> HIDE DEF b
<1>4. x \in Gfx /\ SameUse(b, x) /\ Passing(x)  BY <1>3, BeginPassIs
<1> HIDE DEF x
<1>5. y \in Gfx /\ SameUse(x, y) /\ Passing(y)  BY <1>1, <1>4, ClearIs
<1> HIDE DEF y
<1>6. z \in Gfx /\ SameUse(y, z) /\ (Begun(z) \/ Passing(z))  BY <1>1, <1>5, DrawPassesAre
<1> HIDE DEF z
<1>7. e \in Gfx /\ SameUse(z, e) /\ Begun(e)  BY <1>6, EndPassIs
<1> HIDE DEF e
<1>8. SameUse(b, e)
  <2>1. SameUse(b, y)  BY <1>4, <1>5, SameUseTwice
  <2>2. SameUse(b, z)  BY <1>6, <2>1, SameUseTwice
  <2>3. QED  BY <1>7, <2>2, SameUseTwice
<1>9. Between(h) /\ h.immediate = g.immediate /\ (Clean(g) => Clean(h))
  <2>1. "NORMAL" \in {"NORMAL", "POST"} /\ b = RenderBegin(u, "NORMAL")  BY DEF b
  <2>2. QED  BY <1>2, <1>7, <1>8, <2>1, ProcessIs
<1>10. QED  BY <1>9 DEF e, z, y, x, b, u

(* The list of post processes begins.                                      *)
LEMMA PostBeginIs ==
  ASSUME NEW g, Between(g)
  PROVE  LET h == RenderBegin(EnableAllRenderTargets(g), "POST")
         IN Posting(h) /\ h.immediate = g.immediate /\ (Clean(g) => h.lost = 0)
<1> DEFINE u == EnableAllRenderTargets(g)
           h == RenderBegin(u, "POST")
<1>1. g \in Gfx  BY DEF Between
<1>2. u \in Gfx /\ SameHold(g, u) /\ \A i \in RT : u.rt[i].index = i /\ u.rt[i].enabled  BY <1>1, EnableIs
<1> HIDE DEF u
<1>3. Idle(u) /\ Refs(u) /\ Everywhere(u) /\ u.immediate = g.immediate /\ (Clean(g) => Clean(u))
  BY <1>2 DEF Between, SameHold, Idle, Refs, Everywhere, Clean
<1>4. h \in Gfx /\ Begun(h) /\ SamePlan(u, h) /\ h.lost \in {0, 1} /\ (h.lost = 1 => ~ Clean(u))
  <2>1. "POST" \in {"NORMAL", "POST"}  OBVIOUS
  <2>2. QED  BY <1>2, <1>3, <2>1, BeginIs
<1> HIDE DEF h
<1>5. /\ h.immediate = u.immediate
      /\ \A i \in RT : /\ h.rt[i].enabled /\ h.rt[i].index = i
                       /\ h.rt[i].immediate = u.rt[i].immediate
  BY <1>2, <1>4 DEF SamePlan
<1>6. Everywhere(h)  BY <1>3, <1>5 DEF Everywhere
<1>7. Posting(h)  BY <1>4, <1>5, <1>6 DEF Posting
<1>8. h.immediate = g.immediate /\ (Clean(g) => h.lost = 0)  BY <1>3, <1>4, <1>5
<1>9. QED  BY <1>7, <1>8 DEF h, u

(* And it ends: nothing is held.                                           *)
LEMMA PostEndIs ==
  ASSUME NEW g, Posting(g)
  PROVE  LET h == RenderEnd(g)
         IN Between(h) /\ h.immediate = g.immediate /\ h.lost = g.lost
            /\ \A i \in RT : h.rt[i].previous = NULL
<1> DEFINE h == RenderEnd(g)
<1>1. /\ h \in Gfx /\ Idle(h) /\ SamePlan(g, h) /\ h.lost = g.lost
      /\ \A i \in RT : g.rt[i].enabled => h.rt[i].previous = NULL
  BY EndIs DEF Posting
<1> HIDE DEF h
<1>2. \A i \in RT : /\ h.rt[i].previous = NULL /\ h.rt[i].index = i
                    /\ h.rt[i].immediate = g.rt[i].immediate
  BY <1>1 DEF Posting, SamePlan
<1>3. h.immediate = g.immediate /\ h.lost \in {0, 1}  BY <1>1 DEF SamePlan, Posting
<1>4. Refs(h)  BY <1>2, <1>3 DEF Refs
<1>5. Everywhere(h)  BY <1>2, <1>3 DEF Everywhere, Posting
<1>6. QED  BY <1>1, <1>2, <1>3, <1>4, <1>5 DEF Between, h

(* One post process; x and image are what it draws and where.              *)
LEMMA PostIs ==
  ASSUME NEW g, Posting(g), NEW p, IsProcess(p), p.name \in Names, g.immediate => p.immediate,
         \A e \in DOMAIN p.targets : p.targets[e].rt = e - 1
  PROVE  LET set == SetImmediateWrite(g, p.immediate)
             begun == RenderBeginPass(IF p.immediate THEN set ELSE UseTargets(set, p))
         IN /\ begun \in Gfx
            /\ \A result \in Images :
                 LET h == RenderEndPass([begun EXCEPT !.image[begun.target[0]] = result])
                 IN Posting(h) /\ h.immediate = p.immediate /\ h.lost = g.lost
<1> DEFINE set == SetImmediateWrite(g, p.immediate)
           u == IF p.immediate THEN set ELSE UseTargets(set, p)
           begun == RenderBeginPass(u)
<1>1. g \in Gfx /\ p.immediate \in BOOLEAN  BY DEF Posting, IsProcess
<1>2. /\ set \in Gfx /\ set.immediate = p.immediate /\ set.lost = g.lost
      /\ (\A i \in RT : g.rt[i].immediate = g.immediate) => \A i \in RT : set.rt[i].immediate = p.immediate
      /\ \A i \in RT : /\ set.rt[i].state = g.rt[i].state /\ set.rt[i].enabled = g.rt[i].enabled
                       /\ set.rt[i].index = g.rt[i].index
  BY <1>1, ImmediateIs
<1> HIDE DEF set
<1>3. Posting(set)
  <2>1. Begun(set)  BY <1>2 DEF Begun, Posting
  <2>2. QED  BY <1>2, <2>1 DEF Posting, Everywhere
<1>4. Posting(u) /\ u.immediate = p.immediate /\ u.lost = g.lost
  <2>1. CASE p.immediate
    <3>1. u = set  BY <2>1
    <3>2. QED  BY <1>2, <1>3, <3>1
  <2>2. CASE ~ p.immediate
    <3> DEFINE x == UseTargets(set, p)
    <3>1. /\ x \in Gfx /\ SameHold(set, x)
          /\ \A i \in RT : /\ set.rt[i].index = i => x.rt[i].index = i
                           /\ set.rt[i].enabled => x.rt[i].enabled
      BY <1>2, UseIs
    <3>2. u = x  BY <2>2
    <3> HIDE DEF x
    <3>3. /\ \A i \in RT : x.rt[i].index = i /\ x.rt[i].enabled /\ x.rt[i].state = set.rt[i].state
                           /\ x.rt[i].immediate = set.rt[i].immediate /\ set.rt[i].enabled
          /\ x.immediate = set.immediate /\ x.lost = set.lost
      BY <1>3, <3>1 DEF Posting, SameHold
    <3>4. Begun(x)  BY <1>3, <3>3 DEF Posting, Begun
    <3>5. Everywhere(x)  BY <1>3, <3>3 DEF Posting, Everywhere
    <3>6. Posting(x)  BY <1>3, <3>1, <3>3, <3>4, <3>5 DEF Posting
    <3>7. QED  BY <1>2, <3>2, <3>3, <3>6
  <2>3. QED  BY <2>1, <2>2
<1> HIDE DEF u
<1>5. begun \in Gfx /\ SameUse(u, begun) /\ Passing(begun)
  BY <1>4, BeginPassIs DEF Posting
<1> HIDE DEF begun
<1>6. ASSUME NEW result \in Images, NEW h, h = RenderEndPass([begun EXCEPT !.image[begun.target[0]] = result])
      PROVE  Posting(h) /\ h.immediate = p.immediate /\ h.lost = g.lost
  <2> DEFINE image == [begun.image EXCEPT ![begun.target[0]] = result]
             x == [begun EXCEPT !.image = image]
  <2>1. h = RenderEndPass(x)  BY <1>6
  <2>2. image \in [Surfaces -> Images]  BY <1>5 DEF Gfx
  <2> HIDE DEF image
  <2>3. x \in Gfx /\ SameUse(begun, x) /\ Passing(x)  BY <1>5, <2>2, NewImagesIs
  <2> HIDE DEF x
  <2>4. h \in Gfx /\ SameUse(x, h) /\ Begun(h)  BY <2>1, <2>3, EndPassIs
  <2>5. SameUse(u, h)  BY <1>5, <2>3, <2>4, SameUseTwice
  <2>6. /\ h.immediate = u.immediate /\ h.lost = u.lost
        /\ \A i \in RT : h.rt[i].enabled = u.rt[i].enabled /\ h.rt[i].index = u.rt[i].index
                         /\ h.rt[i].immediate = u.rt[i].immediate
    BY <2>5 DEF SameUse, SameTarget
  <2>7. Posting(h)  BY <1>4, <2>4, <2>6 DEF Posting, Everywhere
  <2>8. QED  BY <1>4, <2>6, <2>7
<1>7. QED  BY <1>5, <1>6 DEF begun, u, set

(* The return from direct writes, when a frame begins.                     *)
LEMMA FrameIs ==
  ASSUME NEW g, Between(g), \A i \in RT : g.rt[i].previous = NULL
  PROVE  LET h == [SetImmediateWrite(g, FALSE) EXCEPT !.image = [s \in Surfaces |-> Old], !.lost = 0]
         IN Between(h) /\ h.immediate = FALSE /\ (~ g.immediate => Clean(h))
<1> DEFINE w == SetImmediateWrite(g, FALSE)
           image == [s \in Surfaces |-> Old]
           h == [w EXCEPT !.image = image, !.lost = 0]
<1>1. g \in Gfx /\ FALSE \in BOOLEAN  BY DEF Between
<1>2. /\ w \in Gfx /\ w.immediate = FALSE
      /\ (\A i \in RT : g.rt[i].immediate = g.immediate) => \A i \in RT : w.rt[i].immediate = FALSE
      /\ \A i \in RT : /\ w.rt[i].state = g.rt[i].state /\ w.rt[i].enabled = g.rt[i].enabled
                       /\ w.rt[i].index = g.rt[i].index
                       /\ w.rt[i].previous # NULL => g.rt[i].previous # NULL \/ g.rt[i].index = 0
      /\ g.immediate = FALSE => w = g
  BY <1>1, ImmediateIs
<1> HIDE DEF w
<1>3. image \in [Surfaces -> Images]  BY DEF Images
<1> HIDE DEF image
<1>4. h \in Gfx /\ h.rt = w.rt /\ h.immediate = FALSE /\ h.lost = 0  BY <1>2, <1>3 DEF Gfx
<1> HIDE DEF h
<1>5. Idle(h)  BY <1>2, <1>4 DEF Between, Idle
<1>6. Everywhere(h)  BY <1>2, <1>4 DEF Between, Everywhere
<1>7. ~ g.immediate => \A i \in RT : h.rt[i].previous = NULL
  <2>1. ~ g.immediate => g.immediate = FALSE  BY <1>1 DEF Gfx
  <2>2. QED  BY <1>2, <1>4, <2>1
<1>8. Refs(h)
  <2>1. ASSUME NEW i \in RT, h.rt[i].previous # NULL PROVE i = 0
    <3>1. g.immediate /\ g.rt[i].index = 0  BY <1>2, <1>4, <1>7, <2>1
    <3>2. QED  BY <3>1 DEF Between
  <2>2. QED  BY <1>4, <2>1 DEF Refs
<1>9. QED  BY <1>4, <1>5, <1>6, <1>7, <1>8 DEF Between, Clean, h, w, image

(* What the assumptions say of a stage.                                    *)
GoodPost(s, k, p) ==
  /\ IsProcess(p) /\ p.name \in Names /\ <<"RT", 0>> \in p.reads
  /\ \A e \in DOMAIN p.targets : p.targets[e].rt = e - 1
  /\ Wrote(s, k) => p.immediate
GoodNormal(s, k, p) ==
  IsProcess(p) /\ p.name \in Names /\ (p.targets = <<>> <=> Wrote(s, k))
GoodList(list) == Len(list) \in Nat /\ DOMAIN list = 1 .. Len(list) /\ (list = <<>> <=> Len(list) = 0)

(* A list has a length, and elements up to it.                             *)
LEMMA ListIs ==
  ASSUME NEW list, IsList(list)
  PROVE  GoodList(list)
<1> DEFINE X == Range(list)
<1>1. list \in Seq(X)  BY DEF IsList
<1> HIDE DEF X
<1>2. QED  BY <1>1 DEF GoodList

(* The assumptions, of a stage and of each process in it.                  *)
LEMMA SceneIs ==
  ASSUME NEW s \in Scenes
  PROVE  /\ GoodList(s)
         /\ \A k \in DOMAIN s :
              /\ GoodList(s[k].normal) /\ GoodList(s[k].post)
              /\ \A j \in DOMAIN s[k].normal : GoodNormal(s, k, s[k].normal[j])
              /\ \A j \in DOMAIN s[k].post : GoodPost(s, k, s[k].post[j])
              /\ \A i, j \in DOMAIN s[k].post : i < j /\ s[k].post[i].immediate => s[k].post[j].immediate
<1>1. IsList(s)  BY ScenesWellFormed
<1>2. ASSUME NEW k \in DOMAIN s
      PROVE  /\ IsList(s[k].normal) /\ IsList(s[k].post)
             /\ \A p \in Range(s[k].normal) \cup Range(s[k].post) : IsProcess(p) /\ p.name \in Names
             /\ \A p \in Range(s[k].post) :
                  <<"RT", 0>> \in p.reads /\ \A i \in DOMAIN p.targets : p.targets[i].rt = i - 1
  <2>1. \A p \in Range(s[k].normal) \cup Range(s[k].post) : p.name \in Names
    BY DEF Names
  <2>2. QED  BY <2>1, ScenesWellFormed
<1>3. ASSUME NEW k \in DOMAIN s
      PROVE  /\ \A p \in Range(s[k].normal) : p.targets = <<>> <=> Wrote(s, k)
             /\ \A p \in Range(s[k].post) : Wrote(s, k) => p.immediate
             /\ \A i, j \in DOMAIN s[k].post : i < j /\ s[k].post[i].immediate => s[k].post[j].immediate
  BY DirectWritesLast
<1>4. ASSUME NEW k \in DOMAIN s, NEW j \in DOMAIN s[k].normal PROVE GoodNormal(s, k, s[k].normal[j])
  <2>1. s[k].normal[j] \in Range(s[k].normal)  BY DEF Range
  <2>2. QED  BY <1>2, <1>3, <2>1 DEF GoodNormal
<1>5. ASSUME NEW k \in DOMAIN s, NEW j \in DOMAIN s[k].post PROVE GoodPost(s, k, s[k].post[j])
  <2>1. s[k].post[j] \in Range(s[k].post)  BY DEF Range
  <2>2. QED  BY <1>2, <1>3, <2>1 DEF GoodPost
<1>6. \A k \in DOMAIN s : GoodList(s[k].normal) /\ GoodList(s[k].post)  BY <1>2, ListIs
<1>7. GoodList(s)  BY <1>1, ListIs
<1>8. QED  BY <1>3, <1>4, <1>5, <1>6, <1>7

(* Direct writes, from stage to stage.                                     *)
LEMMA WroteFirst ==
  ASSUME NEW s
  PROVE  ~ Wrote(s, 1)
<1>1. 1 .. 1 - 1 = {}  OBVIOUS
<1>2. QED  BY <1>1 DEF Wrote

(* A stage adds what its post processes write.                             *)
LEMMA WroteNext ==
  ASSUME NEW s, NEW k \in Nat, k # 0
  PROVE  Wrote(s, k + 1) <=> Wrote(s, k) \/ \E j \in DOMAIN s[k].post : s[k].post[j].immediate
<1>1. 1 .. k + 1 - 1 = (1 .. k - 1) \cup {k}  OBVIOUS
<1>2. (\E p \in Range(s[k].post) : p.immediate) <=> \E j \in DOMAIN s[k].post : s[k].post[j].immediate
  BY DEF Range
<1>3. QED  BY <1>1, <1>2 DEF Wrote

(* What was written stays written.                                         *)
LEMMA WroteLater ==
  ASSUME NEW s, NEW k \in Nat, NEW n \in Nat, k <= n, Wrote(s, k)
  PROVE  Wrote(s, n)
<1>1. PICK h \in 1 .. k - 1 : \E p \in Range(s[h].post) : p.immediate  BY DEF Wrote
<1>2. h \in 1 .. n - 1  OBVIOUS
<1>3. QED  BY <1>1, <1>2 DEF Wrote

-----------------------------------------------------------------------------
(* The inductive invariant.                                                *)

(* Where the frame is in the scene s.                                      *)
Steps == {"frame", "normal", "default", "postbegin", "post", "postend", "copy", "presented", "crashed"}
InPlace(s, p) ==
  /\ p \in Steps \X Nat \X Nat
  /\ p[1] \in {"normal", "default", "postbegin", "post", "postend"} => p[2] \in DOMAIN s
  /\ p[1] = "normal" => p[3] \in DOMAIN s[p[2]].normal
  /\ p[1] = "post" => p[3] \in DOMAIN s[p[2]].post
  /\ p[1] = "postbegin" => s[p[2]].post # <<>>

(* What the display does with its targets there, whether it writes to the  *)
(* back buffer, and the references it has lost.                            *)
Writing(s, p, g) ==
  /\ g.immediate => Wrote(s, Len(s) + 1)
  /\ p[1] \in {"normal", "default", "postbegin"} => (g.immediate <=> Wrote(s, p[2]))
  /\ p[1] = "post" => (g.immediate <=> Wrote(s, p[2]) \/ \E j \in 1 .. p[3] - 1 : s[p[2]].post[j].immediate)
  /\ p[1] = "postend" => (g.immediate <=> Wrote(s, p[2] + 1))
  /\ p[1] \in {"copy", "presented", "crashed"} => (g.immediate <=> Wrote(s, Len(s) + 1))
Using(s, p, g) ==
  /\ p[1] \in {"post", "postend"} => Posting(g) /\ (~ Wrote(s, Len(s) + 1) => g.lost = 0)
  /\ p[1] \notin {"post", "postend"} => Between(g) /\ (~ Wrote(s, Len(s) + 1) => Clean(g))
  /\ p[1] = "frame" => \A i \in RT : g.rt[i].previous = NULL
Going(s, p, g) == InPlace(s, p) /\ Writing(s, p, g) /\ Using(s, p, g)

(* What the effects of the post processes keep.                            *)
Kept(s, textures) ==
  /\ DOMAIN textures = DOMAIN s
  /\ \A k \in DOMAIN s : /\ DOMAIN textures[k] = DOMAIN s[k].post
                         /\ \A j \in DOMAIN s[k].post : textures[k][j] \in [s[k].post[j].reads -> Places]

IInv ==
  /\ scene \in Scenes
  /\ Going(scene, pc, gfx)
  /\ lists = NoLists
  /\ Kept(scene, params)
  /\ EachOnce(drawn.asked, drawn.passes)

(* BeginStage and BeginPost of the scene s.                                *)
StageOf(s, k) ==
  IF k > Len(s) THEN <<"copy", k, 0>>
  ELSE IF s[k].normal = <<>> THEN <<"default", k, 0>> ELSE <<"normal", k, 1>>
PostOf(s, k) == IF s[k].post = <<>> THEN StageOf(s, k + 1) ELSE <<"postbegin", k, 0>>

(* Where the frame goes when stage k begins.                               *)
LEMMA StageBegins ==
  ASSUME NEW s \in Scenes, NEW k \in 1 .. Len(s) + 1, NEW g, Between(g), g.immediate <=> Wrote(s, k),
         ~ Wrote(s, Len(s) + 1) => Clean(g)
  PROVE  Going(s, StageOf(s, k), g)
<1> DEFINE p == StageOf(s, k)
<1>1. /\ Len(s) \in Nat /\ DOMAIN s = 1 .. Len(s)
      /\ \A h \in DOMAIN s : GoodList(s[h].normal)
  BY SceneIs DEF GoodList
<1>2. g.immediate => Wrote(s, Len(s) + 1)
  <2> DEFINE n == Len(s) + 1
  <2>1. k \in Nat /\ n \in Nat /\ k <= n  BY <1>1
  <2> HIDE DEF n
  <2>2. Wrote(s, k) => Wrote(s, n)  BY <2>1, WroteLater
  <2>3. QED  BY <2>2 DEF n
<1>3. Using(s, p, g)
  <2>1. p[1] \in {"copy", "default", "normal"}  BY DEF StageOf
  <2> HIDE DEF p
  <2>2. QED  BY <2>1 DEF Using
<1>4. CASE k > Len(s)
  <2>1. p = <<"copy", k, 0>> /\ k = Len(s) + 1 /\ k \in Nat  BY <1>1, <1>4 DEF StageOf
  <2> HIDE DEF p
  <2>2. InPlace(s, p)  BY <2>1 DEF InPlace, Steps
  <2>3. Writing(s, p, g)  BY <1>2, <2>1 DEF Writing
  <2>4. QED  BY <1>3, <2>2, <2>3 DEF Going, p
<1>5. CASE ~ (k > Len(s))
  <2>1. k \in DOMAIN s /\ k \in Nat  BY <1>1, <1>5
  <2>2. /\ p \in {<<"default", k, 0>>, <<"normal", k, 1>>}
        /\ p = <<"normal", k, 1>> => s[k].normal # <<>>
    BY <1>5 DEF StageOf
  <2> HIDE DEF p
  <2>3. s[k].normal # <<>> => 1 \in DOMAIN s[k].normal  BY <1>1, <2>1 DEF GoodList
  <2>4. InPlace(s, p)  BY <2>1, <2>2, <2>3 DEF InPlace, Steps
  <2>5. Writing(s, p, g)  BY <1>2, <2>2 DEF Writing
  <2>6. QED  BY <1>3, <2>4, <2>5 DEF Going, p
<1>6. QED  BY <1>4, <1>5

(* And where it goes when the normal processes of stage k are done.        *)
LEMMA PostBegins ==
  ASSUME NEW s \in Scenes, NEW k \in DOMAIN s, NEW g, Between(g), g.immediate <=> Wrote(s, k),
         ~ Wrote(s, Len(s) + 1) => Clean(g)
  PROVE  Going(s, PostOf(s, k), g)
<1>1. Len(s) \in Nat /\ DOMAIN s = 1 .. Len(s) /\ GoodList(s[k].post)
  BY SceneIs DEF GoodList
<1>2. CASE s[k].post = <<>>
  <2>1. DOMAIN s[k].post = {}  BY <1>2
  <2> DEFINE n == k + 1
  <2>2. n \in 1 .. Len(s) + 1 /\ k \in Nat /\ k # 0  BY <1>1
  <2>3. Wrote(s, n) <=> Wrote(s, k)  BY <2>1, <2>2, WroteNext
  <2> HIDE DEF n
  <2>4. Going(s, StageOf(s, n), g)  BY <2>2, <2>3, StageBegins
  <2>5. QED  BY <1>2, <2>4 DEF PostOf, n
<1>3. CASE s[k].post # <<>>
  <2> DEFINE p == <<"postbegin", k, 0>>
  <2>1. PostOf(s, k) = p  BY <1>3 DEF PostOf
  <2>2. InPlace(s, p)  BY <1>1, <1>3 DEF InPlace, Steps
  <2>3. g.immediate => Wrote(s, Len(s) + 1)
    <3> DEFINE n == Len(s) + 1
    <3>1. k \in Nat /\ n \in Nat /\ k <= n  BY <1>1
    <3> HIDE DEF n
    <3>2. Wrote(s, k) => Wrote(s, n)  BY <3>1, WroteLater
    <3>3. QED  BY <3>2 DEF n
  <2>4. Writing(s, p, g)  BY <2>3 DEF Writing
  <2>5. Using(s, p, g)  BY DEF Using
  <2> HIDE DEF p
  <2>6. QED  BY <2>1, <2>2, <2>4, <2>5 DEF Going
<1>4. QED  BY <1>2, <1>3

(* Before the first frame.                                                 *)
LEMMA InitIs == Init => IInv
<1> SUFFICES ASSUME Init PROVE IInv
  OBVIOUS
<1> USE DEF Init
<1>1. 0 \in RT /\ RT \subseteq Nat  BY TargetsFinite
<1>2. \A i \in RT : NewTarget(i) \in TargetType  BY DEF NewTarget, TargetType
<1>3. gfx \in Gfx
  <2>1. gfx.rt \in [RT -> TargetType] /\ gfx.immediate \in BOOLEAN /\ gfx.lost \in Nat  BY <1>2
  <2>2. gfx.target \in [RT -> Places] /\ gfx.semantic \in [Semantics -> Places]  BY DEF Places, Surfaces
  <2>3. gfx.image \in [Surfaces -> Images]  BY DEF Images
  <2>4. gfx = [rt |-> gfx.rt, immediate |-> gfx.immediate, target |-> gfx.target,
               semantic |-> gfx.semantic, image |-> gfx.image, lost |-> gfx.lost]
    OBVIOUS
  <2>5. QED  BY <2>1, <2>2, <2>3, <2>4 DEF Gfx
<1>4. /\ gfx.immediate = FALSE /\ gfx.lost = 0
      /\ \A i \in RT : /\ gfx.rt[i].state = "UNKNOWN" /\ gfx.rt[i].previous = NULL
                       /\ gfx.rt[i].immediate = FALSE
  BY DEF NewTarget
<1>5. Between(gfx) /\ Clean(gfx)  BY <1>3, <1>4 DEF Between, Idle, Refs, Everywhere, Clean
<1>6. InPlace(scene, pc)  BY DEF InPlace, Steps
<1>7. Writing(scene, pc, gfx)  BY <1>4 DEF Writing
<1>8. Using(scene, pc, gfx)  BY <1>4, <1>5 DEF Using
<1>9. Kept(scene, params)  BY DEF Kept, Places
<1>10. EachOnce(drawn.asked, drawn.passes)
  <2> DEFINE none == <<>>
  <2>1. drawn.asked = none /\ drawn.passes = none  OBVIOUS
  <2>2. DOMAIN none = {} /\ Elements(none) = {}
    <3>1. Elements(<<>>) = {}  BY EmptyList
    <3>2. QED  BY <3>1
  <2>3. \A o : ~ Contains(none, o)  BY <2>2, ContainsIs
  <2> HIDE DEF none
  <2>4. \A o : {k \in DOMAIN none : Contains(none[k], o)} = {}  BY <2>2
  <2>5. Cardinality({}) = 0  BY FS_EmptySet
  <2>6. EachOnce(none, none)
    <3> SUFFICES ASSUME NEW o \in Objects
                 PROVE  /\ \A k \in DOMAIN none : Cardinality({j \in DOMAIN none[k] : none[k][j] = o}) <= 1
                        /\ Cardinality({k \in DOMAIN none : Contains(none[k], o)})
                             = IF Contains(none, o) THEN PassCount[Material[o]] ELSE 0
      BY DEF EachOnce
    <3>1. {k \in DOMAIN none : Contains(none[k], o)} = {} /\ ~ Contains(none, o)  BY <2>3, <2>4
    <3>2. Cardinality({k \in DOMAIN none : Contains(none[k], o)}) = 0  BY <2>5, <3>1
    <3>3. QED  BY <2>2, <3>1, <3>2
  <2>7. QED  BY <2>1, <2>6
<1>11. QED  BY <1>6, <1>7, <1>8, <1>9, <1>10 DEF IInv, Going

(* The display draws what it was asked; around is FALSE in one use, TRUE   *)
(* in the other.                                                           *)
LEMMA DrawIs ==
  ASSUME NEW requests \in Requests, NEW before, before = NoLists,
         NEW sorted, sorted = SortAll(RenderRequests(before, requests))
  PROVE  /\ Cleared(sorted) = NoLists /\ Len(AllPasses(sorted)) \in Nat
         /\ EachOnce(requests, AllPasses(sorted))
<1> DEFINE X == Lists(Objects)
           passes == AllPasses(sorted)
<1>1. Cleared(sorted) = NoLists /\ EachOnce(requests, passes) /\ passes \in Seq(X)  BY DrawnIsAsked
<1> HIDE DEF X, passes
<1>2. Len(passes) \in Nat  BY <1>1
<1>3. QED  BY <1>1, <1>2 DEF passes

(* Display::Update begins.                                                 *)
LEMMA BeginFrameKeeps == IInv /\ BeginFrame => IInv'
<1> SUFFICES ASSUME IInv, BeginFrame PROVE IInv'
  OBVIOUS
<1>1. /\ scene \in Scenes /\ Between(gfx) /\ (\A i \in RT : gfx.rt[i].previous = NULL)
      /\ gfx.immediate => Wrote(scene, Len(scene) + 1)
  BY DEF IInv, Going, Using, Writing, BeginFrame
<1>2. Between(gfx') /\ gfx'.immediate = FALSE /\ (~ gfx.immediate => Clean(gfx'))
  <2>1. gfx' = [SetImmediateWrite(gfx, FALSE) EXCEPT !.image = [s \in Surfaces |-> Old], !.lost = 0]
    BY DEF BeginFrame
  <2>2. QED  BY <1>1, <2>1, FrameIs
<1>3. Going(scene, StageOf(scene, 1), gfx')
  <2> DEFINE g == gfx'
             k == 1
  <2>1. k \in 1 .. Len(scene) + 1
    <3>1. Len(scene) \in Nat  BY <1>1, SceneIs DEF GoodList
    <3>2. QED  BY <3>1
  <2>2. g.immediate <=> Wrote(scene, k)  BY <1>2, WroteFirst
  <2>3. Between(g) /\ (~ Wrote(scene, Len(scene) + 1) => Clean(g))  BY <1>1, <1>2
  <2> HIDE DEF g, k
  <2>4. Going(scene, StageOf(scene, k), g)  BY <1>1, <2>1, <2>2, <2>3, StageBegins
  <2>5. QED  BY <2>4 DEF g, k
<1>4. pc' = StageOf(scene, 1)  BY DEF BeginFrame, BeginStage, StageOf
<1>5. QED  BY <1>3, <1>4 DEF IInv, BeginFrame

(* A normal process goes on to the next, or to the post processes.         *)
LEMMA NormalProcessKeeps == IInv /\ NormalProcess => IInv'
<1> SUFFICES ASSUME IInv, NormalProcess PROVE IInv'
  OBVIOUS
<1> DEFINE k == pc[2]
           j == pc[3]
           p == Process
<1>1. /\ scene \in Scenes /\ pc[1] = "normal" /\ k \in DOMAIN scene /\ j \in DOMAIN Stage.normal
      /\ pc \in Steps \X Nat \X Nat
      /\ p = scene[k].normal[j] /\ Stage = scene[k]
      /\ Between(gfx) /\ (gfx.immediate <=> Wrote(scene, k))
      /\ gfx.immediate => Wrote(scene, Len(scene) + 1)
      /\ ~ Wrote(scene, Len(scene) + 1) => Clean(gfx)
  BY DEF IInv, Going, Using, Writing, InPlace, NormalProcess, Stage, Process
<1>2. PICK requests \in Requests : Draw(requests, NormalBegin(gfx, p), p, FALSE)
  BY DEF NormalProcess
<1>3. GoodNormal(scene, k, p) /\ GoodList(Stage.normal)  BY <1>1, SceneIs
<1> DEFINE sorted == SortAll(RenderRequests(lists, requests))
           passes == AllPasses(sorted)
<1>4. /\ gfx' = RenderEnd(DrawPasses(NormalBegin(gfx, p), p.name, passes))
      /\ lists' = Cleared(sorted)
      /\ drawn' = [asked |-> requests, passes |-> passes]
  BY <1>2 DEF Draw
<1>5. Cleared(sorted) = NoLists /\ Len(passes) \in Nat /\ EachOnce(requests, passes)
  <2>1. lists = NoLists  BY DEF IInv
  <2>2. QED  BY <2>1, DrawIs
<1> HIDE DEF p, sorted, passes
<1>6. Between(gfx') /\ gfx'.immediate = gfx.immediate /\ (Clean(gfx) => Clean(gfx'))
  <2>1. IsProcess(p) /\ p.name \in Names /\ (p.targets = <<>> <=> gfx.immediate)
    BY <1>1, <1>3 DEF GoodNormal
  <2>2. QED  BY <1>1, <1>4, <1>5, <2>1, NormalIs
<1>7. Going(scene, pc', gfx')
  <2>1. CASE j < Len(Stage.normal)
    <3>1. pc' = [pc EXCEPT ![3] = j + 1]  BY <2>1 DEF NormalProcess
    <3>2. pc' = <<"normal", k, j + 1>> /\ k \in Nat /\ j + 1 \in Nat
      BY <1>1, <3>1
    <3>3. j + 1 \in DOMAIN scene[k].normal  BY <1>1, <1>3, <2>1 DEF GoodList
    <3> HIDE DEF k, j
    <3>4. InPlace(scene, pc')  BY <1>1, <3>2, <3>3 DEF InPlace, Steps
    <3>5. Writing(scene, pc', gfx')  BY <1>1, <1>6, <3>2 DEF Writing
    <3>6. Using(scene, pc', gfx')  BY <1>1, <1>6, <3>2 DEF Using
    <3>7. QED  BY <3>4, <3>5, <3>6 DEF Going
  <2>2. CASE ~ (j < Len(Stage.normal))
    <3>1. pc' = PostOf(scene, k)
      BY <2>2 DEF NormalProcess, BeginPost, PostOf, BeginStage, StageOf
    <3> DEFINE g == gfx'
    <3>2. Between(g) /\ (g.immediate <=> Wrote(scene, k)) /\ (~ Wrote(scene, Len(scene) + 1) => Clean(g))
      BY <1>1, <1>6
    <3> HIDE DEF g, k
    <3>3. Going(scene, PostOf(scene, k), g)  BY <1>1, <3>2, PostBegins
    <3>4. QED  BY <3>1, <3>3 DEF g
  <2>3. QED  BY <2>1, <2>2
<1>8. QED  BY <1>4, <1>5, <1>7 DEF IInv, NormalProcess

(* The default goes on to the post processes.                              *)
LEMMA DefaultDrawKeeps == IInv /\ DefaultDraw => IInv'
<1> SUFFICES ASSUME IInv, DefaultDraw PROVE IInv'
  OBVIOUS
<1> DEFINE k == pc[2]
           begun == RenderBeginPass(RenderBegin(EnableAllRenderTargets(gfx), "NORMAL"))
<1>1. /\ scene \in Scenes /\ k \in DOMAIN scene /\ Between(gfx) /\ (gfx.immediate <=> Wrote(scene, k))
      /\ ~ Wrote(scene, Len(scene) + 1) => Clean(gfx)
  BY DEF IInv, Going, Using, Writing, InPlace, DefaultDraw
<1>2. PICK requests \in Requests : Draw(requests, Clear(begun, "default"), DefaultProcess, TRUE)
  BY DEF DefaultDraw
<1> DEFINE sorted == SortAll(RenderRequests(lists, requests))
           passes == AllPasses(sorted)
<1>3. /\ gfx' = RenderEnd(RenderEndPass(DrawPasses(Clear(begun, "default"), "default", passes)))
      /\ lists' = Cleared(sorted)
      /\ drawn' = [asked |-> requests, passes |-> passes]
  BY <1>2 DEF Draw, DefaultProcess
<1>4. Cleared(sorted) = NoLists /\ Len(passes) \in Nat /\ EachOnce(requests, passes)
  <2>1. lists = NoLists  BY DEF IInv
  <2>2. QED  BY <2>1, DrawIs
<1> HIDE DEF sorted, passes
<1>5. Between(gfx') /\ gfx'.immediate = gfx.immediate /\ (Clean(gfx) => Clean(gfx'))
  BY <1>1, <1>3, <1>4, DefaultIs
<1>6. Going(scene, pc', gfx')
  <2>1. pc' = PostOf(scene, k)
    BY DEF DefaultDraw, BeginPost, PostOf, BeginStage, StageOf
  <2> DEFINE g == gfx'
  <2>2. Between(g) /\ (g.immediate <=> Wrote(scene, k)) /\ (~ Wrote(scene, Len(scene) + 1) => Clean(g))
    BY <1>1, <1>5
  <2> HIDE DEF g, k
  <2>3. Going(scene, PostOf(scene, k), g)  BY <1>1, <2>2, PostBegins
  <2>4. QED  BY <2>1, <2>3 DEF g
<1>7. QED  BY <1>3, <1>4, <1>6 DEF IInv, DefaultDraw

(* The first post process has the targets that were enabled.               *)
LEMMA PostBeginKeeps == IInv /\ PostBegin => IInv'
<1> SUFFICES ASSUME IInv, PostBegin PROVE IInv'
  OBVIOUS
<1> DEFINE k == pc[2]
<1>1. /\ scene \in Scenes /\ k \in DOMAIN scene /\ Stage = scene[k] /\ scene[k].post # <<>>
      /\ Between(gfx) /\ (gfx.immediate <=> Wrote(scene, k))
      /\ gfx.immediate => Wrote(scene, Len(scene) + 1)
      /\ ~ Wrote(scene, Len(scene) + 1) => Clean(gfx)
      /\ k \in Nat
  BY DEF IInv, Going, Using, Writing, InPlace, PostBegin, Stage
<1>2. pc' = <<"post", k, 1>> /\ gfx' = RenderBegin(EnableAllRenderTargets(gfx), "POST")
  BY DEF PostBegin
<1>3. Posting(gfx') /\ gfx'.immediate = gfx.immediate /\ (Clean(gfx) => gfx'.lost = 0)
  BY <1>1, <1>2, PostBeginIs
<1>4. 1 \in DOMAIN scene[k].post
  <2>1. GoodList(scene[k].post)  BY <1>1, SceneIs
  <2>2. QED  BY <1>1, <2>1 DEF GoodList
<1>5. 1 .. 1 - 1 = {}  OBVIOUS
<1> HIDE DEF k
<1>6. InPlace(scene, pc')  BY <1>1, <1>2, <1>4 DEF InPlace, Steps
<1>7. Writing(scene, pc', gfx')  BY <1>1, <1>2, <1>3, <1>5 DEF Writing
<1>8. Using(scene, pc', gfx')  BY <1>1, <1>2, <1>3 DEF Using
<1>9. QED  BY <1>6, <1>7, <1>8 DEF IInv, Going, PostBegin

(* What a post process reads, and what it leaves: begun is the graphics    *)
(* state it draws in, kept what its effect has.                            *)
Used(p, begun, kept) == [s \in p.reads |-> IF begun.semantic[s] # NULL THEN begun.semantic[s] ELSE kept[s]]
Undefined(p, begun, used) ==
  LET sources == {used[s] : s \in p.reads} \ {NULL}
  IN \/ used[<<"RT", 0>>] = NULL
     \/ sources \cap Targets(begun) # {}
     \/ <<"ORT", 0>> \in p.reads /\ Len(begun.image[used[<<"ORT", 0>>]]) # 1
Result(p, begun, used) == IF Undefined(p, begun, used) THEN Old ELSE Add(begun.image[used[<<"RT", 0>>]], p.name)

(* What is drawn is an image, and the textures that are kept are surfaces. *)
LEMMA ResultIs ==
  ASSUME NEW p, p.reads \subseteq Semantics, <<"RT", 0>> \in p.reads, p.name \in Names,
         NEW begun \in Gfx, NEW kept \in [p.reads -> Places],
         NEW used, used = Used(p, begun, kept)
  PROVE  used \in [p.reads -> Places] /\ Result(p, begun, used) \in Images
<1> DEFINE first == <<"RT", 0>>
<1>1. begun.semantic \in [Semantics -> Places] /\ begun.image \in [Surfaces -> Images]  BY DEF Gfx
<1>2. used \in [p.reads -> Places]  BY <1>1 DEF Used
<1>3. used[first] = NULL => Undefined(p, begun, used)  BY DEF Undefined
<1>4. first \in p.reads  OBVIOUS
<1>5. Result(p, begun, used) = IF Undefined(p, begun, used) THEN Old ELSE Add(begun.image[used[first]], p.name)
  BY DEF Result
<1> HIDE DEF first
<1>6. used[first] # NULL => Add(begun.image[used[first]], p.name) \in Images
  <2>1. used[first] # NULL => used[first] \in Surfaces  BY <1>2, <1>4 DEF Places
  <2>2. used[first] # NULL => begun.image[used[first]] \in Images  BY <1>1, <2>1
  <2>3. QED  BY <2>2, AddIs
<1>7. Old \in Images  BY DEF Images
<1>8. QED  BY <1>2, <1>3, <1>5, <1>6, <1>7

(* A post process writes directly once one before it did.                  *)
LEMMA PostProcessKeeps == IInv /\ PostProcess => IInv'
<1> SUFFICES ASSUME IInv, PostProcess PROVE IInv'
  OBVIOUS
<1> DEFINE k == pc[2]
           j == pc[3]
           p == Process
           set == SetImmediateWrite(gfx, p.immediate)
           begun == RenderBeginPass(IF p.immediate THEN set ELSE UseTargets(set, p))
           kept == params[k][j]
           used == Used(p, begun, kept)
           result == Result(p, begun, used)
<1>1. /\ scene \in Scenes /\ pc[1] = "post" /\ k \in DOMAIN scene /\ j \in DOMAIN Stage.post
      /\ pc \in Steps \X Nat \X Nat
      /\ p = scene[k].post[j] /\ Stage = scene[k]
      /\ gfx.immediate <=> Wrote(scene, k) \/ \E i \in 1 .. j - 1 : scene[k].post[i].immediate
      /\ Posting(gfx) /\ (~ Wrote(scene, Len(scene) + 1) => gfx.lost = 0)
  BY DEF IInv, Going, Using, Writing, InPlace, PostProcess, Stage, Process
<1>2. /\ params' = [params EXCEPT ![k][j] = used]
      /\ gfx' = RenderEndPass([begun EXCEPT !.image[begun.target[0]] = result])
  BY DEF PostProcess, Used, Undefined, Result
<1>a. pc' = IF j < Len(Stage.post) THEN [pc EXCEPT ![3] = j + 1] ELSE <<"postend", k, 0>>
  BY DEF PostProcess
<1>3. GoodPost(scene, k, p) /\ GoodList(Stage.post) /\ GoodList(scene)  BY <1>1, SceneIs
<1>4. \A i \in DOMAIN scene[k].post : i < j /\ scene[k].post[i].immediate => p.immediate
  BY <1>1, SceneIs
<1> HIDE DEF k, j, p
<1>5. gfx.immediate => p.immediate
  <2>1. Wrote(scene, k) => p.immediate  BY <1>3 DEF GoodPost
  <2>2. ASSUME NEW i \in 1 .. j - 1, scene[k].post[i].immediate PROVE p.immediate
    <3>1. i \in DOMAIN scene[k].post /\ i < j  BY <1>1, <1>3 DEF GoodList
    <3>2. QED  BY <1>4, <2>2, <3>1
  <2>3. QED  BY <1>1, <2>1, <2>2
<1>6. /\ begun \in Gfx
      /\ \A x \in Images :
           LET h == RenderEndPass([begun EXCEPT !.image[begun.target[0]] = x])
           IN Posting(h) /\ h.immediate = p.immediate /\ h.lost = gfx.lost
  <2>1. IsProcess(p) /\ p.name \in Names /\ \A e \in DOMAIN p.targets : p.targets[e].rt = e - 1
    BY <1>3 DEF GoodPost
  <2>2. Posting(gfx)  BY <1>1
  <2> DEFINE g == gfx
  <2> HIDE DEF g
  <2>3. Posting(g) /\ (g.immediate => p.immediate)  BY <1>5, <2>2 DEF g
  <2> DEFINE a == SetImmediateWrite(g, p.immediate)
             b == RenderBeginPass(IF p.immediate THEN a ELSE UseTargets(a, p))
  <2>4. /\ b \in Gfx
        /\ \A x \in Images :
             LET h == RenderEndPass([b EXCEPT !.image[b.target[0]] = x])
             IN Posting(h) /\ h.immediate = p.immediate /\ h.lost = g.lost
    BY <2>1, <2>3, PostIs
  <2>5. QED  BY <2>4 DEF g
<1> HIDE DEF begun
<1>7. used \in [p.reads -> Places] /\ result \in Images
  <2>1. kept \in [p.reads -> Places]
    BY <1>1 DEF IInv, Kept
  <2>2. p.reads \subseteq Semantics /\ <<"RT", 0>> \in p.reads /\ p.name \in Names
    BY <1>3 DEF GoodPost, IsProcess
  <2> HIDE DEF kept
  <2>3. QED  BY <1>6, <2>1, <2>2, ResultIs
<1> HIDE DEF used, result
<1>8. Posting(gfx') /\ gfx'.immediate = p.immediate /\ gfx'.lost = gfx.lost
  BY <1>2, <1>6, <1>7
<1>9. Kept(scene, params')
  <2>1. Kept(scene, params)  BY DEF IInv
  <2>2. QED  BY <1>1, <1>2, <1>7, <2>1 DEF Kept
<1>10. p.immediate <=> Wrote(scene, k) \/ \E i \in 1 .. j : scene[k].post[i].immediate
  <2>1. 1 .. j = (1 .. j - 1) \cup {j}  BY <1>1, <1>3 DEF GoodList
  <2>2. ASSUME NEW i \in 1 .. j, scene[k].post[i].immediate PROVE p.immediate
    BY <1>1, <1>5, <2>1, <2>2
  <2>3. Wrote(scene, k) => p.immediate  BY <1>3 DEF GoodPost
  <2>4. p.immediate => \E i \in 1 .. j : scene[k].post[i].immediate  BY <1>1, <2>1
  <2>5. QED  BY <2>2, <2>3, <2>4
<1>11. k \in Nat /\ k # 0 /\ k <= Len(scene) /\ Len(scene) \in Nat  BY <1>1, <1>3 DEF GoodList
<1>12. Wrote(scene, k + 1) => Wrote(scene, Len(scene) + 1)
  <2> DEFINE m == k + 1
             n == Len(scene) + 1
  <2>1. m \in Nat /\ n \in Nat /\ m <= n  BY <1>11
  <2> HIDE DEF m, n
  <2>2. Wrote(scene, m) => Wrote(scene, n)  BY <2>1, WroteLater
  <2>3. QED  BY <2>2 DEF m, n
<1>13. Wrote(scene, k + 1) <=> Wrote(scene, k) \/ \E i \in DOMAIN scene[k].post : scene[k].post[i].immediate
  BY <1>11, WroteNext
<1>14. p.immediate => Wrote(scene, Len(scene) + 1)
  BY <1>1, <1>12, <1>13
<1>15. Going(scene, pc', gfx')
  <2>1. CASE j < Len(Stage.post)
    <3>1. pc' = [pc EXCEPT ![3] = j + 1]  BY <1>a, <2>1
    <3>2. pc' = <<"post", k, j + 1>> /\ k \in Nat /\ j \in Nat
      BY <1>1, <3>1 DEF k, j
    <3>3. j + 1 \in DOMAIN scene[k].post  BY <1>1, <1>3, <2>1 DEF GoodList
    <3>4. InPlace(scene, pc')  BY <1>1, <3>2, <3>3 DEF InPlace, Steps
    <3>5. pc'[1] = "post" /\ pc'[2] = k /\ pc'[3] - 1 = j
      <4>1. pc'[1] = "post" /\ pc'[2] = k /\ pc'[3] = j + 1  BY <3>2
      <4>2. QED  BY <3>2, <4>1
    <3>6. Writing(scene, pc', gfx')  BY <1>8, <1>10, <1>14, <3>5 DEF Writing
    <3>7. Using(scene, pc', gfx')  BY <1>1, <1>8, <3>2 DEF Using
    <3>8. QED  BY <3>4, <3>6, <3>7 DEF Going
  <2>2. CASE ~ (j < Len(Stage.post))
    <3>1. pc' = <<"postend", k, 0>>  BY <1>a, <2>2
    <3>2. 1 .. j = DOMAIN scene[k].post  BY <1>1, <1>3, <2>2 DEF GoodList
    <3>3. InPlace(scene, pc')  BY <1>1, <1>11, <3>1 DEF InPlace, Steps
    <3>4. gfx'.immediate <=> Wrote(scene, k + 1)  BY <1>8, <1>10, <1>13, <3>2
    <3>5. Writing(scene, pc', gfx')  BY <1>8, <1>14, <3>1, <3>4 DEF Writing
    <3>6. Using(scene, pc', gfx')  BY <1>1, <1>8, <3>1 DEF Using
    <3>7. QED  BY <3>3, <3>5, <3>6 DEF Going
  <2>3. QED  BY <2>1, <2>2
<1>16. QED  BY <1>9, <1>15 DEF IInv, PostProcess

(* The next stage begins with nothing held.                                *)
LEMMA PostEndKeeps == IInv /\ PostEnd => IInv'
<1> SUFFICES ASSUME IInv, PostEnd PROVE IInv'
  OBVIOUS
<1> DEFINE k == pc[2] + 1
           g == gfx'
<1>1. /\ scene \in Scenes /\ pc[2] \in DOMAIN scene /\ Posting(gfx)
      /\ gfx.immediate <=> Wrote(scene, k)
      /\ ~ Wrote(scene, Len(scene) + 1) => gfx.lost = 0
  BY DEF IInv, Going, Using, Writing, InPlace, PostEnd
<1>2. pc' = StageOf(scene, k)  BY DEF PostEnd, BeginStage, StageOf
<1>3. /\ Between(g) /\ g.immediate = gfx.immediate /\ g.lost = gfx.lost
      /\ \A i \in RT : g.rt[i].previous = NULL
  BY <1>1, PostEndIs DEF PostEnd
<1>4. k \in 1 .. Len(scene) + 1
  <2>1. GoodList(scene)  BY <1>1, SceneIs
  <2>2. QED  BY <1>1, <2>1 DEF GoodList
<1> HIDE DEF k, g
<1>5. ~ Wrote(scene, Len(scene) + 1) => Clean(g)  BY <1>1, <1>3 DEF Clean
<1>6. g.immediate <=> Wrote(scene, k)  BY <1>1, <1>3
<1>7. Going(scene, StageOf(scene, k), g)  BY <1>1, <1>3, <1>4, <1>5, <1>6, StageBegins
<1>8. QED  BY <1>2, <1>7 DEF IInv, PostEnd, g

(* The copy changes an image only.                                         *)
LEMMA CopyKeeps == IInv /\ Copy => IInv'
<1> SUFFICES ASSUME IInv, Copy PROVE IInv'
  OBVIOUS
<1>1. /\ scene \in Scenes /\ Between(gfx)
      /\ gfx.immediate <=> Wrote(scene, Len(scene) + 1)
      /\ ~ Wrote(scene, Len(scene) + 1) => Clean(gfx)
  BY DEF IInv, Going, Using, Writing, Copy
<1> DEFINE final == gfx.rt[0].texture
           image == [gfx.image EXCEPT ![gfx.target[0]] = gfx.image[final]]
           h == [gfx EXCEPT !.image = image]
<1>2. pc' \in {<<"presented", 0, 0>>, <<"crashed", 0, 0>>} /\ (gfx' = gfx \/ (final # NULL /\ gfx' = h))
  BY DEF Copy
<1>3. /\ Between(gfx') /\ gfx'.immediate = gfx.immediate
      /\ Clean(gfx) => Clean(gfx')
  <2>1. CASE gfx' = gfx  BY <1>1, <2>1
  <2>2. CASE final # NULL /\ gfx' = h
    <3>1. gfx \in Gfx /\ 0 \in RT  BY <1>1, TargetsFinite DEF Between
    <3>2. /\ gfx.rt \in [RT -> TargetType] /\ gfx.image \in [Surfaces -> Images]
      BY <3>1 DEF Gfx
    <3>3. gfx.rt[0] \in TargetType  BY <3>1, <3>2
    <3>4. final \in Surfaces  BY <2>2, <3>3 DEF TargetType
    <3> HIDE DEF final
    <3>5. image \in [Surfaces -> Images]  BY <3>2, <3>4
    <3> HIDE DEF image
    <3>6. h \in Gfx /\ SameUse(gfx, h) /\ h.rt = gfx.rt  BY <3>1, <3>5, NewImagesIs
    <3> HIDE DEF h
    <3>7. h.immediate = gfx.immediate /\ h.lost = gfx.lost  BY <3>6 DEF SameUse
    <3>8. Between(h) /\ (Clean(gfx) => Clean(h))
      BY <1>1, <3>6, <3>7 DEF Between, Clean, Idle, Refs, Everywhere
    <3>9. QED  BY <2>2, <3>7, <3>8
  <2> HIDE DEF h, final
  <2>3. QED  BY <1>2, <2>1, <2>2
<1> HIDE DEF h, final
<1>4. InPlace(scene, pc')  BY <1>2 DEF InPlace, Steps
<1>5. Writing(scene, pc', gfx')  BY <1>1, <1>2, <1>3 DEF Writing
<1>6. Using(scene, pc', gfx')  BY <1>1, <1>2, <1>3 DEF Using
<1>7. QED  BY <1>4, <1>5, <1>6 DEF IInv, Going, Copy

(* Between frames nothing is held.                                         *)
LEMMA PresentedIs ==
  ASSUME IInv, pc[1] = "presented"
  PROVE  /\ \A i \in RT : gfx.rt[i].previous = NULL
         /\ gfx.lost \in {0, 1} /\ (~ gfx.immediate => gfx.lost = 0)
<1>1. /\ Between(gfx) /\ (gfx.immediate <=> Wrote(scene, Len(scene) + 1))
      /\ ~ Wrote(scene, Len(scene) + 1) => Clean(gfx)
  BY DEF IInv, Going, Using, Writing
<1>2. QED  BY <1>1 DEF Between, Clean, Refs

(* The next frame begins with nothing held.                                *)
LEMMA PresentKeeps == IInv /\ Present => IInv'
<1> SUFFICES ASSUME IInv, Present PROVE IInv'
  OBVIOUS
<1>1. pc[1] = "presented" /\ pc' = <<"frame", 0, 0>> /\ gfx' = gfx  BY DEF Present
<1>2. /\ Between(gfx) /\ (gfx.immediate => Wrote(scene, Len(scene) + 1))
      /\ ~ Wrote(scene, Len(scene) + 1) => Clean(gfx)
  BY <1>1 DEF IInv, Going, Using, Writing
<1>3. \A i \in RT : gfx.rt[i].previous = NULL  BY <1>1, PresentedIs
<1>4. InPlace(scene, pc')  BY <1>1 DEF InPlace, Steps
<1>5. Writing(scene, pc', gfx')  BY <1>1, <1>2 DEF Writing
<1>6. Using(scene, pc', gfx')  BY <1>1, <1>2, <1>3 DEF Using
<1>7. QED  BY <1>4, <1>5, <1>6 DEF IInv, Going, Present

(* IInv holds of every state: of the first, and of the next one after each *)
(* step of Display::Update.                                                *)
THEOREM Inductive == Spec => []IInv
<1>1. ASSUME IInv, [Next]_vars PROVE IInv'
  <2>1. CASE BeginFrame  BY <1>1, <2>1, BeginFrameKeeps
  <2>2. CASE NormalProcess  BY <1>1, <2>2, NormalProcessKeeps
  <2>3. CASE DefaultDraw  BY <1>1, <2>3, DefaultDrawKeeps
  <2>4. CASE PostBegin  BY <1>1, <2>4, PostBeginKeeps
  <2>5. CASE PostProcess  BY <1>1, <2>5, PostProcessKeeps
  <2>6. CASE PostEnd  BY <1>1, <2>6, PostEndKeeps
  <2>7. CASE Copy  BY <1>1, <2>7, CopyKeeps
  <2>8. CASE Present  BY <1>1, <2>8, PresentKeeps
  <2>9. CASE UNCHANGED vars  BY <1>1, <2>9 DEF vars, IInv
  <2>10. QED  BY <1>1, <2>1, <2>2, <2>3, <2>4, <2>5, <2>6, <2>7, <2>8, <2>9 DEF Next
<1>2. QED  BY InitIs, <1>1, PTL DEF Spec

(* The fields of Display and of every DisplayRenderTarget keep their       *)
(* types: no index, buffer or surface out of range, whatever targets a     *)
(* scene names and in whatever order.                                      *)
THEOREM TypeCorrect == Spec => []TypeOK
<1>1. ASSUME IInv PROVE TypeOK
  <2>1. scene \in Scenes /\ pc \in Steps \X Nat \X Nat /\ gfx \in Gfx
    BY <1>1 DEF IInv, Going, InPlace, Using, Between, Posting
  <2>2. pc[1] \in Steps  BY <2>1
  <2>3. Typed(gfx.rt, gfx.immediate, gfx.target, gfx.semantic, gfx.image, gfx.lost)  BY <2>1, GfxIs
  <2>4. /\ lists.stage \in Seq(Objects) /\ lists.effects \in Seq(Effects)
        /\ lists.materials \in [Effects -> Seq(Materials)] /\ lists.objects \in [Materials -> Seq(Objects)]
    <3>1. lists = NoLists  BY <1>1 DEF IInv
    <3>2. QED  BY <3>1 DEF NoLists
  <2>5. QED  BY <2>1, <2>2, <2>3, <2>4 DEF TypeOK, Steps, Typed, Places
<1>2. QED  BY Inductive, <1>1, PTL

(* An object that was requested is drawn once in every pass of its         *)
(* material, and nothing else is drawn, for any objects, materials,        *)
(* effects and requests (Display.cpp:896-930).                             *)
THEOREM DrawnOnce == Spec => []EachObjectOnce
<1>1. ASSUME IInv PROVE EachObjectOnce  BY <1>1 DEF IInv, EachOnce, EachObjectOnce
<1>2. QED  BY Inductive, <1>1, PTL

(* Between frames no render target holds a surface, and one reference at   *)
(* most was lost, in a frame that wrote to the back buffer directly        *)
(* (RenderTarget.cpp:248-267, 392-409).                                    *)
THEOREM SurfacesGivenBack == Spec => []ReferencesGivenBack
<1>1. ASSUME IInv PROVE ReferencesGivenBack
  <2> SUFFICES ASSUME pc[1] = "presented"
               PROVE  /\ \A i \in RT : gfx.rt[i].previous = NULL
                      /\ gfx.lost <= IF gfx.immediate THEN 1 ELSE 0
    BY DEF ReferencesGivenBack
  <2>1. QED  BY <1>1, PresentedIs
<1>2. QED  BY Inductive, <1>1, PTL

-----------------------------------------------------------------------------
(* The image.  What can be drawn into, told apart.                         *)
LEMMA PlacesApart ==
  /\ \A i, b : Buffer(i, b) # NULL /\ Buffer(i, b) # Back /\ \A n : Buffer(i, b) # Texture(n)
  /\ \A i, j, b, c : Buffer(i, b) = Buffer(j, c) => i = j /\ b = c
  /\ \A n : Texture(n) # NULL /\ Texture(n) # Back
  /\ Back # NULL
BY DEF Buffer, Texture, NULL, Back

(* The buffers of a target, and the textures too.                          *)
Own(i) == {Buffer(i, 0), Buffer(i, 1), Buffer(i, Original)}
Readable(i) == Own(i) \cup {Texture(n) : n \in Textures}

(* They are surfaces, and those of two targets differ.                     *)
LEMMA OwnIs ==
  /\ \A i \in RT : Own(i) \subseteq Surfaces /\ NULL \notin Readable(i) /\ Back \notin Readable(i)
  /\ \A i, j \in RT : i # j => Own(i) \cap Readable(j) = {}
  /\ Back \in Surfaces
  /\ \A n \in Textures : Texture(n) \in Surfaces
<1>1. \A i \in RT : Own(i) \subseteq Surfaces  BY DEF Own, Surfaces
<1>2. \A i \in RT : NULL \notin Readable(i) /\ Back \notin Readable(i)  BY PlacesApart DEF Own, Readable
<1>3. \A i, j \in RT : i # j => Own(i) \cap Readable(j) = {}
  BY PlacesApart DEF Own, Readable
<1>4. Back \in Surfaces /\ \A n \in Textures : Texture(n) \in Surfaces  BY DEF Surfaces
<1>5. QED  BY <1>1, <1>2, <1>3, <1>4

(* SetRenderTargets, index by index: one of those that set it, or what was *)
(* there.                                                                  *)
LEMMA SetAt ==
  ASSUME NEW target \in [RT -> Places], NEW rt, NEW D, D \subseteq RT, NEW Sets, DOMAIN Sets = D
  PROVE  /\ DOMAIN SetRenderTargets(target, rt, Sets) = RT
         /\ \A k \in RT : (\A i \in D : rt[i].index # k) => SetRenderTargets(target, rt, Sets)[k] = target[k]
         /\ \A k \in RT : (\E i \in D : rt[i].index = k) =>
              \E i \in D : rt[i].index = k /\ SetRenderTargets(target, rt, Sets)[k] = Sets[i]
<1> DEFINE h == SetRenderTargets(target, rt, Sets)
           Setters(k) == {i \in DOMAIN Sets : rt[i].index = k}
<1>1. h = [k \in RT |-> IF Setters(k) = {} THEN target[k] ELSE Sets[Max(Setters(k))]]
  BY DEF SetRenderTargets
<1>2. DOMAIN h = RT /\ \A k \in RT : h[k] = IF Setters(k) = {} THEN target[k] ELSE Sets[Max(Setters(k))]
  BY <1>1
<1>3. \A k \in RT : Setters(k) # {} => Max(Setters(k)) \in Setters(k)
  <2> SUFFICES ASSUME NEW s, s \subseteq D, s # {} PROVE Max(s) \in s
    OBVIOUS
  <2>1. s \subseteq 0 .. (Count - 1) /\ Count - 1 \in Nat
    <3>1. Count - 1 \in Nat  BY CountPositive
    <3>2. s \subseteq RT  OBVIOUS
    <3>3. QED  BY <3>1, <3>2 DEF RT
  <2>2. QED  BY <2>1, MaxIs
<1>4. \A k \in RT : \A i : i \in Setters(k) <=> i \in D /\ rt[i].index = k  OBVIOUS
<1> HIDE DEF h, Setters
<1>5. \A k \in RT : (\A i \in D : rt[i].index # k) => h[k] = target[k]
  <2> SUFFICES ASSUME NEW k \in RT, \A i \in D : rt[i].index # k PROVE h[k] = target[k]
    OBVIOUS
  <2>1. Setters(k) = {}  BY <1>4
  <2>2. QED  BY <1>2, <2>1
<1>6. \A k \in RT : (\E i \in D : rt[i].index = k) => \E i \in D : rt[i].index = k /\ h[k] = Sets[i]
  <2> SUFFICES ASSUME NEW k \in RT, NEW j \in D, rt[j].index = k
               PROVE  \E i \in D : rt[i].index = k /\ h[k] = Sets[i]
    OBVIOUS
  <2>1. Setters(k) # {}  BY <1>4
  <2>2. Max(Setters(k)) \in D /\ rt[Max(Setters(k))].index = k  BY <1>3, <1>4, <2>1
  <2>3. h[k] = Sets[Max(Setters(k))]  BY <1>2, <2>1
  <2>4. QED  BY <2>2, <2>3
<1>7. QED  BY <1>2, <1>5, <1>6 DEF h

(* What a pass chooses for target i, and for which targets it sets it.     *)
Choice(g, i) ==
  IF g.rt[i].override # NULL THEN g.rt[i].override
  ELSE Buffer(i, IF g.rt[i].first THEN Original ELSE g.rt[i].current)
Swapped(g) ==
  {i \in RT : /\ Ready(g.rt[i], {"BEGIN", "ENDPASS"})
              /\ g.rt[i].mode = "POST" \/ g.rt[i].texture = NULL
              /\ ~g.rt[i].immediate
              /\ Choice(g, i) # g.rt[i].texture}
Publishes(g, i) == Ready(g.rt[i], {"BEGIN", "ENDPASS"}) /\ g.rt[i].mode = "POST"

(* DisplayRenderTargetChain::RenderBeginPass, field by field.              *)
LEMMA BeginPassSets ==
  ASSUME NEW g \in Gfx
  PROVE  LET h == RenderBeginPass(g)
         IN /\ \A i \in RT : /\ h.rt[i].texture = IF i \in Swapped(g) THEN Choice(g, i) ELSE g.rt[i].texture
                             /\ h.rt[i].current = g.rt[i].current
            /\ h.target = SetRenderTargets(g.target, g.rt, [i \in Swapped(g) |-> Choice(g, i)])
            /\ \A s \in Semantics : h.semantic[s] =
                 IF ~ Publishes(g, s[2]) THEN g.semantic[s]
                 ELSE IF s[1] = "RT" THEN g.rt[s[2]].texture ELSE Buffer(s[2], Original)
<1> DEFINE begun == {i \in RT : Ready(g.rt[i], {"BEGIN", "ENDPASS"})}
           published == {i \in begun : g.rt[i].mode = "POST"}
           swapped == {i \in begun : /\ g.rt[i].mode = "POST" \/ g.rt[i].texture = NULL
                                     /\ ~g.rt[i].immediate
                                     /\ Choice(g, i) # g.rt[i].texture}
           rt == [i \in RT |-> IF i \notin begun THEN g.rt[i]
                   ELSE [g.rt[i] EXCEPT !.state = "BEGINPASS",
                                        !.texture = IF i \in swapped THEN Choice(g, i) ELSE g.rt[i].texture]]
           target == SetRenderTargets(g.target, g.rt, [i \in swapped |-> Choice(g, i)])
           semantic == [s \in Semantics |-> IF s[2] \notin published THEN g.semantic[s]
                          ELSE IF s[1] = "RT" THEN g.rt[s[2]].texture ELSE Buffer(s[2], Original)]
           h == RenderBeginPass(g)
<1>1. h = [g EXCEPT !.rt = rt, !.target = target, !.semantic = semantic]
  BY Zenon DEF RenderBeginPass, Choice
<1>2. swapped = Swapped(g)  BY DEF Swapped
<1>3. ASSUME NEW i \in RT
      PROVE  /\ rt[i].texture = IF i \in swapped THEN Choice(g, i) ELSE g.rt[i].texture
             /\ rt[i].current = g.rt[i].current
  <2>1. g.rt[i] \in TargetType  BY GfxIs DEF Typed
  <2>2. i \in swapped => i \in begun  OBVIOUS
  <2>3. CASE i \notin begun
    <3>1. rt[i] = g.rt[i]  BY <2>3
    <3> HIDE DEF rt, begun, swapped
    <3>2. QED  BY <2>2, <2>3, <3>1
  <2>4. CASE i \in begun
    <3> DEFINE t == IF i \in swapped THEN Choice(g, i) ELSE g.rt[i].texture
    <3>1. rt[i] = [g.rt[i] EXCEPT !.state = "BEGINPASS", !.texture = t]  BY <2>4
    <3> HIDE DEF t, rt, begun, swapped
    <3>2. rt[i].texture = t /\ rt[i].current = g.rt[i].current  BY <2>1, <3>1 DEF TargetType
    <3>3. QED  BY <3>2 DEF t
  <2>5. QED  BY <2>3, <2>4
<1>4. \A s \in Semantics : s[2] \in published <=> Publishes(g, s[2])
  <2>1. \A s \in Semantics : s[2] \in RT  BY DEF Semantics
  <2>2. QED  BY <2>1 DEF Publishes
<1>5. \A s \in Semantics : semantic[s] =
        IF ~ Publishes(g, s[2]) THEN g.semantic[s]
        ELSE IF s[1] = "RT" THEN g.rt[s[2]].texture ELSE Buffer(s[2], Original)
  <2> HIDE DEF published
  <2>1. QED  BY <1>4
<1> HIDE DEF rt, target, semantic, begun, swapped
<1>6. h.rt = rt /\ h.target = target /\ h.semantic = semantic  BY <1>1 DEF Gfx
<1> HIDE DEF h
<1>7. target = SetRenderTargets(g.target, g.rt, [i \in Swapped(g) |-> Choice(g, i)])  BY <1>2 DEF target
<1>8. QED  BY <1>2, <1>3, <1>5, <1>6, <1>7 DEF h

(* DisplayRenderTargetChain::RenderEndPass: the buffers alternate.         *)
LEMMA EndPassSets ==
  ASSUME NEW g \in Gfx
  PROVE  LET h == RenderEndPass(g)
         IN \A i \in RT :
              /\ h.rt[i].texture = g.rt[i].texture
              /\ h.rt[i].current = IF Ready(g.rt[i], {"BEGINPASS"}) /\ ~ g.rt[i].immediate
                                   THEN 1 - g.rt[i].current ELSE g.rt[i].current
<1> DEFINE begun == {i \in RT : Ready(g.rt[i], {"BEGINPASS"})}
           rt == [i \in RT |-> IF i \notin begun THEN g.rt[i]
                   ELSE [g.rt[i] EXCEPT !.state = "ENDPASS",
                                        !.current = IF g.rt[i].immediate THEN g.rt[i].current ELSE 1 - g.rt[i].current]]
           semantic == [s \in Semantics |->
                          IF s[2] \in begun /\ g.rt[s[2]].mode = "POST" THEN NULL ELSE g.semantic[s]]
           h == RenderEndPass(g)
<1>1. h = [g EXCEPT !.rt = rt, !.semantic = semantic]  BY Zenon DEF RenderEndPass
<1>2. ASSUME NEW i \in RT
      PROVE  /\ rt[i].texture = g.rt[i].texture
             /\ rt[i].current = IF i \in begun /\ ~ g.rt[i].immediate THEN 1 - g.rt[i].current ELSE g.rt[i].current
  <2>1. g.rt[i] \in TargetType  BY GfxIs DEF Typed
  <2>2. CASE i \notin begun
    <3>1. rt[i] = g.rt[i]  BY <2>2
    <3> HIDE DEF rt, begun
    <3>2. QED  BY <2>2, <3>1
  <2>3. CASE i \in begun
    <3> DEFINE t == IF g.rt[i].immediate THEN g.rt[i].current ELSE 1 - g.rt[i].current
    <3>1. rt[i] = [g.rt[i] EXCEPT !.state = "ENDPASS", !.current = t]  BY <2>3
    <3> HIDE DEF t, rt, begun
    <3>2. rt[i].texture = g.rt[i].texture /\ rt[i].current = t  BY <2>1, <3>1 DEF TargetType
    <3>3. QED  BY <2>3, <3>2 DEF t
  <2>4. QED  BY <2>2, <2>3
<1>3. \A i \in RT : i \in begun <=> Ready(g.rt[i], {"BEGINPASS"})  OBVIOUS
<1> HIDE DEF rt, semantic, begun
<1>4. h.rt = rt  BY <1>1 DEF Gfx
<1> HIDE DEF h
<1>5. QED  BY <1>2, <1>3, <1>4 DEF h

(* DisplayRenderTargetChain::RenderBegin, field by field.                  *)
Started(g, h, mode) ==
  /\ h.target = g.target /\ h.image = g.image
  /\ \A i \in RT : ~ g.rt[i].enabled => h.rt[i] = g.rt[i]
  /\ \A i \in RT : g.rt[i].enabled =>
       /\ h.rt[i].mode = mode /\ h.rt[i].override = g.rt[i].override
       /\ h.rt[i].previous = IF g.rt[i].index = 0 THEN g.target[0] ELSE g.rt[i].previous
       /\ h.rt[i].first = IF mode = "NORMAL" THEN TRUE ELSE g.rt[i].first
       /\ h.rt[i].texture = IF mode = "NORMAL" THEN NULL ELSE g.rt[i].texture
LEMMA BeginSets ==
  ASSUME NEW g \in Gfx, NEW mode \in {"NORMAL", "POST"}, Idle(g)
  PROVE  Started(g, RenderBegin(g, mode), mode)
<1> DEFINE begun == {i \in RT : Ready(g.rt[i], {"UNKNOWN", "END"})}
           Next1(r) == [r EXCEPT !.state = "BEGIN", !.mode = mode,
                                 !.previous = IF r.index = 0 THEN g.target[0] ELSE r.previous,
                                 !.current = IF mode = "NORMAL" THEN 0 ELSE r.current,
                                 !.first = mode = "NORMAL" \/ r.first,
                                 !.texture = IF mode = "NORMAL" THEN NULL ELSE r.texture]
           rt == [i \in RT |-> IF i \in begun THEN Next1(g.rt[i]) ELSE g.rt[i]]
           lost == g.lost + Cardinality({i \in begun : g.rt[i].index = 0 /\ g.rt[i].previous # NULL})
           h == RenderBegin(g, mode)
<1>1. h = [g EXCEPT !.rt = rt, !.lost = lost]
  BY DEF RenderBegin
<1>2. \A i \in RT : i \in begun <=> g.rt[i].enabled  BY DEF Ready, Idle
<1>3. \A i \in RT : ~ g.rt[i].enabled => rt[i] = g.rt[i]
  <2> HIDE DEF begun
  <2>1. QED  BY <1>2
<1>4. ASSUME NEW i \in RT, g.rt[i].enabled
      PROVE  /\ rt[i].mode = mode /\ rt[i].override = g.rt[i].override
             /\ rt[i].previous = IF g.rt[i].index = 0 THEN g.target[0] ELSE g.rt[i].previous
             /\ rt[i].first = IF mode = "NORMAL" THEN TRUE ELSE g.rt[i].first
             /\ rt[i].texture = IF mode = "NORMAL" THEN NULL ELSE g.rt[i].texture
  <2> DEFINE previous == IF g.rt[i].index = 0 THEN g.target[0] ELSE g.rt[i].previous
             current == IF mode = "NORMAL" THEN 0 ELSE g.rt[i].current
             first == (mode = "NORMAL" \/ g.rt[i].first)
             texture == IF mode = "NORMAL" THEN NULL ELSE g.rt[i].texture
  <2>1. g.rt[i] \in TargetType  BY GfxIs DEF Typed
  <2>2. i \in begun  BY <1>2, <1>4
  <2>3. rt[i] = [g.rt[i] EXCEPT !.state = "BEGIN", !.mode = mode, !.previous = previous,
                                !.current = current, !.first = first, !.texture = texture]
    BY <2>2
  <2> HIDE DEF previous, current, first, texture, rt, begun
  <2>4. /\ rt[i].mode = mode /\ rt[i].override = g.rt[i].override /\ rt[i].previous = previous
        /\ rt[i].first = first /\ rt[i].texture = texture
    BY <2>1, <2>3 DEF TargetType
  <2>5. first = IF mode = "NORMAL" THEN TRUE ELSE g.rt[i].first
    <3>1. g.rt[i].first \in BOOLEAN  BY <2>1 DEF TargetType
    <3>2. QED  BY <3>1 DEF first
  <2>6. QED  BY <2>4, <2>5 DEF previous, texture
<1> HIDE DEF rt, begun, lost
<1>5. h.rt = rt /\ h.target = g.target /\ h.image = g.image  BY <1>1 DEF Gfx
<1> HIDE DEF h
<1>6. QED  BY <1>3, <1>4, <1>5 DEF h, Started

(* DisplayRenderTargetChain::RenderEnd, field by field.                    *)
Restored(g) == {i \in RT : g.rt[i].enabled /\ (g.rt[i].index # 0 \/ g.rt[i].previous # NULL)}
LEMMA EndSets ==
  ASSUME NEW g \in Gfx, Begun(g)
  PROVE  LET h == RenderEnd(g)
         IN /\ h.target = SetRenderTargets(g.target, g.rt, [i \in Restored(g) |-> g.rt[i].previous])
            /\ h.image = g.image
            /\ \A i \in RT : /\ h.rt[i].texture = g.rt[i].texture
                             /\ h.rt[i].first = IF g.rt[i].enabled THEN FALSE ELSE g.rt[i].first
                             /\ h.rt[i].previous = IF g.rt[i].enabled THEN NULL ELSE g.rt[i].previous
<1> DEFINE begun == {i \in RT : Ready(g.rt[i], {"BEGIN", "ENDPASS"})}
           restored == {i \in begun : g.rt[i].index # 0 \/ g.rt[i].previous # NULL}
           rt == [i \in RT |-> IF i \notin begun THEN g.rt[i]
                   ELSE [g.rt[i] EXCEPT !.state = "END", !.first = FALSE, !.previous = NULL]]
           target == SetRenderTargets(g.target, g.rt, [i \in restored |-> g.rt[i].previous])
           h == RenderEnd(g)
<1>1. h = [g EXCEPT !.rt = rt, !.target = target]  BY DEF RenderEnd
<1>2. \A i \in RT : i \in begun <=> g.rt[i].enabled  BY DEF Ready, Begun
<1>3. restored = Restored(g)
  <2> HIDE DEF begun
  <2>1. begun \subseteq RT  BY DEF begun
  <2>2. QED  BY <1>2, <2>1 DEF Restored
<1>4. ASSUME NEW i \in RT
      PROVE  /\ rt[i].texture = g.rt[i].texture
             /\ rt[i].first = IF i \in begun THEN FALSE ELSE g.rt[i].first
             /\ rt[i].previous = IF i \in begun THEN NULL ELSE g.rt[i].previous
  <2>1. g.rt[i] \in TargetType  BY GfxIs DEF Typed
  <2>2. CASE i \notin begun
    <3>1. rt[i] = g.rt[i]  BY <2>2
    <3> HIDE DEF rt, begun
    <3>2. QED  BY <2>2, <3>1
  <2>3. CASE i \in begun
    <3>1. rt[i] = [g.rt[i] EXCEPT !.state = "END", !.first = FALSE, !.previous = NULL]  BY <2>3
    <3> HIDE DEF rt, begun
    <3>2. QED  BY <2>1, <2>3, <3>1 DEF TargetType
  <2>4. QED  BY <2>2, <2>3
<1>5. target = SetRenderTargets(g.target, g.rt, [i \in Restored(g) |-> g.rt[i].previous])
  <2> HIDE DEF restored
  <2>1. QED  BY <1>3
<1> HIDE DEF rt, target, begun, restored
<1>6. h.rt = rt /\ h.target = target /\ h.image = g.image  BY <1>1 DEF Gfx
<1> HIDE DEF h
<1>7. QED  BY <1>2, <1>4, <1>5, <1>6 DEF h

(* What the operators that choose the targets leave alone besides.         *)
SamePicture(g, h) ==
  /\ h.target = g.target /\ h.image = g.image
  /\ \A i \in RT : /\ h.rt[i].texture = g.rt[i].texture /\ h.rt[i].first = g.rt[i].first
                   /\ h.rt[i].current = g.rt[i].current /\ h.rt[i].mode = g.rt[i].mode

(* EnableAllRenderTargets and DisableAllRenderTargets, field by field.     *)
LEMMA EnableSets ==
  ASSUME NEW g \in Gfx
  PROVE  LET h == EnableAllRenderTargets(g)
         IN SamePicture(g, h) /\ \A i \in RT : h.rt[i].override = NULL
<1> DEFINE h == EnableAllRenderTargets(g)
           rt == [i \in RT |-> [g.rt[i] EXCEPT !.enabled = TRUE, !.override = NULL, !.index = i]]
<1>1. h = [g EXCEPT !.rt = rt]  BY DEF EnableAllRenderTargets
<1>2. ASSUME NEW i \in RT
      PROVE  /\ rt[i].texture = g.rt[i].texture /\ rt[i].first = g.rt[i].first
             /\ rt[i].current = g.rt[i].current /\ rt[i].mode = g.rt[i].mode
             /\ rt[i].override = NULL
  <2>1. g.rt[i] \in TargetType  BY GfxIs DEF Typed
  <2>2. rt[i] = [g.rt[i] EXCEPT !.enabled = TRUE, !.override = NULL, !.index = i]  OBVIOUS
  <2> HIDE DEF rt
  <2>3. QED  BY <2>1, <2>2 DEF TargetType
<1> HIDE DEF rt
<1>3. h.rt = rt /\ h.target = g.target /\ h.image = g.image  BY <1>1 DEF Gfx
<1> HIDE DEF h
<1>4. QED  BY <1>2, <1>3 DEF h, SamePicture

(* DisableAllRenderTargets likewise: none is in use.                       *)
LEMMA DisableSets ==
  ASSUME NEW g \in Gfx
  PROVE  LET h == DisableAllRenderTargets(g)
         IN SamePicture(g, h) /\ \A i \in RT : h.rt[i].override = NULL /\ ~ h.rt[i].enabled
<1> DEFINE h == DisableAllRenderTargets(g)
           rt == [i \in RT |-> [g.rt[i] EXCEPT !.enabled = FALSE, !.override = NULL]]
<1>1. h = [g EXCEPT !.rt = rt]  BY DEF DisableAllRenderTargets
<1>2. ASSUME NEW i \in RT
      PROVE  /\ rt[i].texture = g.rt[i].texture /\ rt[i].first = g.rt[i].first
             /\ rt[i].current = g.rt[i].current /\ rt[i].mode = g.rt[i].mode
             /\ rt[i].override = NULL /\ ~ rt[i].enabled
  <2>1. g.rt[i] \in TargetType  BY GfxIs DEF Typed
  <2>2. rt[i] = [g.rt[i] EXCEPT !.enabled = FALSE, !.override = NULL]  OBVIOUS
  <2> HIDE DEF rt
  <2>3. QED  BY <2>1, <2>2 DEF TargetType
<1> HIDE DEF rt
<1>3. h.rt = rt /\ h.target = g.target /\ h.image = g.image  BY <1>1 DEF Gfx
<1> HIDE DEF h
<1>4. QED  BY <1>2, <1>3 DEF h, SamePicture

(* The entry of a process for target i.                                    *)
Draws(p, i) == \E e \in DOMAIN p.targets : p.targets[e].rt = i
Takes(p, i, r) ==
  \E e \in DOMAIN p.targets : /\ p.targets[e].rt = i /\ r.index = e - 1
                              /\ r.override = p.targets[e].texture
LEMMA UseSets ==
  ASSUME NEW g \in Gfx, NEW p, IsProcess(p)
  PROVE  LET h == UseTargets(g, p)
         IN /\ SamePicture(g, h)
            /\ \A i \in RT : ~ Draws(p, i) => h.rt[i] = g.rt[i]
            /\ \A i \in RT : Draws(p, i) => h.rt[i].enabled /\ Takes(p, i, h.rt[i])
<1> DEFINE h == UseTargets(g, p)
           Entries(i) == {e \in DOMAIN p.targets : p.targets[e].rt = i}
           rt == [i \in RT |-> IF Entries(i) = {} THEN g.rt[i]
                   ELSE [g.rt[i] EXCEPT !.enabled = TRUE, !.index = Max(Entries(i)) - 1,
                                        !.override = p.targets[Max(Entries(i))].texture]]
<1>1. h = [g EXCEPT !.rt = rt]  BY DEF UseTargets
<1>2. \A i \in RT : Entries(i) # {} => Max(Entries(i)) \in Entries(i)
  <2> SUFFICES ASSUME NEW S, S \subseteq DOMAIN p.targets, S # {} PROVE Max(S) \in S
    OBVIOUS
  <2> DEFINE n == Len(p.targets)
  <2>1. n \in Nat /\ DOMAIN p.targets = 1 .. n  BY DEF IsProcess
  <2> HIDE DEF n
  <2>2. S \subseteq 0 .. n  BY <2>1
  <2>3. QED  BY <2>1, <2>2, MaxIs
<1>3. ASSUME NEW i \in RT
      PROVE  /\ rt[i].texture = g.rt[i].texture /\ rt[i].first = g.rt[i].first
             /\ rt[i].current = g.rt[i].current /\ rt[i].mode = g.rt[i].mode
             /\ ~ Draws(p, i) => rt[i] = g.rt[i]
             /\ Draws(p, i) => rt[i].enabled /\ Takes(p, i, rt[i])
  <2>1. g.rt[i] \in TargetType  BY GfxIs DEF Typed
  <2>2. CASE Entries(i) = {}
    <3>1. rt[i] = g.rt[i]  BY <2>2
    <3>2. ~ Draws(p, i)  BY <2>2 DEF Draws
    <3> HIDE DEF rt, Entries
    <3>3. QED  BY <2>1, <3>1, <3>2
  <2>3. CASE Entries(i) # {}
    <3> DEFINE e == Max(Entries(i))
    <3>1. e \in Entries(i)  BY <1>2, <2>3
    <3>2. e \in DOMAIN p.targets /\ p.targets[e].rt = i  BY <3>1
    <3>3. rt[i] = [g.rt[i] EXCEPT !.enabled = TRUE, !.index = e - 1, !.override = p.targets[e].texture]
      BY <2>3
    <3> HIDE DEF rt, e, Entries
    <3>4. /\ rt[i].texture = g.rt[i].texture /\ rt[i].first = g.rt[i].first
          /\ rt[i].current = g.rt[i].current /\ rt[i].mode = g.rt[i].mode
          /\ rt[i].index = e - 1 /\ rt[i].enabled /\ rt[i].override = p.targets[e].texture
      BY <2>1, <3>3 DEF TargetType
    <3>5. Draws(p, i) /\ Takes(p, i, rt[i])  BY <3>2, <3>4 DEF Draws, Takes
    <3>6. QED  BY <3>4, <3>5
  <2>4. QED  BY <2>2, <2>3
<1> HIDE DEF rt
<1>4. h.rt = rt /\ h.target = g.target /\ h.image = g.image  BY <1>1 DEF Gfx
<1> HIDE DEF h
<1>5. QED  BY <1>3, <1>4 DEF h, SamePicture

(* SetImmediateWrite, field by field: when it begins, what is held is      *)
(* given back; when it ends, target 0 holds what the device draws to.      *)
LEMMA ImmediateSets ==
  ASSUME NEW g \in Gfx, NEW write \in BOOLEAN, g.immediate = ~ write, Everywhere(g)
  PROVE  LET h == SetImmediateWrite(g, write)
             givenBack == {i \in RT : write /\ g.rt[i].previous # NULL}
         IN /\ h.image = g.image
            /\ h.target = SetRenderTargets(g.target, g.rt, [i \in givenBack |-> g.rt[i].previous])
            /\ \A i \in RT : /\ h.rt[i].texture = g.rt[i].texture /\ h.rt[i].first = g.rt[i].first
                             /\ h.rt[i].current = g.rt[i].current /\ h.rt[i].mode = g.rt[i].mode
                             /\ h.rt[i].override = g.rt[i].override
                             /\ h.rt[i].previous =
                                  IF write THEN NULL
                                  ELSE IF g.rt[i].previous = NULL /\ g.rt[i].index = 0 THEN g.target[0]
                                  ELSE g.rt[i].previous
<1> DEFINE h == SetImmediateWrite(g, write)
           changed == {i \in RT : g.rt[i].immediate # write}
           givenBack == {i \in changed : write /\ g.rt[i].previous # NULL}
           held == {i \in changed : ~write /\ g.rt[i].previous = NULL /\ g.rt[i].index = 0}
           rt == [i \in RT |-> [g.rt[i] EXCEPT
                    !.immediate = write,
                    !.previous = IF i \in givenBack THEN NULL
                                 ELSE IF i \in held THEN g.target[0] ELSE g.rt[i].previous]]
           target == SetRenderTargets(g.target, g.rt, [i \in givenBack |-> g.rt[i].previous])
           gives == {i \in RT : write /\ g.rt[i].previous # NULL}
<1>1. g.immediate # write  OBVIOUS
<1>2. h = [g EXCEPT !.immediate = write, !.rt = rt, !.target = target]  BY <1>1 DEF SetImmediateWrite
<1>3. changed = RT
  <2>1. \A i \in RT : g.rt[i].immediate # write  BY <1>1 DEF Everywhere
  <2>2. QED  BY <2>1
<1>4. /\ \A i \in RT : i \in givenBack <=> (write /\ g.rt[i].previous # NULL)
      /\ \A i \in RT : i \in held <=> (~ write /\ g.rt[i].previous = NULL /\ g.rt[i].index = 0)
      /\ givenBack = gives
  <2> HIDE DEF changed
  <2>1. QED  BY <1>3
<1>5. ASSUME NEW i \in RT
      PROVE  /\ rt[i].texture = g.rt[i].texture /\ rt[i].first = g.rt[i].first
             /\ rt[i].current = g.rt[i].current /\ rt[i].mode = g.rt[i].mode
             /\ rt[i].override = g.rt[i].override
             /\ rt[i].previous = IF i \in givenBack THEN NULL ELSE IF i \in held THEN g.target[0] ELSE g.rt[i].previous
  <2> DEFINE previous == IF i \in givenBack THEN NULL ELSE IF i \in held THEN g.target[0] ELSE g.rt[i].previous
  <2>1. g.rt[i] \in TargetType  BY GfxIs DEF Typed
  <2>2. rt[i] = [g.rt[i] EXCEPT !.immediate = write, !.previous = previous]  OBVIOUS
  <2> HIDE DEF rt, previous
  <2>3. /\ rt[i].texture = g.rt[i].texture /\ rt[i].first = g.rt[i].first
        /\ rt[i].current = g.rt[i].current /\ rt[i].mode = g.rt[i].mode
        /\ rt[i].override = g.rt[i].override /\ rt[i].previous = previous
    BY <2>1, <2>2 DEF TargetType
  <2>4. QED  BY <2>3 DEF previous
<1>6. target = SetRenderTargets(g.target, g.rt, [i \in gives |-> g.rt[i].previous])
  <2> HIDE DEF givenBack, gives
  <2>1. QED  BY <1>4
<1> HIDE DEF rt, target, changed, givenBack, held
<1>7. h.rt = rt /\ h.target = target /\ h.image = g.image  BY <1>2 DEF Gfx
<1> HIDE DEF h
<1>8. ASSUME NEW i \in RT
      PROVE  rt[i].previous = IF write THEN NULL
                              ELSE IF g.rt[i].previous = NULL /\ g.rt[i].index = 0 THEN g.target[0]
                              ELSE g.rt[i].previous
  BY <1>4, <1>5
<1> HIDE DEF gives
<1>9. QED  BY <1>5, <1>6, <1>7, <1>8 DEF h, gives

(* Drawing again what was drawn last adds nothing.                         *)
LEMMA AddTwice ==
  ASSUME NEW image \in Images, NEW name \in Names
  PROVE  /\ Add(Add(image, name), name) = Add(image, name)
         /\ Add(<<name>>, name) = <<name>>
<1>1. ASSUME NEW x \in Seq(Names), Len(x) > 0, Last(x) = name PROVE Add(x, name) = x
  BY <1>1 DEF Add
<1>2. Add(Add(image, name), name) = Add(image, name)
  <2>2. CASE image = Old  BY <2>2 DEF Add
  <2>3. CASE image # Old
    <3>1. image \in Seq(Names)  BY <2>3 DEF Images
    <3>2. CASE Len(image) > 0 /\ Last(image) = name
      <4>1. Add(image, name) = image  BY <1>1, <3>1, <3>2
      <4>2. QED  BY <4>1
    <3>3. CASE ~ (Len(image) > 0 /\ Last(image) = name)
      <4> DEFINE x == Append(image, name)
      <4>1. Add(image, name) = x  BY <2>3, <3>3 DEF Add
      <4>2. x \in Seq(Names) /\ Len(x) > 0 /\ x[Len(x)] = name  BY <3>1
      <4> HIDE DEF x
      <4>3. Last(x) = name  BY <4>2 DEF Last
      <4>4. Add(x, name) = x  BY <1>1, <4>2, <4>3
      <4>5. QED  BY <4>1, <4>4
    <3>4. QED  BY <3>2, <3>3
  <2>4. QED  BY <2>2, <2>3
<1>4. Add(<<name>>, name) = <<name>>
  <2>1. <<name>> \in Seq(Names) /\ Len(<<name>>) > 0 /\ Last(<<name>>) = name  BY DEF Last
  <2>2. QED  BY <1>1, <2>1
<1>5. QED  BY <1>2, <1>4

(* What a draw and a clear make of the images.                             *)
Drawn(target) == {target[k] : k \in RT} \ {NULL}
Stroke(target, image, name) ==
  [s \in Surfaces |-> IF s \in Drawn(target) THEN Add(image[s], name) ELSE image[s]]
Blank(target, image, name) ==
  [s \in Surfaces |-> IF s \in Drawn(target) THEN <<name>> ELSE image[s]]

(* Paint and Clear are that.                                               *)
LEMMA ImagesAre ==
  ASSUME NEW g \in Gfx, NEW name
  PROVE  /\ Paint(g, name).image = Stroke(g.target, g.image, name)
         /\ Clear(g, name).image = Blank(g.target, g.image, name)
<1> DEFINE a == Stroke(g.target, g.image, name)
           b == Blank(g.target, g.image, name)
<1>1. Paint(g, name) = [g EXCEPT !.image = a] /\ Clear(g, name) = [g EXCEPT !.image = b]
  BY DEF Paint, Clear, Targets, Stroke, Blank, Drawn
<1> HIDE DEF a, b
<1>2. QED  BY <1>1 DEF Gfx, a, b

(* To draw again over what was drawn, or cleared, changes nothing.         *)
LEMMA StrokeTwice ==
  ASSUME NEW image \in [Surfaces -> Images], NEW target, NEW name \in Names
  PROVE  /\ Stroke(target, Stroke(target, image, name), name) = Stroke(target, image, name)
         /\ Stroke(target, Blank(target, image, name), name) = Blank(target, image, name)
<1>1. \A s \in Surfaces : /\ Add(Add(image[s], name), name) = Add(image[s], name)
                          /\ Add(<<name>>, name) = <<name>>
  BY AddTwice
<1> DEFINE D == Drawn(target)
<1> HIDE DEF D
<1>2. QED  BY <1>1 DEF Stroke, Blank, D

(* The picture that the device draws is the same, its images apart.        *)
SameView(g, h) == h.target = g.target /\ \A i \in RT : h.rt[i].texture = g.rt[i].texture

(* In a pass of a normal process that is not its first, and when the back  *)
(* buffer is written to directly, no target is set.                        *)
Quiet(g) ==
  \A i \in RT : g.rt[i].enabled => g.rt[i].mode = "NORMAL" /\ (g.rt[i].texture # NULL \/ g.rt[i].immediate)

(* That stays so while the targets and their use do.                       *)
LEMMA QuietStays ==
  ASSUME NEW g, NEW h, Quiet(g), SameUse(g, h), SameView(g, h)
  PROVE  Quiet(h)
BY DEF Quiet, SameUse, SameTarget, SameView

(* No target set: the device is as it was.                                 *)
LEMMA SetNothing ==
  ASSUME NEW target \in [RT -> Places], NEW rt, NEW Sets, DOMAIN Sets = {}
  PROVE  SetRenderTargets(target, rt, Sets) = target
<1> DEFINE Setters(k) == {i \in DOMAIN Sets : rt[i].index = k}
<1>1. \A k : Setters(k) = {}  OBVIOUS
<1>2. SetRenderTargets(target, rt, Sets) = [k \in RT |-> IF Setters(k) = {} THEN target[k] ELSE Sets[Max(Setters(k))]]
  BY DEF SetRenderTargets
<1> HIDE DEF Setters
<1>3. SetRenderTargets(target, rt, Sets) = [k \in RT |-> target[k]]  BY <1>1, <1>2
<1>4. QED  BY <1>3

(* So a pass leaves the picture.                                           *)
LEMMA QuietPass ==
  ASSUME NEW g \in Gfx, Quiet(g)
  PROVE  SameView(g, RenderBeginPass(g))
<1> DEFINE h == RenderBeginPass(g)
           Sets == [i \in Swapped(g) |-> Choice(g, i)]
<1>1. Swapped(g) = {}  BY DEF Swapped, Quiet, Ready
<1>2. /\ h.target = SetRenderTargets(g.target, g.rt, Sets)
      /\ \A i \in RT : h.rt[i].texture = IF i \in Swapped(g) THEN Choice(g, i) ELSE g.rt[i].texture
  BY BeginPassSets
<1>3. g.target \in [RT -> Places]  BY GfxIs DEF Typed
<1>4. DOMAIN Sets = {} /\ {} \subseteq RT  BY <1>1
<1> HIDE DEF h, Sets
<1>5. SetRenderTargets(g.target, g.rt, Sets) = g.target
  <2> DEFINE rt == g.rt
             target == g.target
  <2> HIDE DEF rt, target
  <2>1. target \in [RT -> Places] /\ DOMAIN Sets = {}  BY <1>3, <1>4 DEF target
  <2>2. SetRenderTargets(target, rt, Sets) = target  BY <2>1, SetNothing
  <2>3. QED  BY <2>2 DEF rt, target
<1>6. QED  BY <1>1, <1>2, <1>5 DEF SameView, h

(* A draw is then a stroke over the targets of the device.                 *)
LEMMA QuietDraw ==
  ASSUME NEW g \in Gfx, Quiet(g), Begun(g) \/ Passing(g), NEW name \in Names
  PROVE  /\ SameView(g, DrawPass(g, name))
         /\ DrawPass(g, name).image = Stroke(g.target, g.image, name)
<1> DEFINE a == RenderBeginPass(g)
           b == Paint(a, name)
           c == RenderEndPass(b)
<1>1. a \in Gfx /\ a.image = g.image /\ Passing(a) /\ SameView(g, a)  BY BeginPassIs, QuietPass
<1> HIDE DEF a
<1>2. b \in Gfx /\ SameView(a, b) /\ b.image = Stroke(a.target, a.image, name)
  <2> DEFINE image == [s \in Surfaces |-> IF s \in Targets(a) THEN Add(a.image[s], name) ELSE a.image[s]]
  <2>1. b = [a EXCEPT !.image = image]  BY DEF Paint
  <2> HIDE DEF image
  <2>2. b.rt = a.rt /\ b.target = a.target  BY <1>1, <2>1 DEF Gfx
  <2>3. b \in Gfx  BY <1>1, PaintIs
  <2>4. QED  BY <1>1, <2>2, <2>3, ImagesAre DEF SameView
<1> HIDE DEF b
<1>3. c.image = b.image /\ SameView(b, c)
  <2>1. c.image = b.image /\ c.target = b.target  BY <1>2, EndPassIs
  <2>2. \A i \in RT : c.rt[i].texture = b.rt[i].texture  BY <1>2, EndPassSets
  <2> HIDE DEF c
  <2>3. QED  BY <2>1, <2>2 DEF SameView
<1> HIDE DEF c
<1>4. SameView(g, c)  BY <1>1, <1>2, <1>3 DEF SameView
<1>5. c.image = Stroke(g.target, g.image, name)  BY <1>1, <1>2, <1>3 DEF SameView
<1>6. QED  BY <1>4, <1>5 DEF DrawPass, a, b, c

(* All passes draw over the same targets; what they draw is there once.    *)
LEMMA QuietDraws ==
  ASSUME NEW g \in Gfx, Quiet(g), Begun(g) \/ Passing(g), NEW name \in Names,
         NEW passes, Len(passes) \in Nat
  PROVE  LET h == DrawPasses(g, name, passes)
         IN /\ SameView(g, h)
            /\ h.image = IF Len(passes) = 0 THEN g.image ELSE Stroke(g.target, g.image, name)
<1> DEFINE image == Stroke(g.target, g.image, name)
           W == {x \in Gfx : /\ SameUse(g, x) /\ SameView(g, x) /\ (Begun(x) \/ Passing(x))
                             /\ x.image = g.image \/ x.image = image}
<1>1. g \in W  BY SameUseOnce DEF SameView
<1>2. Stroke(g.target, image, name) = image
  <2>1. g.image \in [Surfaces -> Images]  BY GfxIs DEF Typed
  <2>2. QED  BY <2>1, StrokeTwice
<1>3. ASSUME NEW x \in W PROVE DrawPass(x, name) \in W /\ DrawPass(x, name).image = image
  <2>1. /\ x \in Gfx /\ SameUse(g, x) /\ SameView(g, x) /\ (Begun(x) \/ Passing(x))
        /\ x.image = g.image \/ x.image = image
    OBVIOUS
  <2> DEFINE y == DrawPass(x, name)
  <2> HIDE DEF image, W
  <2>2. Quiet(x)  BY <2>1, QuietStays
  <2>3. y \in Gfx /\ SameUse(x, y) /\ Begun(y)  BY <2>1, DrawPassIs
  <2>4. SameView(x, y) /\ y.image = Stroke(x.target, x.image, name)  BY <2>1, <2>2, QuietDraw
  <2> HIDE DEF y
  <2>5. SameUse(g, y)  BY <2>1, <2>3, SameUseTwice
  <2>6. SameView(g, y)  BY <2>1, <2>4 DEF SameView
  <2>7. x.target = g.target  BY <2>1 DEF SameView
  <2>8. y.image = image
    <3>1. CASE x.image = g.image  BY <2>4, <2>7, <3>1 DEF image
    <3>2. CASE x.image = image  BY <1>2, <2>4, <2>7, <3>2
    <3>3. QED  BY <2>1, <3>1, <3>2
  <2>9. QED  BY <2>3, <2>5, <2>6, <2>8 DEF W, y
<1>4. \A x \in W : SameView(g, x)  OBVIOUS
<1> HIDE DEF W, image
<1>5. \A x \in W : DrawPass(x, name) \in W /\ DrawPass(x, name).image = image  BY <1>3
<1> DEFINE h == DrawPasses(g, name, passes)
<1>6. /\ h \in W
      /\ Len(passes) = 0 => h = g
      /\ Len(passes) # 0 => \E x \in W : h = DrawPass(x, name)
  BY <1>1, <1>5, DrawPassesKeep
<1> HIDE DEF h
<1>7. h.image = IF Len(passes) = 0 THEN g.image ELSE image  BY <1>5, <1>6
<1>8. QED  BY <1>4, <1>6, <1>7 DEF h, image

(* Between processes the device draws to the back buffer, and nothing else *)
(* is held of it.                                                          *)
Placed(g) ==
  /\ g.target[0] = Back
  /\ \A i \in RT : g.target[i] \in {NULL, Back} /\ g.rt[i].previous \in {NULL, Back}

(* What a normal process draws target i into.                              *)
Pick(u, i) == IF u.rt[i].override # NULL THEN u.rt[i].override ELSE Buffer(i, Original)
InUse(u) == {i \in RT : u.rt[i].enabled}

(* What the targets in use do not set is as it was; what they set is what  *)
(* one of them draws into.                                                 *)
Kept0(u, target) == \A k \in RT : (\A i \in InUse(u) : u.rt[i].index # k) => target[k] = u.target[k]
Chosen0(u, target) ==
  \A k \in RT : (\E i \in InUse(u) : u.rt[i].index = k) =>
                  \E i \in InUse(u) : u.rt[i].index = k /\ target[k] = Pick(u, i)

(* The first pass of a normal process.                                     *)
LEMMA FirstPass ==
  ASSUME NEW u \in Gfx, Idle(u), Everywhere(u), ~ u.immediate,
         NEW b \in Gfx, b = RenderBegin(u, "NORMAL"), Begun(b), SamePlan(u, b)
  PROVE  LET x == RenderBeginPass(b)
         IN /\ \A i \in RT : x.rt[i].texture = IF u.rt[i].enabled THEN Pick(u, i) ELSE u.rt[i].texture
            /\ Kept0(u, x.target) /\ Chosen0(u, x.target)
            /\ x.image = u.image
            /\ Quiet(x)
<1> DEFINE x == RenderBeginPass(b)
           Sets == [i \in Swapped(b) |-> Choice(b, i)]
<1>1. /\ b.target = u.target /\ b.image = u.image
      /\ \A i \in RT : ~ u.rt[i].enabled => b.rt[i] = u.rt[i]
      /\ \A i \in RT : u.rt[i].enabled =>
           /\ b.rt[i].mode = "NORMAL" /\ b.rt[i].override = u.rt[i].override
           /\ b.rt[i].first = TRUE /\ b.rt[i].texture = NULL
  <2>1. "NORMAL" \in {"NORMAL", "POST"}  OBVIOUS
  <2>2. Started(u, b, "NORMAL")  BY <2>1, BeginSets
  <2>3. QED  BY <2>2 DEF Started
<1>2. ASSUME NEW i \in RT
      PROVE  /\ b.rt[i].enabled = u.rt[i].enabled /\ b.rt[i].index = u.rt[i].index
             /\ ~ b.rt[i].immediate
             /\ u.rt[i].enabled => b.rt[i].state \in {"BEGIN", "ENDPASS"}
  BY DEF SamePlan, Everywhere, Begun
<1>3. \A i \in RT : u.rt[i].enabled => Choice(b, i) = Pick(u, i) /\ Pick(u, i) # NULL
  <2> SUFFICES ASSUME NEW i \in RT, u.rt[i].enabled PROVE Choice(b, i) = Pick(u, i) /\ Pick(u, i) # NULL
    BY Zenon
  <2>1. b.rt[i].override = u.rt[i].override /\ b.rt[i].first = TRUE  BY <1>1
  <2>2. Choice(b, i) = Pick(u, i)  BY <2>1 DEF Choice, Pick
  <2>3. Buffer(i, Original) # NULL  BY PlacesApart
  <2>4. QED  BY <2>2, <2>3 DEF Pick
<1>4. \A i \in RT : i \in Swapped(b) <=> u.rt[i].enabled
  BY <1>1, <1>2, <1>3 DEF Swapped, Ready
<1>5. Swapped(b) = InUse(u)
  <2>1. Swapped(b) \subseteq RT  BY DEF Swapped
  <2>2. QED  BY <1>4, <2>1 DEF InUse
<1>6. /\ x.target = SetRenderTargets(b.target, b.rt, Sets)
      /\ \A i \in RT : x.rt[i].texture = IF i \in Swapped(b) THEN Choice(b, i) ELSE b.rt[i].texture
  BY BeginPassSets
<1>7. SameUse(b, x) /\ x.image = b.image  BY BeginPassIs
<1> HIDE DEF x
<1>8. \A i \in RT : x.rt[i].texture = IF u.rt[i].enabled THEN Pick(u, i) ELSE u.rt[i].texture
  BY <1>1, <1>3, <1>4, <1>6
<1>9. Kept0(u, x.target) /\ Chosen0(u, x.target)
  <2> DEFINE target == b.target
             rt == b.rt
             D == InUse(u)
             next == x.target
  <2>1. /\ target \in [RT -> Places] /\ D \subseteq RT /\ DOMAIN Sets = D
        /\ next = SetRenderTargets(target, rt, Sets)
    BY <1>5, <1>6, GfxIs DEF Typed, InUse
  <2>2. \A i \in D : Sets[i] = Pick(u, i)
    <3>1. \A i \in D : i \in Swapped(b) /\ i \in RT /\ u.rt[i].enabled  BY <1>5 DEF InUse
    <3>2. QED  BY <1>3, <3>1
  <2>3. \A i \in D : rt[i].index = u.rt[i].index  BY <1>2 DEF InUse
  <2> HIDE DEF Sets, target, rt, D, next
  <2>4. /\ \A k \in RT : (\A i \in D : rt[i].index # k) => next[k] = target[k]
        /\ \A k \in RT : (\E i \in D : rt[i].index = k) => \E i \in D : rt[i].index = k /\ next[k] = Sets[i]
    BY <2>1, SetAt
  <2>5. \A k \in RT : (\A i \in D : u.rt[i].index # k) => next[k] = target[k]  BY <2>3, <2>4
  <2>6. \A k \in RT : (\E i \in D : u.rt[i].index = k) => \E i \in D : u.rt[i].index = k /\ next[k] = Pick(u, i)
    BY <2>2, <2>3, <2>4
  <2>7. target = u.target  BY <1>1 DEF target
  <2>8. QED  BY <2>5, <2>6, <2>7 DEF Kept0, Chosen0, D, next
<1>10. Quiet(x)
  <2> SUFFICES ASSUME NEW i \in RT, x.rt[i].enabled
               PROVE  x.rt[i].mode = "NORMAL" /\ x.rt[i].texture # NULL
    BY DEF Quiet
  <2>1. x.rt[i].enabled = b.rt[i].enabled /\ x.rt[i].mode = b.rt[i].mode  BY <1>7 DEF SameUse, SameTarget
  <2>2. u.rt[i].enabled  BY <1>2, <2>1
  <2>3. QED  BY <1>1, <1>3, <1>8, <2>1, <2>2
<1>11. QED  BY <1>1, <1>7, <1>8, <1>9, <1>10 DEF x

(* RenderEnd: the device draws to the back buffer again.                   *)
LEMMA PlacedAgain ==
  ASSUME NEW u \in Gfx, Idle(u), Placed(u), NEW mode \in {"NORMAL", "POST"},
         NEW b, b = RenderBegin(u, mode), SamePlan(u, b),
         NEW e \in Gfx, Begun(e), SameUse(b, e), Kept0(u, e.target)
  PROVE  LET h == RenderEnd(e)
         IN /\ Placed(h) /\ h.image = e.image
            /\ \A i \in RT : /\ h.rt[i].texture = e.rt[i].texture
                             /\ h.rt[i].first = IF u.rt[i].enabled THEN FALSE ELSE u.rt[i].first
<1> DEFINE h == RenderEnd(e)
           D == Restored(e)
           Sets == [i \in D |-> e.rt[i].previous]
<1>1. /\ h.target = SetRenderTargets(e.target, e.rt, Sets) /\ h.image = e.image
      /\ \A i \in RT : /\ h.rt[i].texture = e.rt[i].texture
                       /\ h.rt[i].first = IF e.rt[i].enabled THEN FALSE ELSE e.rt[i].first
                       /\ h.rt[i].previous = IF e.rt[i].enabled THEN NULL ELSE e.rt[i].previous
  BY EndSets
<1> HIDE DEF h
<1>2. /\ \A i \in RT : ~ u.rt[i].enabled => b.rt[i] = u.rt[i]
      /\ \A i \in RT : u.rt[i].enabled =>
           b.rt[i].previous = IF u.rt[i].index = 0 THEN u.target[0] ELSE u.rt[i].previous
  <2>1. Started(u, b, mode)  BY BeginSets
  <2>2. QED  BY <2>1 DEF Started
<1>3. ASSUME NEW i \in RT
      PROVE  /\ e.rt[i].enabled = u.rt[i].enabled /\ e.rt[i].index = u.rt[i].index
             /\ ~ u.rt[i].enabled => e.rt[i].previous = u.rt[i].previous /\ e.rt[i].first = u.rt[i].first
             /\ u.rt[i].enabled =>
                  e.rt[i].previous = IF u.rt[i].index = 0 THEN u.target[0] ELSE u.rt[i].previous
             /\ e.rt[i].previous \in {NULL, Back}
  <2>1. /\ e.rt[i].enabled = b.rt[i].enabled /\ e.rt[i].index = b.rt[i].index
        /\ e.rt[i].previous = b.rt[i].previous /\ e.rt[i].first = b.rt[i].first
    BY DEF SameUse, SameTarget
  <2>2. b.rt[i].enabled = u.rt[i].enabled /\ b.rt[i].index = u.rt[i].index  BY DEF SamePlan
  <2>3. u.rt[i].previous \in {NULL, Back} /\ u.target[0] = Back  BY DEF Placed
  <2>4. QED  BY <1>2, <2>1, <2>2, <2>3
<1>4. \A i \in RT : /\ h.rt[i].first = IF u.rt[i].enabled THEN FALSE ELSE u.rt[i].first
                    /\ h.rt[i].previous \in {NULL, Back}
  BY <1>1, <1>3
<1>5. ASSUME NEW k \in RT PROVE h.target[k] \in {NULL, Back} /\ (k = 0 => h.target[k] = Back)
  <2> DEFINE target == e.target
             rt == e.rt
             next == h.target
  <2>1. /\ target \in [RT -> Places] /\ D \subseteq RT /\ DOMAIN Sets = D
        /\ next = SetRenderTargets(target, rt, Sets)
    BY <1>1, GfxIs DEF Typed, Restored
  <2>2. \A i \in D : Sets[i] = rt[i].previous  OBVIOUS
  <2> HIDE DEF Sets, target, rt, D, next
  <2>0. /\ \A m \in RT : (\A i \in D : rt[i].index # m) => next[m] = target[m]
        /\ \A m \in RT : (\E i \in D : rt[i].index = m) => \E i \in D : rt[i].index = m /\ next[m] = Sets[i]
    BY <2>1, SetAt
  <2>3. /\ (\A i \in D : rt[i].index # k) => next[k] = target[k]
        /\ (\E i \in D : rt[i].index = k) => \E i \in D : rt[i].index = k /\ next[k] = Sets[i]
    BY <2>0
  <2>4. CASE \E i \in D : rt[i].index = k
    <3>1. PICK i \in D : rt[i].index = k /\ next[k] = rt[i].previous  BY <2>2, <2>3, <2>4
    <3>2. i \in RT /\ e.rt[i].enabled /\ next[k] = e.rt[i].previous /\ e.rt[i].index = k
      BY <3>1 DEF D, Restored, rt
    <3>3. QED  BY <1>3, <3>2 DEF next, Placed
  <2>5. CASE \A i \in D : rt[i].index # k
    <3>1. next[k] = target[k]  BY <2>3, <2>5
    <3>2. ASSUME NEW i \in InUse(u), u.rt[i].index = k PROVE FALSE
      <4>1. i \in RT /\ u.rt[i].enabled  BY DEF InUse
      <4>2. e.rt[i].enabled /\ e.rt[i].index = k  BY <1>3, <3>2, <4>1
      <4>3. k = 0 => e.rt[i].previous # NULL  BY <1>3, <3>2, <4>1, PlacesApart DEF Placed
      <4>4. i \in D  BY <4>1, <4>2, <4>3 DEF D, Restored
      <4>5. QED  BY <2>5, <4>2, <4>4 DEF rt
    <3>3. e.target[k] = u.target[k]  BY <3>2 DEF Kept0
    <3>4. QED  BY <3>1, <3>3 DEF target, next, Placed
  <2>6. QED  BY <2>4, <2>5
<1>6. Placed(h)  BY <1>4, <1>5, TargetsFinite DEF Placed
<1>7. QED  BY <1>1, <1>4, <1>6 DEF h

(* What a normal process that clears has drawn: what each of its targets   *)
(* draws into is its own image, and other buffers are as they were.        *)
Alone(u) == \A i, j \in InUse(u) : u.rt[i].index = u.rt[j].index => i = j
Overridden(u) == \A i \in InUse(u) : u.rt[i].override \in {NULL} \cup {Texture(n) : n \in Textures}

FilledIn(u, name, image) ==
  /\ \A i \in InUse(u) : image[Pick(u, i)] = <<name>>
  /\ 0 \notin InUse(u) => image[Buffer(0, Original)] = u.image[Buffer(0, Original)]

(* A clear fills what its targets draw into.                               *)
LEMMA Filled ==
  ASSUME NEW u \in Gfx, Placed(u), Alone(u), Overridden(u), NEW target, Kept0(u, target), Chosen0(u, target),
         NEW name, NEW image, image = Blank(target, u.image, name)
  PROVE  FilledIn(u, name, image)
<1>1. \A i \in InUse(u) : i \in RT /\ u.rt[i].index \in RT
  BY GfxIs DEF InUse, Typed, TargetType
<1>2. \A i \in InUse(u) : Pick(u, i) \in {Buffer(i, Original)} \cup {Texture(n) : n \in Textures}
  BY DEF Overridden, Pick
<1>3. \A i \in InUse(u) : Pick(u, i) \in Surfaces /\ Pick(u, i) # NULL
  BY <1>1, <1>2, OwnIs, PlacesApart DEF Own
<1>4. ASSUME NEW i \in InUse(u) PROVE Pick(u, i) \in Drawn(target)
  <2>1. PICK j \in InUse(u) : u.rt[j].index = u.rt[i].index /\ target[u.rt[i].index] = Pick(u, j)
    BY <1>1 DEF Chosen0
  <2>2. j = i  BY <2>1 DEF Alone
  <2>3. QED  BY <1>1, <1>3, <2>1, <2>2 DEF Drawn
<1>5. ASSUME 0 \notin InUse(u) PROVE Buffer(0, Original) \notin Drawn(target)
  <2> SUFFICES ASSUME NEW k \in RT, target[k] = Buffer(0, Original) PROVE FALSE
    BY DEF Drawn
  <2>1. CASE \E i \in InUse(u) : u.rt[i].index = k
    <3>1. PICK i \in InUse(u) : target[k] = Pick(u, i)  BY <2>1 DEF Chosen0
    <3>2. i # 0  BY <1>5
    <3>3. QED  BY <1>2, <3>1, <3>2, PlacesApart
  <2>2. CASE \A i \in InUse(u) : u.rt[i].index # k
    <3>1. target[k] \in {NULL, Back}  BY <2>2 DEF Kept0, Placed
    <3>2. QED  BY <3>1, PlacesApart
  <2>3. QED  BY <2>1, <2>2
<1>6. Buffer(0, Original) \in Surfaces  BY OwnIs, TargetsFinite DEF Own
<1>7. \A s \in Surfaces : image[s] = IF s \in Drawn(target) THEN <<name>> ELSE u.image[s]  BY DEF Blank
<1>8. QED  BY <1>3, <1>4, <1>5, <1>6, <1>7 DEF FilledIn

(* The end of a pass, and a clear, change no target.                       *)
LEMMA EndPassView ==
  ASSUME NEW g \in Gfx
  PROVE  SameView(g, RenderEndPass(g)) /\ RenderEndPass(g).image = g.image
<1> DEFINE h == RenderEndPass(g)
<1>1. h.target = g.target /\ h.image = g.image  BY EndPassIs
<1>2. \A i \in RT : h.rt[i].texture = g.rt[i].texture  BY EndPassSets
<1> HIDE DEF h
<1>3. QED  BY <1>1, <1>2 DEF SameView, h

(* Neither does a clear.                                                   *)
LEMMA ClearView ==
  ASSUME NEW g \in Gfx, NEW name \in Names
  PROVE  SameView(g, Clear(g, name)) /\ Clear(g, name).image = Blank(g.target, g.image, name)
<1> DEFINE h == Clear(g, name)
           image == [s \in Surfaces |-> IF s \in Targets(g) THEN <<name>> ELSE g.image[s]]
<1>1. h = [g EXCEPT !.image = image]  BY DEF Clear
<1> HIDE DEF image
<1>2. h.rt = g.rt /\ h.target = g.target  BY <1>1 DEF Gfx
<1>3. h.image = Blank(g.target, g.image, name)  BY ImagesAre
<1> HIDE DEF h
<1>4. QED  BY <1>2, <1>3 DEF SameView, h

(* The targets of a process chosen, and nothing else changed.              *)
Prepared(g, u) ==
  /\ u \in Gfx /\ Idle(u) /\ Refs(u) /\ Everywhere(u)
  /\ u.immediate = g.immediate /\ SamePicture(g, u)
  /\ Placed(g) => Placed(u)

(* What keeps the picture and what is held has prepared its targets.       *)
LEMMA IsPrepared ==
  ASSUME NEW g, Between(g), NEW u \in Gfx, SameHold(g, u), SamePicture(g, u)
  PROVE  Prepared(g, u)
<1>1. Idle(u) /\ Refs(u) /\ Everywhere(u) /\ u.immediate = g.immediate
  BY DEF Between, SameHold, Idle, Refs, Everywhere
<1>2. Placed(g) => Placed(u)  BY DEF Placed, SameHold, SamePicture
<1>3. QED  BY <1>1, <1>2 DEF Prepared

(* From there RenderBegin.                                                 *)
LEMMA PreparedBegins ==
  ASSUME NEW g, NEW u, Prepared(g, u), NEW b, b = RenderBegin(u, "NORMAL")
  PROVE  b \in Gfx /\ Begun(b) /\ SamePlan(u, b) /\ Started(u, b, "NORMAL")
<1>1. "NORMAL" \in {"NORMAL", "POST"} /\ u \in Gfx /\ Idle(u) /\ Refs(u)  BY DEF Prepared
<1>2. b \in Gfx /\ Begun(b) /\ SamePlan(u, b)  BY <1>1, BeginIs
<1>3. Started(u, b, "NORMAL")  BY <1>1, BeginSets
<1>4. QED  BY <1>2, <1>3

(* The targets a normal process names are the ones in use.                 *)
Named(p, u) == \A i \in RT : /\ u.rt[i].enabled <=> Draws(p, i)
                             /\ Draws(p, i) => Takes(p, i, u.rt[i])
LEMMA NormalTargets ==
  ASSUME NEW g, Between(g), NEW p, IsProcess(p), p.targets = <<>> <=> g.immediate,
         NEW u, u = UseTargets(DisableAllRenderTargets(g), p),
         NEW b, b = RenderBegin(u, "NORMAL")
  PROVE  /\ Prepared(g, u) /\ Named(p, u)
         /\ NormalBegin(g, p) = IF p.clear THEN RenderEndPass(Clear(RenderBeginPass(b), p.name)) ELSE b
<1> DEFINE d == DisableAllRenderTargets(g)
           none == (p.targets = <<>>)
<1>1. g \in Gfx  BY DEF Between
<1>2. d \in Gfx /\ SameHold(g, d)  BY <1>1, DisableIs
<1>3. SamePicture(g, d) /\ \A i \in RT : d.rt[i].override = NULL /\ ~ d.rt[i].enabled  BY <1>1, DisableSets
<1> HIDE DEF d
<1>4. u = UseTargets(d, p)  BY DEF d
<1>5. u \in Gfx /\ SameHold(d, u)  BY <1>2, <1>4, UseIs
<1>6. /\ SamePicture(d, u)
      /\ \A i \in RT : ~ Draws(p, i) => u.rt[i] = d.rt[i]
      /\ \A i \in RT : Draws(p, i) => u.rt[i].enabled /\ Takes(p, i, u.rt[i])
  BY <1>2, <1>4, UseSets
<1>7. SameHold(g, u) /\ SamePicture(g, u)  BY <1>2, <1>3, <1>5, <1>6 DEF SameHold, SamePicture
<1>8. Prepared(g, u)  BY <1>5, <1>7, IsPrepared
<1>9. Named(p, u)  BY <1>3, <1>6 DEF Named
<1>10. SetImmediateWrite(u, none) = u
  <2>1. u.immediate = g.immediate /\ g.immediate \in BOOLEAN  BY <1>1, <1>7 DEF SameHold, Gfx
  <2>2. u.immediate = none  BY <2>1
  <2> HIDE DEF none
  <2>3. QED  BY <2>2 DEF SetImmediateWrite
<1>11. NormalBegin(g, p) = IF p.clear THEN RenderEndPass(Clear(RenderBeginPass(b), p.name)) ELSE b
  BY <1>4, <1>10 DEF NormalBegin, d
<1>12. QED  BY <1>8, <1>9, <1>11

(* Each of them is at an index of its own, with the texture of its entry   *)
(* or its own buffer.                                                      *)
LEMMA NamedIs ==
  ASSUME NEW p, IsProcess(p), NEW u, Named(p, u)
  PROVE  /\ Alone(u) /\ Overridden(u)
         /\ InUse(u) = {i \in RT : Draws(p, i)}
         /\ \A i \in RT : Draws(p, i) =>
              \E e \in DOMAIN p.targets : /\ p.targets[e].rt = i
                                          /\ Pick(u, i) = IF p.targets[e].texture # NULL THEN p.targets[e].texture
                                                          ELSE Buffer(i, Original)
<1>1. InUse(u) = {i \in RT : Draws(p, i)}  BY DEF InUse, Named
<1>2. \A i \in InUse(u) : i \in RT /\ Takes(p, i, u.rt[i])  BY DEF InUse, Named
<1>3. Alone(u)
  <2> SUFFICES ASSUME NEW i \in InUse(u), NEW j \in InUse(u), u.rt[i].index = u.rt[j].index PROVE i = j
    BY DEF Alone
  <2>1. PICK e \in DOMAIN p.targets : p.targets[e].rt = i /\ u.rt[i].index = e - 1  BY <1>2 DEF Takes
  <2>2. PICK f \in DOMAIN p.targets : p.targets[f].rt = j /\ u.rt[j].index = f - 1  BY <1>2 DEF Takes
  <2>3. e \in Nat /\ f \in Nat
    <3>1. DOMAIN p.targets = 1 .. Len(p.targets) /\ Len(p.targets) \in Nat  BY DEF IsProcess
    <3>2. QED  BY <3>1
  <2>4. e - 1 = f - 1  BY <2>1, <2>2
  <2>6. e = f
    <3>1. QED  BY <2>3, <2>4
  <2>7. QED  BY <2>1, <2>2, <2>6
<1>4. \A e \in DOMAIN p.targets : p.targets[e].texture \in {NULL} \cup {Texture(n) : n \in Textures}
  <2> DEFINE T == {NULL} \cup {Texture(n) : n \in Textures}
             E == [rt : RT, texture : T]
             s == p.targets
  <2>1. s \in Seq(E)  BY DEF IsProcess
  <2>2. \A x \in E : x.texture \in T  OBVIOUS
  <2> HIDE DEF E, s
  <2>3. \A e \in DOMAIN s : s[e] \in E  BY <2>1
  <2>4. QED  BY <2>2, <2>3 DEF s
<1>5. Overridden(u)
  <2> SUFFICES ASSUME NEW i \in InUse(u) PROVE u.rt[i].override \in {NULL} \cup {Texture(n) : n \in Textures}
    BY DEF Overridden
  <2>1. PICK e \in DOMAIN p.targets : u.rt[i].override = p.targets[e].texture  BY <1>2 DEF Takes
  <2>2. QED  BY <1>4, <2>1
<1>6. ASSUME NEW i \in RT, Draws(p, i)
      PROVE  \E e \in DOMAIN p.targets : /\ p.targets[e].rt = i
                                         /\ Pick(u, i) = IF p.targets[e].texture # NULL THEN p.targets[e].texture
                                                         ELSE Buffer(i, Original)
  <2>1. PICK e \in DOMAIN p.targets : p.targets[e].rt = i /\ u.rt[i].override = p.targets[e].texture
    BY <1>1, <1>2, <1>6 DEF Takes
  <2>2. QED  BY <2>1 DEF Pick
<1>7. QED  BY <1>1, <1>3, <1>5, <1>6

(* The passes of a normal process that has cleared its targets: x is its   *)
(* first pass, c what it begins to draw from, h what the passes leave.     *)
LEMMA ClearedPasses ==
  ASSUME NEW x \in Gfx, Quiet(x), NEW name \in Names, NEW before,
         NEW c \in Gfx, SameUse(x, c), SameView(x, c), Begun(c) \/ Passing(c),
         c.image = Blank(x.target, before, name), before \in [Surfaces -> Images],
         NEW passes, Len(passes) \in Nat
  PROVE  LET h == DrawPasses(c, name, passes)
         IN /\ h \in Gfx /\ SameUse(x, h) /\ SameView(x, h) /\ (Begun(h) \/ h = c)
            /\ h.image = Blank(x.target, before, name)
<1> DEFINE h == DrawPasses(c, name, passes)
<1>1. Quiet(c)  BY QuietStays
<1>2. h \in Gfx /\ SameUse(c, h) /\ (Begun(h) \/ h = c)  BY DrawPassesAre
<1>3. SameView(c, h) /\ h.image = IF Len(passes) = 0 THEN c.image ELSE Stroke(c.target, c.image, name)
  BY <1>1, QuietDraws
<1> HIDE DEF h
<1>4. SameUse(x, h) /\ SameView(x, h)
  <2>1. SameUse(x, h)  BY <1>2, SameUseTwice
  <2>2. SameView(x, h)  BY <1>3 DEF SameView
  <2>3. QED  BY <2>1, <2>2
<1>5. Stroke(c.target, c.image, name) = c.image
  <2>1. c.target = x.target  BY DEF SameView
  <2>2. Stroke(x.target, Blank(x.target, before, name), name) = Blank(x.target, before, name)  BY StrokeTwice
  <2>3. QED  BY <2>1, <2>2
<1>6. QED  BY <1>2, <1>3, <1>4, <1>5 DEF h

(* What a normal process p that clears leaves of the targets: those it     *)
(* names show its image alone, the others are as they were.                *)
DrewTargets(g, p, h) ==
  /\ Placed(h)
  /\ \A i \in RT : ~ Draws(p, i) => h.rt[i].texture = g.rt[i].texture /\ h.rt[i].first = g.rt[i].first
  /\ \A i \in RT : Draws(p, i) =>
       /\ h.rt[i].first = FALSE
       /\ h.image[h.rt[i].texture] = <<p.name>>
       /\ \E e \in DOMAIN p.targets : /\ p.targets[e].rt = i
                                      /\ h.rt[i].texture = IF p.targets[e].texture # NULL THEN p.targets[e].texture
                                                           ELSE Buffer(i, Original)
  /\ ~ Draws(p, 0) => h.image[Buffer(0, Original)] = g.image[Buffer(0, Original)]

(* A normal process that draws into targets, from its begin to its end.    *)
LEMMA NormalDraws ==
  ASSUME NEW g, Between(g), Placed(g), ~ g.immediate,
         NEW p, IsProcess(p), p.name \in Names, p.targets = <<>> <=> g.immediate, p.clear,
         NEW passes, Len(passes) \in Nat
  PROVE  DrewTargets(g, p, RenderEnd(DrawPasses(NormalBegin(g, p), p.name, passes)))
<1> DEFINE u == UseTargets(DisableAllRenderTargets(g), p)
           b == RenderBegin(u, "NORMAL")
           x == RenderBeginPass(b)
           y == Clear(x, p.name)
           c == RenderEndPass(y)
           e == DrawPasses(c, p.name, passes)
           h == RenderEnd(e)
<1>1. Prepared(g, u) /\ Named(p, u) /\ NormalBegin(g, p) = c  BY NormalTargets
<1> HIDE DEF u
<1>2. /\ Alone(u) /\ Overridden(u) /\ InUse(u) = {i \in RT : Draws(p, i)}
      /\ \A i \in RT : Draws(p, i) =>
           \E n \in DOMAIN p.targets : /\ p.targets[n].rt = i
                                       /\ Pick(u, i) = IF p.targets[n].texture # NULL THEN p.targets[n].texture
                                                       ELSE Buffer(i, Original)
  BY <1>1, NamedIs
<1>3. u \in Gfx /\ Idle(u) /\ Everywhere(u) /\ ~ u.immediate /\ Placed(u) /\ SamePicture(g, u)
  BY <1>1 DEF Prepared
<1>4. b \in Gfx /\ Begun(b) /\ SamePlan(u, b)  BY <1>1, PreparedBegins
<1>5. /\ \A i \in RT : x.rt[i].texture = IF u.rt[i].enabled THEN Pick(u, i) ELSE u.rt[i].texture
      /\ Kept0(u, x.target) /\ Chosen0(u, x.target) /\ x.image = u.image /\ Quiet(x)
  BY <1>3, <1>4, FirstPass
<1>6. x \in Gfx /\ SameUse(b, x) /\ Passing(x)  BY <1>4, BeginPassIs
<1> DEFINE before == u.image
<1>7. before \in [Surfaces -> Images]  BY <1>3 DEF Gfx
<1> HIDE DEF x
<1>8. y \in Gfx /\ SameUse(x, y) /\ Passing(y) /\ SameView(x, y) /\ y.image = Blank(x.target, before, p.name)
  BY <1>5, <1>6, ClearIs, ClearView
<1> HIDE DEF y, before
<1>9. c \in Gfx /\ SameUse(x, c) /\ Begun(c) /\ SameView(x, c) /\ c.image = Blank(x.target, before, p.name)
  <2>1. c \in Gfx /\ SameUse(y, c) /\ Begun(c)  BY <1>8, EndPassIs
  <2>2. SameView(y, c) /\ c.image = y.image  BY <1>8, EndPassView
  <2> HIDE DEF c
  <2>3. SameUse(x, c)  BY <1>8, <2>1, SameUseTwice
  <2>4. SameView(x, c)  BY <1>8, <2>2 DEF SameView
  <2>5. QED  BY <1>8, <2>1, <2>2, <2>3, <2>4
<1> HIDE DEF c
<1>10. e \in Gfx /\ SameUse(x, e) /\ SameView(x, e) /\ Begun(e) /\ e.image = Blank(x.target, before, p.name)
  BY <1>5, <1>6, <1>7, <1>9, ClearedPasses
<1> HIDE DEF e
<1>11. /\ Placed(h) /\ h.image = e.image
       /\ \A i \in RT : /\ h.rt[i].texture = e.rt[i].texture
                        /\ h.rt[i].first = IF u.rt[i].enabled THEN FALSE ELSE u.rt[i].first
  <2>1. SameUse(b, e)  BY <1>6, <1>10, SameUseTwice
  <2>2. Kept0(u, e.target)  BY <1>5, <1>10 DEF SameView
  <2>3. "NORMAL" \in {"NORMAL", "POST"} /\ b = RenderBegin(u, "NORMAL")  OBVIOUS
  <2> HIDE DEF b, h
  <2>4. QED  BY <1>3, <1>4, <1>10, <2>1, <2>2, <2>3, PlacedAgain DEF h
<1> HIDE DEF b, h
<1>12. /\ \A i \in InUse(u) : e.image[Pick(u, i)] = <<p.name>>
       /\ 0 \notin InUse(u) => e.image[Buffer(0, Original)] = u.image[Buffer(0, Original)]
  <2> DEFINE target == x.target
             image == e.image
  <2>1. Kept0(u, target) /\ Chosen0(u, target) /\ image = Blank(target, u.image, p.name)
    BY <1>5, <1>10 DEF before
  <2> HIDE DEF target, image
  <2>2. Alone(u) /\ Overridden(u)  BY <1>2
  <2>3. FilledIn(u, p.name, image)  BY <1>3, <2>1, <2>2, Filled
  <2>4. QED  BY <2>3 DEF image, FilledIn
<1>13. ASSUME NEW i \in RT
       PROVE  h.rt[i].texture = IF u.rt[i].enabled THEN Pick(u, i) ELSE g.rt[i].texture
  <2>1. h.rt[i].texture = x.rt[i].texture  BY <1>10, <1>11 DEF SameView
  <2>2. u.rt[i].texture = g.rt[i].texture  BY <1>3 DEF SamePicture
  <2>3. QED  BY <1>5, <2>1, <2>2
<1>14. \A i \in RT : u.rt[i].enabled <=> Draws(p, i)  BY <1>1 DEF Named
<1>15. \A i \in RT : ~ Draws(p, i) => h.rt[i].texture = g.rt[i].texture /\ h.rt[i].first = g.rt[i].first
  <2>1. \A i \in RT : u.rt[i].first = g.rt[i].first  BY <1>3 DEF SamePicture
  <2>2. QED  BY <1>11, <1>13, <1>14, <2>1
<1>16. ASSUME NEW i \in RT, Draws(p, i)
       PROVE  h.rt[i].first = FALSE /\ h.rt[i].texture = Pick(u, i) /\ h.image[h.rt[i].texture] = <<p.name>>
  <2>1. u.rt[i].enabled /\ i \in InUse(u)  BY <1>14, <1>16 DEF InUse
  <2>2. h.rt[i].first = FALSE  BY <1>11, <2>1
  <2>3. h.rt[i].texture = Pick(u, i)  BY <1>13, <2>1
  <2>4. h.image = e.image  BY <1>11
  <2>5. e.image[Pick(u, i)] = <<p.name>>  BY <1>12, <2>1
  <2>6. QED  BY <2>2, <2>3, <2>4, <2>5
<1>17. ~ Draws(p, 0) => h.image[Buffer(0, Original)] = g.image[Buffer(0, Original)]
  <2>1. ~ Draws(p, 0) => 0 \notin InUse(u)  BY <1>2
  <2>2. u.image = g.image  BY <1>3 DEF SamePicture
  <2>3. h.image = e.image  BY <1>11
  <2>4. QED  BY <1>12, <2>1, <2>2, <2>3
<1>18. DrewTargets(g, p, h)
  <2>1. ASSUME NEW i \in RT, Draws(p, i)
        PROVE  \E n \in DOMAIN p.targets : /\ p.targets[n].rt = i
                                           /\ h.rt[i].texture = IF p.targets[n].texture # NULL THEN p.targets[n].texture
                                                                ELSE Buffer(i, Original)
    <3>1. PICK n \in DOMAIN p.targets :
            /\ p.targets[n].rt = i
            /\ Pick(u, i) = IF p.targets[n].texture # NULL THEN p.targets[n].texture ELSE Buffer(i, Original)
      BY <1>2, <2>1
    <3>2. h.rt[i].texture = Pick(u, i)  BY <1>16, <2>1
    <3>3. QED  BY <3>1, <3>2
  <2>2. Placed(h)  BY <1>11
  <2> HIDE DEF c
  <2>3. QED  BY <1>15, <1>16, <1>17, <2>1, <2>2 DEF DrewTargets
<1>19. QED  BY <1>1, <1>18 DEF h, e

(* A normal process that writes to the back buffer directly.               *)
LEMMA NormalWrites ==
  ASSUME NEW g, Between(g), Placed(g), g.immediate,
         NEW p, IsProcess(p), p.name \in Names, p.targets = <<>> <=> g.immediate, ~ p.clear,
         NEW passes, Len(passes) \in Nat
  PROVE  LET h == RenderEnd(DrawPasses(NormalBegin(g, p), p.name, passes))
         IN /\ Placed(h)
            /\ h.image[Back] = IF Len(passes) = 0 THEN g.image[Back] ELSE Add(g.image[Back], p.name)
<1> DEFINE u == UseTargets(DisableAllRenderTargets(g), p)
           b == RenderBegin(u, "NORMAL")
           e == DrawPasses(b, p.name, passes)
           h == RenderEnd(e)
<1>1. Prepared(g, u) /\ Named(p, u) /\ NormalBegin(g, p) = b  BY NormalTargets
<1> HIDE DEF u
<1>2. u \in Gfx /\ Idle(u) /\ Everywhere(u) /\ Placed(u) /\ SamePicture(g, u)
  BY <1>1 DEF Prepared
<1>3. b \in Gfx /\ Begun(b) /\ SamePlan(u, b) /\ Started(u, b, "NORMAL")  BY <1>1, PreparedBegins
<1>4. \A i \in RT : ~ Draws(p, i) /\ ~ u.rt[i].enabled /\ ~ b.rt[i].enabled
  <2>1. p.targets = <<>>  OBVIOUS
  <2>2. \A i \in RT : ~ Draws(p, i)  BY <2>1 DEF Draws
  <2>3. QED  BY <1>1, <1>3, <2>2 DEF Named, SamePlan
<1>5. b.target = u.target /\ b.image = u.image  BY <1>3 DEF Started
<1>6. Quiet(b)  BY <1>4 DEF Quiet
<1> HIDE DEF b
<1>7. e \in Gfx /\ SameUse(b, e) /\ (Begun(e) \/ e = b)  BY <1>3, DrawPassesAre
<1>8. SameView(b, e) /\ e.image = IF Len(passes) = 0 THEN b.image ELSE Stroke(b.target, b.image, p.name)
  BY <1>3, <1>6, QuietDraws
<1> HIDE DEF e
<1>9. Placed(h) /\ h.image = e.image
  <2>1. Kept0(u, e.target)  BY <1>5, <1>8 DEF SameView, Kept0
  <2>2. "NORMAL" \in {"NORMAL", "POST"} /\ b = RenderBegin(u, "NORMAL")  BY DEF b
  <2>3. Begun(e)  BY <1>3, <1>7
  <2>4. QED  BY <1>2, <1>3, <1>7, <2>1, <2>2, <2>3, PlacedAgain
<1> HIDE DEF h
<1>10. Stroke(b.target, b.image, p.name)[Back] = Add(g.image[Back], p.name)
  <2>1. b.target = g.target /\ b.image = g.image  BY <1>2, <1>5 DEF SamePicture
  <2>2. Back \in Surfaces /\ Back # NULL  BY OwnIs, PlacesApart
  <2>3. Back \in Drawn(b.target)  BY <2>1, <2>2, TargetsFinite DEF Drawn, Placed
  <2>4. QED  BY <2>1, <2>2, <2>3 DEF Stroke
<1>11. b.image = g.image  BY <1>2, <1>5 DEF SamePicture
<1>12. h.image[Back] = IF Len(passes) = 0 THEN g.image[Back] ELSE Add(g.image[Back], p.name)
  BY <1>8, <1>9, <1>10, <1>11
<1>13. QED  BY <1>1, <1>9, <1>12 DEF h, e

(* The pass around the requests of a stage without normal processes.       *)
LEMMA DefaultPasses ==
  ASSUME NEW x \in Gfx, Quiet(x), Passing(x), NEW passes, Len(passes) \in Nat
  PROVE  LET e == RenderEndPass(DrawPasses(Clear(x, "default"), "default", passes))
         IN /\ e \in Gfx /\ SameUse(x, e) /\ SameView(x, e) /\ Begun(e)
            /\ e.image = Blank(x.target, x.image, "default")
<1> DEFINE y == Clear(x, "default")
           z == DrawPasses(y, "default", passes)
           e == RenderEndPass(z)
           before == x.image
<1>1. "default" \in Names  BY DEF Names
<1>2. before \in [Surfaces -> Images]  BY GfxIs DEF Typed
<1>3. /\ y \in Gfx /\ SameUse(x, y) /\ Passing(y) /\ SameView(x, y)
      /\ y.image = Blank(x.target, before, "default")
  BY <1>1, ClearIs, ClearView
<1> HIDE DEF y, before
<1>4. /\ z \in Gfx /\ SameUse(x, z) /\ SameView(x, z) /\ (Begun(z) \/ z = y)
      /\ z.image = Blank(x.target, before, "default")
  BY <1>1, <1>2, <1>3, ClearedPasses
<1>5. Begun(z) \/ Passing(z)  BY <1>3, <1>4
<1> HIDE DEF z
<1>6. e \in Gfx /\ SameUse(z, e) /\ Begun(e)  BY <1>4, <1>5, EndPassIs
<1>7. SameView(z, e) /\ e.image = z.image  BY <1>4, EndPassView
<1> HIDE DEF e
<1>8. SameUse(x, e)  BY <1>4, <1>6, SameUseTwice
<1>9. SameView(x, e)  BY <1>4, <1>7 DEF SameView
<1>10. QED  BY <1>4, <1>6, <1>7, <1>8, <1>9 DEF e, z, y, before

(* A stage without normal processes leaves the clear of all targets; or,   *)
(* if the back buffer is written to directly, of that.                     *)
DefaultDrew(g, h) ==
  /\ Placed(h)
  /\ ~ g.immediate => \A i \in RT : /\ h.rt[i].first = FALSE /\ h.rt[i].texture = Buffer(i, Original)
                                    /\ h.image[Buffer(i, Original)] = <<"default">>
  /\ g.immediate => h.image[Back] = <<"default">>

(* The default, from its begin to its end.                                 *)
LEMMA DefaultDraws ==
  ASSUME NEW g, Between(g), Placed(g), NEW passes, Len(passes) \in Nat
  PROVE  LET b == RenderBegin(EnableAllRenderTargets(g), "NORMAL")
             h == RenderEnd(RenderEndPass(DrawPasses(Clear(RenderBeginPass(b), "default"), "default", passes)))
         IN DefaultDrew(g, h)
<1> DEFINE u == EnableAllRenderTargets(g)
           b == RenderBegin(u, "NORMAL")
           x == RenderBeginPass(b)
           e == RenderEndPass(DrawPasses(Clear(x, "default"), "default", passes))
           h == RenderEnd(e)
<1>1. g \in Gfx  BY DEF Between
<1>2. /\ u \in Gfx /\ SameHold(g, u) /\ SamePicture(g, u)
      /\ \A i \in RT : u.rt[i].index = i /\ u.rt[i].enabled /\ u.rt[i].override = NULL
  BY <1>1, EnableIs, EnableSets
<1> HIDE DEF u
<1>3. Prepared(g, u)  BY <1>2, IsPrepared
<1>4. u \in Gfx /\ Idle(u) /\ Everywhere(u) /\ u.immediate = g.immediate /\ Placed(u)
  BY <1>3 DEF Prepared
<1>5. b \in Gfx /\ Begun(b) /\ SamePlan(u, b) /\ Started(u, b, "NORMAL")  BY <1>3, PreparedBegins
<1>6. x \in Gfx /\ SameUse(b, x) /\ Passing(x) /\ x.image = b.image  BY <1>5, BeginPassIs
<1>7. x.image = u.image  BY <1>5, <1>6 DEF Started
<1>8. ~ g.immediate =>
        /\ \A i \in RT : x.rt[i].texture = IF u.rt[i].enabled THEN Pick(u, i) ELSE u.rt[i].texture
        /\ Kept0(u, x.target) /\ Chosen0(u, x.target) /\ Quiet(x)
  BY <1>4, <1>5, FirstPass
<1>9. g.immediate => Quiet(x) /\ x.target = u.target
  <2> SUFFICES ASSUME g.immediate PROVE Quiet(x) /\ x.target = u.target
    OBVIOUS
  <2>1. \A i \in RT : b.rt[i].mode = "NORMAL" /\ b.rt[i].immediate
    <3>1. \A i \in RT : b.rt[i].immediate = u.rt[i].immediate  BY <1>5 DEF SamePlan
    <3>2. \A i \in RT : u.rt[i].immediate = u.immediate  BY <1>4 DEF Everywhere
    <3>3. \A i \in RT : b.rt[i].mode = "NORMAL"  BY <1>2, <1>5 DEF Started
    <3>4. QED  BY <1>4, <3>1, <3>2, <3>3
  <2>2. Quiet(b)  BY <2>1 DEF Quiet
  <2>3. SameView(b, x)  BY <1>5, <2>2, QuietPass
  <2> HIDE DEF x
  <2>4. Quiet(x)  BY <1>6, <2>2, <2>3, QuietStays
  <2>5. x.target = u.target  BY <1>5, <2>3 DEF SameView, Started
  <2>6. QED  BY <2>4, <2>5
<1> HIDE DEF x, b
<1>10. Quiet(x)  BY <1>8, <1>9
<1>11. /\ e \in Gfx /\ SameUse(x, e) /\ SameView(x, e) /\ Begun(e)
       /\ e.image = Blank(x.target, x.image, "default")
  BY <1>6, <1>10, DefaultPasses
<1> HIDE DEF e
<1>12. /\ Placed(h) /\ h.image = e.image
       /\ \A i \in RT : /\ h.rt[i].texture = e.rt[i].texture
                        /\ h.rt[i].first = IF u.rt[i].enabled THEN FALSE ELSE u.rt[i].first
  <2>1. SameUse(b, e)  BY <1>6, <1>11, SameUseTwice
  <2>2. Kept0(u, e.target)
    <3>1. e.target = x.target  BY <1>11 DEF SameView
    <3>2. g.immediate => Kept0(u, x.target)  BY <1>9 DEF Kept0
    <3>3. QED  BY <1>8, <3>1, <3>2
  <2>3. "NORMAL" \in {"NORMAL", "POST"} /\ b = RenderBegin(u, "NORMAL")  BY DEF b
  <2>4. QED  BY <1>4, <1>5, <1>11, <2>1, <2>2, <2>3, PlacedAgain
<1> HIDE DEF h
<1>13. ASSUME ~ g.immediate, NEW i \in RT
       PROVE  /\ h.rt[i].first = FALSE /\ h.rt[i].texture = Buffer(i, Original)
              /\ h.image[Buffer(i, Original)] = <<"default">>
  <2>1. InUse(u) = RT /\ Pick(u, i) = Buffer(i, Original)  BY <1>2 DEF InUse, Pick
  <2>2. Alone(u) /\ Overridden(u)  BY <1>2, <2>1 DEF Alone, Overridden
  <2> DEFINE target == x.target
             image == e.image
  <2>3. Kept0(u, target) /\ Chosen0(u, target) /\ image = Blank(target, u.image, "default")
    BY <1>7, <1>8, <1>11, <1>13
  <2> HIDE DEF target, image
  <2>4. FilledIn(u, "default", image)  BY <1>4, <2>2, <2>3, Filled
  <2>5. h.image[Buffer(i, Original)] = <<"default">>
    <3>1. i \in InUse(u)  BY <2>1
    <3>2. image[Pick(u, i)] = <<"default">>  BY <2>4, <3>1 DEF FilledIn
    <3>3. QED  BY <1>12, <2>1, <3>2 DEF image
  <2>6. h.rt[i].texture = Buffer(i, Original)
    <3>1. x.rt[i].texture = Pick(u, i)  BY <1>2, <1>8, <1>13
    <3>2. h.rt[i].texture = e.rt[i].texture /\ e.rt[i].texture = x.rt[i].texture  BY <1>11, <1>12 DEF SameView
    <3>3. QED  BY <2>1, <3>1, <3>2
  <2>7. h.rt[i].first = FALSE  BY <1>2, <1>12
  <2>8. QED  BY <2>5, <2>6, <2>7
<1>14. g.immediate => h.image[Back] = <<"default">>
  <2> SUFFICES ASSUME g.immediate PROVE h.image[Back] = <<"default">>
    OBVIOUS
  <2>1. Back \in Surfaces /\ Back # NULL  BY OwnIs, PlacesApart
  <2>2. x.target = u.target  BY <1>9
  <2>3. Back \in Drawn(x.target)  BY <1>4, <2>1, <2>2, TargetsFinite DEF Drawn, Placed
  <2>4. e.image[Back] = <<"default">>  BY <1>11, <2>1, <2>3 DEF Blank
  <2>5. QED  BY <1>12, <2>4
<1>15. DefaultDrew(g, h)  BY <1>12, <1>13, <1>14 DEF DefaultDrew
<1>16. QED  BY <1>15 DEF h, e, x, b, u

(* The frame d is what target 0 has; it is the scene, as it was drawn; and *)
(* the targets N have what normal processes drew.                          *)
Framed(g, d) ==
  \E b \in {0, 1, Original} : g.rt[0].texture = Buffer(0, b) /\ g.image[Buffer(0, b)] = d
Fresh(g, d) ==
  g.rt[0].texture = Buffer(0, Original) /\ g.image[Buffer(0, Original)] = d /\ Len(d) = 1
DrawnIn(g, N) ==
  \A i \in N : /\ g.rt[i].first = FALSE
               /\ g.rt[i].texture \in {Buffer(i, Original)} \cup {Texture(n) : n \in Textures}

(* Among post processes that go to the buffers: each target in use is read *)
(* from one buffer and goes to another, and the original scene is kept;    *)
(* fresh: none has drawn yet.                                              *)
Reading(g, N, d, fresh) ==
  /\ ~ g.immediate
  /\ \A i \in RT : /\ g.rt[i].override = NULL /\ g.rt[i].mode = "POST"
                   /\ g.rt[i].previous = IF i = 0 THEN Back ELSE NULL
                   /\ g.target[i] \in {NULL, Back} \cup Own(i)
                   /\ fresh => g.target[i] \in {NULL, Back}
  /\ \A i \in N : /\ g.rt[i].first = FALSE /\ g.rt[i].texture \in Readable(i)
                  /\ g.rt[i].texture # Buffer(i, g.rt[i].current)
                  /\ g.target[i] # Buffer(i, Original)
                  /\ ~ fresh => g.target[i] = g.rt[i].texture
  /\ Framed(g, d) /\ Len(g.image[Buffer(0, Original)]) = 1

(* The buffer a target will draw into next is not the one that keeps the   *)
(* original scene.                                                         *)
LEMMA CurrentIs ==
  ASSUME NEW g \in Gfx, NEW i \in RT
  PROVE  g.rt[i].current \in {0, 1} /\ Buffer(i, g.rt[i].current) # Buffer(i, Original)
         /\ Buffer(i, g.rt[i].current) \in Own(i)
<1>1. g.rt[i].current \in {0, 1}  BY GfxIs DEF Typed, TargetType
<1>2. g.rt[i].current # Original  BY <1>1 DEF Original
<1>3. Buffer(i, g.rt[i].current) # Buffer(i, Original)  BY <1>2, PlacesApart
<1>4. Buffer(i, g.rt[i].current) \in Own(i)  BY <1>1 DEF Own
<1>5. QED  BY <1>1, <1>3, <1>4

(* A list of post processes begins.                                        *)
LEMMA ReadingBegins ==
  ASSUME NEW g, Between(g), Placed(g), ~ g.immediate,
         NEW N, N \subseteq RT, 0 \in N, DrawnIn(g, N), NEW d, Fresh(g, d)
  PROVE  Reading(RenderBegin(EnableAllRenderTargets(g), "POST"), N, d, TRUE)
<1> DEFINE u == EnableAllRenderTargets(g)
           h == RenderBegin(u, "POST")
<1>1. g \in Gfx  BY DEF Between
<1>2. /\ u \in Gfx /\ SameHold(g, u) /\ SamePicture(g, u)
      /\ \A i \in RT : u.rt[i].index = i /\ u.rt[i].enabled /\ u.rt[i].override = NULL
  BY <1>1, EnableIs, EnableSets
<1> HIDE DEF u
<1>3. Prepared(g, u)  BY <1>2, IsPrepared
<1>4. Idle(u) /\ Refs(u) /\ u.immediate = g.immediate  BY <1>3 DEF Prepared
<1>5. "POST" \in {"NORMAL", "POST"} /\ "POST" # "NORMAL"  OBVIOUS
<1>6. h \in Gfx /\ SamePlan(u, h)  BY <1>2, <1>4, <1>5, BeginIs
<1>7. Started(u, h, "POST")  BY <1>2, <1>4, <1>5, BeginSets
<1> HIDE DEF h
<1>8. h.target = g.target /\ h.image = g.image  BY <1>2, <1>7 DEF Started, SamePicture
<1>9. ASSUME NEW i \in RT
      PROVE  /\ h.rt[i].override = NULL /\ h.rt[i].mode = "POST"
             /\ h.rt[i].previous = IF i = 0 THEN Back ELSE NULL
             /\ h.rt[i].first = g.rt[i].first /\ h.rt[i].texture = g.rt[i].texture
  <2>1. /\ h.rt[i].override = NULL /\ h.rt[i].mode = "POST"
        /\ h.rt[i].previous = IF i = 0 THEN u.target[0] ELSE u.rt[i].previous
        /\ h.rt[i].first = u.rt[i].first /\ h.rt[i].texture = u.rt[i].texture
    BY <1>2, <1>5, <1>7 DEF Started
  <2>2. /\ u.rt[i].first = g.rt[i].first /\ u.rt[i].texture = g.rt[i].texture
        /\ u.target[0] = Back /\ u.rt[i].previous = g.rt[i].previous
    BY <1>2 DEF SamePicture, SameHold, Placed
  <2>3. i # 0 => g.rt[i].previous = NULL  BY DEF Between, Refs
  <2>4. QED  BY <2>1, <2>2, <2>3
<1>10. ~ h.immediate  BY <1>4, <1>6 DEF SamePlan
<1>11. \A i \in RT : h.target[i] \in {NULL, Back}  BY <1>8 DEF Placed
<1>12. ASSUME NEW i \in N
       PROVE  /\ h.rt[i].first = FALSE /\ h.rt[i].texture \in Readable(i)
              /\ h.rt[i].texture # Buffer(i, h.rt[i].current)
              /\ h.target[i] # Buffer(i, Original)
  <2>1. i \in RT  OBVIOUS
  <2>2. h.rt[i].first = FALSE /\ h.rt[i].texture \in {Buffer(i, Original)} \cup {Texture(n) : n \in Textures}
    BY <1>9, <2>1 DEF DrawnIn
  <2>3. h.rt[i].texture \in Readable(i)  BY <2>2 DEF Readable, Own
  <2>4. h.rt[i].texture # Buffer(i, h.rt[i].current)  BY <1>6, <2>1, <2>2, CurrentIs, PlacesApart
  <2>5. h.target[i] # Buffer(i, Original)  BY <1>11, <2>1, PlacesApart
  <2>6. QED  BY <2>2, <2>3, <2>4, <2>5
<1>13. Framed(h, d) /\ Len(h.image[Buffer(0, Original)]) = 1
  BY <1>8, <1>9, TargetsFinite DEF Fresh, Framed
<1>14. Reading(h, N, d, TRUE)  BY <1>9, <1>10, <1>11, <1>12, <1>13 DEF Reading
<1>15. QED  BY <1>14 DEF h, u

(* SetRenderTargets, when every target has its own index.                  *)
LEMMA SetOwn ==
  ASSUME NEW target \in [RT -> Places], NEW rt, \A i \in RT : rt[i].index = i,
         NEW D, D \subseteq RT, NEW Sets, DOMAIN Sets = D, NEW k \in RT
  PROVE  SetRenderTargets(target, rt, Sets)[k] = IF k \in D THEN Sets[k] ELSE target[k]
<1> DEFINE next == SetRenderTargets(target, rt, Sets)
<1>1. /\ \A m \in RT : (\A i \in D : rt[i].index # m) => next[m] = target[m]
      /\ \A m \in RT : (\E i \in D : rt[i].index = m) => \E i \in D : rt[i].index = m /\ next[m] = Sets[i]
  BY SetAt
<1> HIDE DEF next
<1>2. \A i \in D : rt[i].index = i  OBVIOUS
<1>3. CASE k \in D
  <2>1. \E i \in D : rt[i].index = k /\ next[k] = Sets[i]  BY <1>1, <1>2, <1>3
  <2>2. QED  BY <1>2, <1>3, <2>1 DEF next
<1>4. CASE k \notin D
  <2>1. \A i \in D : rt[i].index # k  BY <1>2, <1>4
  <2>2. QED  BY <1>1, <1>4, <2>1 DEF next
<1>5. QED  BY <1>3, <1>4

(* What a post process finds under a semantic.                             *)
Source(u, s) == IF s[1] = "RT" THEN u.rt[s[2]].texture ELSE Buffer(s[2], Original)

(* The semantics it reads are all published, so what its effect kept is    *)
(* not used.                                                               *)
LEMMA ReadsAre ==
  ASSUME NEW u, Posting(u), \A i \in RT : u.rt[i].mode = "POST",
         NEW N, N \subseteq RT, \A i \in N : u.rt[i].texture \in Readable(i),
         NEW p, IsProcess(p), \A s \in p.reads : s[2] \in N, NEW kept
  PROVE  /\ Used(p, RenderBeginPass(u), kept) = [s \in p.reads |-> Source(u, s)]
         /\ \A s \in p.reads : Source(u, s) \in Readable(s[2])
<1> DEFINE begun == RenderBeginPass(u)
<1>1. u \in Gfx /\ \A i \in RT : Publishes(u, i)  BY DEF Posting, Begun, Publishes, Ready
<1>2. ASSUME NEW s \in p.reads PROVE begun.semantic[s] = Source(u, s) /\ Source(u, s) \in Readable(s[2])
  <2>1. s \in Semantics /\ s[2] \in RT /\ s[2] \in N  BY DEF IsProcess, Semantics
  <2>2. \A t \in Semantics : begun.semantic[t] =
          IF ~ Publishes(u, t[2]) THEN u.semantic[t]
          ELSE IF t[1] = "RT" THEN u.rt[t[2]].texture ELSE Buffer(t[2], Original)
    BY <1>1, BeginPassSets
  <2> HIDE DEF begun
  <2>3. begun.semantic[s] = Source(u, s)  BY <1>1, <2>1, <2>2 DEF Source
  <2>4. Buffer(s[2], Original) \in Readable(s[2])  BY DEF Readable, Own
  <2>5. QED  BY <2>1, <2>3, <2>4 DEF Source
<1> HIDE DEF begun
<1>3. \A s \in p.reads : begun.semantic[s] # NULL
  <2> SUFFICES ASSUME NEW s \in p.reads PROVE begun.semantic[s] # NULL
    OBVIOUS
  <2>1. s[2] \in RT  BY DEF IsProcess, Semantics
  <2>2. NULL \notin Readable(s[2])  BY <2>1, OwnIs
  <2>3. QED  BY <1>2, <2>2
<1>4. Used(p, begun, kept) = [s \in p.reads |-> Source(u, s)]  BY <1>2, <1>3 DEF Used
<1>5. QED  BY <1>2, <1>4 DEF begun

(* Whether what it reads is also drawn to; and what it draws.              *)
Conflict(u, p, begun) == \E s \in p.reads : Source(u, s) \in Drawn(begun.target)

(* The image is undefined just when it reads what it draws to.             *)
LEMMA ResultOf ==
  ASSUME NEW u, NEW p, NEW begun, begun.image = u.image,
         NEW used, used = [s \in p.reads |-> Source(u, s)],
         \A s \in p.reads : Source(u, s) # NULL,
         <<"RT", 0>> \in p.reads, Len(u.image[Buffer(0, Original)]) = 1
  PROVE  Result(p, begun, used) = IF Conflict(u, p, begun) THEN Old ELSE Add(u.image[u.rt[0].texture], p.name)
<1>1. used[<<"RT", 0>>] = u.rt[0].texture /\ used[<<"RT", 0>>] # NULL  BY DEF Source
<1>2. <<"ORT", 0>> \in p.reads => used[<<"ORT", 0>>] = Buffer(0, Original)  BY DEF Source
<1>3. (({used[s] : s \in p.reads} \ {NULL}) \cap Targets(begun) # {}) <=> Conflict(u, p, begun)
  <2>1. \A s \in p.reads : used[s] = Source(u, s) /\ used[s] # NULL  OBVIOUS
  <2>2. Targets(begun) = Drawn(begun.target)  BY DEF Targets, Drawn
  <2> HIDE DEF Source
  <2>3. QED  BY <2>1, <2>2 DEF Conflict
<1>4. Undefined(p, begun, used) <=> Conflict(u, p, begun)
  BY <1>1, <1>2, <1>3 DEF Undefined
<1>5. QED  BY <1>1, <1>4 DEF Result

(* A post process of a scene whose post processes go to the targets in     *)
(* their order, and read some of the targets N.                            *)
Reader(p, N) ==
  /\ IsProcess(p) /\ p.name \in Names /\ <<"RT", 0>> \in p.reads
  /\ \A s \in p.reads : s[2] \in N
  /\ \A e \in DOMAIN p.targets : p.targets[e].rt = e - 1 /\ p.targets[e].texture = NULL

(* What such a process names changes nothing: all targets are in use.      *)
LEMMA PostPrepared ==
  ASSUME NEW g, Posting(g), NEW N, N \subseteq RT, NEW d, NEW fresh \in BOOLEAN, Reading(g, N, d, fresh),
         NEW p, Reader(p, N)
  PROVE  LET u == UseTargets(g, p)
         IN Posting(u) /\ Reading(u, N, d, fresh) /\ SamePicture(g, u)
<1> DEFINE u == UseTargets(g, p)
<1>1. g \in Gfx /\ IsProcess(p) /\ \A e \in DOMAIN p.targets : p.targets[e].rt = e - 1
  BY DEF Posting, Reader
<1>2. /\ u \in Gfx /\ SameHold(g, u)
      /\ \A i \in RT : /\ g.rt[i].index = i => u.rt[i].index = i
                       /\ g.rt[i].enabled => u.rt[i].enabled
  BY <1>1, UseIs
<1>3. /\ SamePicture(g, u)
      /\ \A i \in RT : ~ Draws(p, i) => u.rt[i] = g.rt[i]
      /\ \A i \in RT : Draws(p, i) => Takes(p, i, u.rt[i])
  BY <1>1, UseSets
<1> HIDE DEF u
<1>4. /\ \A i \in RT : u.rt[i].index = i /\ u.rt[i].enabled /\ u.rt[i].state = g.rt[i].state
                       /\ u.rt[i].immediate = g.rt[i].immediate /\ g.rt[i].enabled
                       /\ u.rt[i].previous = g.rt[i].previous
      /\ u.immediate = g.immediate /\ u.lost = g.lost
  BY <1>2 DEF Posting, SameHold
<1>5. Posting(u)
  <2>1. Begun(u)  BY <1>4 DEF Posting, Begun
  <2>2. Everywhere(u)  BY <1>4 DEF Posting, Everywhere
  <2>3. QED  BY <1>2, <1>4, <2>1, <2>2 DEF Posting
<1>6. ASSUME NEW i \in RT PROVE u.rt[i].override = NULL
  <2>1. CASE Draws(p, i)  BY <1>3, <2>1 DEF Takes, Reader
  <2>2. CASE ~ Draws(p, i)  BY <1>3, <2>2 DEF Reading
  <2>3. QED  BY <2>1, <2>2
<1>7. /\ u.target = g.target /\ u.image = g.image
      /\ \A i \in RT : /\ u.rt[i].texture = g.rt[i].texture /\ u.rt[i].first = g.rt[i].first
                       /\ u.rt[i].current = g.rt[i].current /\ u.rt[i].mode = g.rt[i].mode
  BY <1>3 DEF SamePicture
<1>8. Framed(u, d)  BY <1>7, TargetsFinite DEF Framed, Reading
<1>9. Reading(u, N, d, fresh)
  <2>1. ~ u.immediate  BY <1>4 DEF Reading
  <2>2. \A i \in RT : /\ u.rt[i].mode = "POST"
                      /\ u.rt[i].previous = IF i = 0 THEN Back ELSE NULL
                      /\ u.target[i] \in {NULL, Back} \cup Own(i)
                      /\ fresh => u.target[i] \in {NULL, Back}
    BY <1>4, <1>7 DEF Reading
  <2>3. \A i \in N : /\ u.rt[i].first = FALSE /\ u.rt[i].texture \in Readable(i)
                     /\ u.rt[i].texture # Buffer(i, u.rt[i].current)
                     /\ u.target[i] # Buffer(i, Original)
                     /\ ~ fresh => u.target[i] = u.rt[i].texture
    BY <1>7 DEF Reading
  <2>4. Len(u.image[Buffer(0, Original)]) = 1  BY <1>7 DEF Reading
  <2>5. QED  BY <1>6, <1>8, <2>1, <2>2, <2>3, <2>4 DEF Reading
<1>10. QED  BY <1>3, <1>5, <1>9 DEF u

(* The pass of one that goes to the buffers: target i draws into the       *)
(* buffer that is not read.                                                *)
PassTo(u, N, begun) ==
  /\ begun.image = u.image
  /\ \A i \in RT : begun.target[i] \in {NULL, Back} \cup Own(i) /\ begun.rt[i].current = u.rt[i].current
  /\ \A i \in N : begun.target[i] = Buffer(i, u.rt[i].current) /\ begun.rt[i].texture = begun.target[i]

(* The buffers alternate, so the pass sets every target it reads.          *)
LEMMA PostPass ==
  ASSUME NEW u, Posting(u), NEW N, N \subseteq RT, NEW d, NEW fresh \in BOOLEAN, Reading(u, N, d, fresh)
  PROVE  PassTo(u, N, RenderBeginPass(u))
<1> DEFINE begun == RenderBeginPass(u)
           Sets == [i \in Swapped(u) |-> Choice(u, i)]
<1>1. u \in Gfx /\ \A i \in RT : u.rt[i].index = i  BY DEF Posting
<1>2. /\ \A i \in RT : /\ begun.rt[i].texture = IF i \in Swapped(u) THEN Choice(u, i) ELSE u.rt[i].texture
                       /\ begun.rt[i].current = u.rt[i].current
      /\ begun.target = SetRenderTargets(u.target, u.rt, Sets)
  BY <1>1, BeginPassSets
<1>3. begun.image = u.image  BY <1>1, BeginPassIs
<1> HIDE DEF begun
<1>4. Swapped(u) \subseteq RT /\ DOMAIN Sets = Swapped(u) /\ \A i \in Swapped(u) : Sets[i] = Choice(u, i)
  BY DEF Swapped
<1>5. u.target \in [RT -> Places]  BY <1>1 DEF Gfx
<1> HIDE DEF Sets
<1>6. \A k \in RT : begun.target[k] = IF k \in Swapped(u) THEN Choice(u, k) ELSE u.target[k]
  <2>1. \A k \in RT : SetRenderTargets(u.target, u.rt, Sets)[k] = IF k \in Swapped(u) THEN Sets[k] ELSE u.target[k]
    <3> DEFINE target == u.target
               rt == u.rt
               D == Swapped(u)
    <3>1. /\ target \in [RT -> Places] /\ D \subseteq RT /\ DOMAIN Sets = D
          /\ \A i \in RT : rt[i].index = i
      BY <1>1, <1>4, <1>5
    <3> HIDE DEF target, rt, D
    <3>2. \A k \in RT : SetRenderTargets(target, rt, Sets)[k] = IF k \in D THEN Sets[k] ELSE target[k]
      BY <3>1, SetOwn
    <3>3. QED  BY <3>2 DEF target, rt, D
  <2>2. QED  BY <1>2, <1>4, <2>1
<1>7. ASSUME NEW i \in RT PROVE Choice(u, i) \in Own(i)
  <2>1. u.rt[i].override = NULL  BY DEF Reading
  <2>2. Buffer(i, u.rt[i].current) \in Own(i)  BY <1>1, CurrentIs
  <2>3. QED  BY <2>1, <2>2 DEF Choice, Own
<1>8. ASSUME NEW i \in N PROVE i \in Swapped(u) /\ Choice(u, i) = Buffer(i, u.rt[i].current)
  <2>1. i \in RT  OBVIOUS
  <2>2. /\ u.rt[i].override = NULL /\ u.rt[i].mode = "POST" /\ u.rt[i].first = FALSE
        /\ u.rt[i].texture # Buffer(i, u.rt[i].current)
    BY <2>1 DEF Reading
  <2>3. Choice(u, i) = Buffer(i, u.rt[i].current)  BY <2>2 DEF Choice
  <2>4. Ready(u.rt[i], {"BEGIN", "ENDPASS"})  BY <2>1 DEF Posting, Begun, Ready
  <2>5. ~ u.rt[i].immediate  BY <2>1 DEF Posting, Everywhere, Reading
  <2>6. QED  BY <2>1, <2>2, <2>3, <2>4, <2>5 DEF Swapped
<1>9. \A i \in RT : begun.target[i] \in {NULL, Back} \cup Own(i)
  BY <1>6, <1>7 DEF Reading
<1>10. \A i \in N : begun.target[i] = Buffer(i, u.rt[i].current) /\ begun.rt[i].texture = begun.target[i]
  BY <1>2, <1>6, <1>8
<1>11. PassTo(u, N, begun)  BY <1>2, <1>3, <1>9, <1>10 DEF PassTo
<1>12. QED  BY <1>11 DEF begun

(* None of what it reads is drawn to.                                      *)
LEMMA NoConflict ==
  ASSUME NEW u, Posting(u), NEW N, N \subseteq RT, NEW d, NEW fresh \in BOOLEAN, Reading(u, N, d, fresh),
         NEW p, Reader(p, N), NEW begun, PassTo(u, N, begun)
  PROVE  ~ Conflict(u, p, begun)
<1> SUFFICES ASSUME NEW s \in p.reads, NEW k \in RT, Source(u, s) = begun.target[k]
             PROVE  FALSE
  BY DEF Conflict, Drawn
<1> DEFINE i == s[2]
<1>1. i \in N /\ i \in RT  BY DEF Reader
<1>2. u \in Gfx  BY DEF Posting
<1>3. Source(u, s) \in {u.rt[i].texture, Buffer(i, Original)}  BY DEF Source
<1> HIDE DEF i
<1>4. /\ u.rt[i].texture \in Readable(i) /\ u.rt[i].texture # Buffer(i, u.rt[i].current)
      /\ Buffer(i, Original) \in Readable(i)
  BY <1>1 DEF Reading, Readable, Own
<1>5. CASE k = i
  <2>1. begun.target[k] = Buffer(i, u.rt[i].current)  BY <1>1, <1>5 DEF PassTo
  <2>2. Buffer(i, u.rt[i].current) # Buffer(i, Original)  BY <1>1, <1>2, CurrentIs
  <2>3. QED  BY <1>3, <1>4, <2>1, <2>2
<1>6. CASE k # i
  <2>1. begun.target[k] \in {NULL, Back} \cup Own(k)  BY DEF PassTo
  <2>2. NULL \notin Readable(i) /\ Back \notin Readable(i) /\ Own(k) \cap Readable(i) = {}
    BY <1>1, <1>6, OwnIs
  <2>3. QED  BY <1>3, <1>4, <2>1, <2>2
<1>7. QED  BY <1>5, <1>6

(* What it reads are the textures and the original scenes of the targets.  *)
Sourced(u, p, kept) ==
  /\ Used(p, RenderBeginPass(u), kept) = [s \in p.reads |-> Source(u, s)]
  /\ \A s \in p.reads : Source(u, s) \in Readable(s[2]) /\ Source(u, s) # NULL
Posts(u, N) == \A i \in RT : u.rt[i].mode = "POST" /\ (i \in N => u.rt[i].texture \in Readable(i))

(* They are published in its pass.                                         *)
LEMMA IsSourced ==
  ASSUME NEW u, Posting(u), NEW N, N \subseteq RT, Posts(u, N), NEW p, Reader(p, N), NEW kept
  PROVE  Sourced(u, p, kept)
<1>1. (\A i \in RT : u.rt[i].mode = "POST") /\ \A i \in N : u.rt[i].texture \in Readable(i)
  BY DEF Posts
<1>2. IsProcess(p) /\ \A s \in p.reads : s[2] \in N  BY DEF Reader
<1>3. /\ Used(p, RenderBeginPass(u), kept) = [s \in p.reads |-> Source(u, s)]
      /\ \A s \in p.reads : Source(u, s) \in Readable(s[2])
  BY <1>1, <1>2, ReadsAre
<1>4. \A s \in p.reads : Source(u, s) # NULL  BY <1>2, <1>3, OwnIs
<1>5. QED  BY <1>3, <1>4 DEF Sourced

(* One post process that goes to the buffers adds itself to the frame.     *)
LEMMA PostReads ==
  ASSUME NEW g, Posting(g), NEW N, N \subseteq RT, NEW d, NEW fresh \in BOOLEAN, Reading(g, N, d, fresh),
         NEW p, Reader(p, N), NEW u, u = UseTargets(g, p), NEW begun, begun = RenderBeginPass(u), NEW kept,
         NEW result, result = Result(p, begun, Used(p, begun, kept)), result \in Images,
         NEW h, h = RenderEndPass([begun EXCEPT !.image[begun.target[0]] = result])
  PROVE  Reading(h, N, Add(d, p.name), FALSE)
<1>1. Posting(u) /\ Reading(u, N, d, fresh)  BY PostPrepared
<1>2. PassTo(u, N, begun)  BY <1>1, PostPass
<1>3. u \in Gfx /\ begun \in Gfx /\ SameUse(u, begun) /\ Passing(begun)
  BY <1>1, BeginPassIs DEF Posting
<1>4. 0 \in N /\ 0 \in RT
  <2>1. <<"RT", 0>> \in p.reads /\ \A s \in p.reads : s[2] \in N  BY DEF Reader
  <2>2. <<"RT", 0>>[2] \in N  BY <2>1
  <2>3. QED  BY <2>2
<1> DEFINE to == Buffer(0, u.rt[0].current)
           image == [begun.image EXCEPT ![to] = result]
           x == [begun EXCEPT !.image = image]
<1>5. begun.target[0] = to /\ begun.image = u.image  BY <1>2, <1>4 DEF PassTo
<1>6. to \in Surfaces /\ to # Buffer(0, Original) /\ to \in Own(0)
  <2>1. to # Buffer(0, Original) /\ to \in Own(0)  BY <1>3, <1>4, CurrentIs
  <2>2. QED  BY <1>4, <2>1, OwnIs
<1>7. h = RenderEndPass(x)  BY <1>5
<1>8. begun.image \in [Surfaces -> Images]  BY <1>3 DEF Gfx
<1>9. /\ image \in [Surfaces -> Images] /\ image[to] = result
      /\ image[Buffer(0, Original)] = u.image[Buffer(0, Original)]
  <2>1. Buffer(0, Original) \in Surfaces  BY <1>4 DEF Surfaces
  <2> HIDE DEF to
  <2>2. QED  BY <1>5, <1>6, <1>8, <2>1
<1>10. result = Add(d, p.name)
  <2> DEFINE used == Used(p, begun, kept)
  <2>1. Posts(u, N) /\ Len(u.image[Buffer(0, Original)]) = 1 /\ Framed(u, d)
    BY <1>1 DEF Reading, Posts
  <2>2. Sourced(u, p, kept)  BY <1>1, <2>1, IsSourced
  <2>3. used = [s \in p.reads |-> Source(u, s)] /\ \A s \in p.reads : Source(u, s) # NULL
    BY <2>2 DEF Sourced
  <2>4. <<"RT", 0>> \in p.reads  BY DEF Reader
  <2> HIDE DEF used
  <2>5. ~ Conflict(u, p, begun)  BY <1>1, <1>2, NoConflict
  <2>6. Result(p, begun, used) = Add(u.image[u.rt[0].texture], p.name)
    BY <1>5, <2>1, <2>3, <2>4, <2>5, ResultOf
  <2>7. u.image[u.rt[0].texture] = d  BY <2>1 DEF Framed
  <2>8. QED  BY <2>6, <2>7 DEF used
<1> HIDE DEF to, image
<1>11. x \in Gfx /\ SameUse(begun, x) /\ x.rt = begun.rt /\ x.target = begun.target /\ Passing(x)
  BY <1>3, <1>9, NewImagesIs
<1>12. x.image = image  BY <1>3 DEF Gfx
<1> HIDE DEF x
<1>13. /\ h \in Gfx /\ SameUse(x, h) /\ h.image = image /\ h.target = begun.target
  BY <1>7, <1>11, <1>12, EndPassIs
<1>14. \A i \in RT : /\ h.rt[i].texture = begun.rt[i].texture
                     /\ h.rt[i].current = IF Ready(x.rt[i], {"BEGINPASS"}) /\ ~ x.rt[i].immediate
                                          THEN 1 - begun.rt[i].current ELSE begun.rt[i].current
  BY <1>7, <1>11, EndPassSets
<1>15. SameUse(u, h)  BY <1>3, <1>11, <1>13, SameUseTwice
<1>16. ASSUME NEW i \in N
       PROVE  /\ h.rt[i].first = FALSE /\ h.rt[i].texture \in Readable(i)
              /\ h.rt[i].texture # Buffer(i, h.rt[i].current)
              /\ h.target[i] # Buffer(i, Original)
              /\ h.target[i] = h.rt[i].texture
  <2> DEFINE c == u.rt[i].current
  <2>1. i \in RT  OBVIOUS
  <2>2. c \in {0, 1} /\ Buffer(i, c) # Buffer(i, Original) /\ Buffer(i, c) \in Own(i)
    BY <1>3, <2>1, CurrentIs
  <2>3. h.target[i] = Buffer(i, c) /\ h.rt[i].texture = Buffer(i, c) /\ begun.rt[i].current = c
    BY <1>2, <1>13, <1>14, <2>1 DEF PassTo
  <2>4. x.rt[i].enabled /\ x.rt[i].state = "BEGINPASS"
    <3>1. x.rt[i].enabled = u.rt[i].enabled /\ u.rt[i].enabled
      BY <1>1, <1>3, <1>11, <2>1 DEF SameUse, SameTarget, Posting
    <3>2. QED  BY <1>11, <2>1, <3>1 DEF Passing
  <2>5. ~ x.rt[i].immediate
    <3>1. x.rt[i].immediate = u.rt[i].immediate  BY <1>3, <1>11, <2>1 DEF SameUse, SameTarget
    <3>2. u.rt[i].immediate = u.immediate /\ ~ u.immediate  BY <1>1, <2>1 DEF Posting, Everywhere, Reading
    <3>3. QED  BY <3>1, <3>2
  <2>6. h.rt[i].current = 1 - c  BY <1>14, <2>1, <2>3, <2>4, <2>5 DEF Ready
  <2> HIDE DEF c
  <2>7. 1 - c # c  BY <2>2
  <2>8. Buffer(i, c) # Buffer(i, 1 - c)  BY <2>7, PlacesApart
  <2>9. h.rt[i].first = u.rt[i].first  BY <1>15, <2>1 DEF SameUse, SameTarget
  <2>10. u.rt[i].first = FALSE  BY <1>1 DEF Reading
  <2>11. QED  BY <2>2, <2>3, <2>6, <2>8, <2>9, <2>10 DEF Readable
<1>17. ASSUME NEW i \in RT
       PROVE  /\ h.rt[i].override = NULL /\ h.rt[i].mode = "POST"
              /\ h.rt[i].previous = IF i = 0 THEN Back ELSE NULL
              /\ h.target[i] \in {NULL, Back} \cup Own(i)
  BY <1>1, <1>2, <1>13, <1>15, SMTT(30) DEF SameUse, SameTarget, Reading, PassTo
<1>18. ~ h.immediate  BY <1>1, <1>15 DEF SameUse, Reading
<1>19. Framed(h, Add(d, p.name))
  <2>1. h.rt[0].texture = to  BY <1>2, <1>4, <1>5, <1>14 DEF PassTo
  <2>2. h.image[to] = Add(d, p.name)  BY <1>9, <1>10, <1>13
  <2>3. u.rt[0].current \in {0, 1}  BY <1>3, <1>4, CurrentIs
  <2>4. QED  BY <2>1, <2>2, <2>3 DEF Framed, to
<1>20. Len(h.image[Buffer(0, Original)]) = 1  BY <1>1, <1>9, <1>13 DEF Reading
<1>21. QED  BY <1>16, <1>17, <1>18, <1>19, <1>20 DEF Reading

(* A post process that writes to the back buffer, after one that did not:  *)
(* the buffers of the other targets are still set.                         *)
Bound(p, fresh) == ~ fresh /\ \E i \in RT \ {0} : <<"RT", i>> \in p.reads

(* What it leaves: the frame d is in the back buffer, and nothing is held. *)
Written(h, d) ==
  h.target[0] = Back /\ h.image[Back] = d /\ \A i \in RT : h.rt[i].previous = NULL

(* It takes the surface of target 0 back, and sets none.                   *)
Direct(g, u) ==
  /\ u.image = g.image
  /\ u.target[0] = Back /\ \A k \in RT \ {0} : u.target[k] = g.target[k]
  /\ \A i \in RT : /\ u.rt[i].texture = g.rt[i].texture /\ u.rt[i].mode = g.rt[i].mode
                   /\ u.rt[i].previous = NULL

(* SetImmediateWrite, among post processes.                                *)
LEMMA PostDirect ==
  ASSUME NEW g, Posting(g), NEW N, NEW d, NEW fresh \in BOOLEAN, Reading(g, N, d, fresh)
  PROVE  Posting(SetImmediateWrite(g, TRUE)) /\ Direct(g, SetImmediateWrite(g, TRUE))
         /\ SetImmediateWrite(g, TRUE).immediate
<1> DEFINE u == SetImmediateWrite(g, TRUE)
           gives == {i \in RT : g.rt[i].previous # NULL}
           Sets == [i \in gives |-> g.rt[i].previous]
<1>1. g \in Gfx /\ g.immediate = FALSE /\ TRUE \in BOOLEAN /\ Everywhere(g) /\ 0 \in RT
  <2>1. g \in Gfx /\ Everywhere(g)  BY DEF Posting
  <2>2. g.immediate \in BOOLEAN  BY <2>1 DEF Gfx
  <2>3. ~ g.immediate  BY DEF Reading
  <2>4. QED  BY <2>1, <2>2, <2>3, TargetsFinite
<1>2. /\ u \in Gfx /\ u.immediate /\ u.lost = g.lost
      /\ \A i \in RT : /\ u.rt[i].immediate = u.immediate
                       /\ u.rt[i].state = g.rt[i].state /\ u.rt[i].enabled = g.rt[i].enabled
                       /\ u.rt[i].index = g.rt[i].index
  <2> DEFINE write == TRUE
             h == SetImmediateWrite(g, write)
  <2>0. write  OBVIOUS
  <2>1. write \in BOOLEAN  OBVIOUS
  <2>2. u = h  OBVIOUS
  <2> HIDE DEF write
  <2>6. g \in Gfx  BY <1>1
  <2>3. /\ h \in Gfx /\ h.immediate = write /\ h.lost = g.lost
        /\ (\A i \in RT : g.rt[i].immediate = g.immediate) => \A i \in RT : h.rt[i].immediate = write
        /\ \A i \in RT : /\ h.rt[i].state = g.rt[i].state /\ h.rt[i].enabled = g.rt[i].enabled
                         /\ h.rt[i].index = g.rt[i].index
    BY <2>1, <2>6, ImmediateIs
  <2>4. \A i \in RT : g.rt[i].immediate = g.immediate  BY <1>1 DEF Everywhere
  <2> HIDE DEF h, u
  <2>5. QED  BY <2>0, <2>2, <2>3, <2>4
<1>3. /\ u.image = g.image
      /\ u.target = SetRenderTargets(g.target, g.rt, [i \in {j \in RT : TRUE /\ g.rt[j].previous # NULL} |-> g.rt[i].previous])
      /\ \A i \in RT : /\ u.rt[i].texture = g.rt[i].texture /\ u.rt[i].mode = g.rt[i].mode
                       /\ u.rt[i].previous = NULL
  BY <1>1, ImmediateSets
<1>4. u.target = SetRenderTargets(g.target, g.rt, Sets)  BY <1>3
<1> HIDE DEF u
<1>5. \A i \in RT : g.rt[i].previous = IF i = 0 THEN Back ELSE NULL  BY DEF Reading
<1>6. gives = {0} /\ DOMAIN Sets = gives /\ Sets[0] = Back
  BY <1>1, <1>5, PlacesApart
<1> HIDE DEF Sets, gives
<1>7. \A k \in RT : u.target[k] = IF k = 0 THEN Back ELSE g.target[k]
  <2> DEFINE target == g.target
             rt == g.rt
             D == {0}
  <2>1. /\ target \in [RT -> Places] /\ D \subseteq RT /\ DOMAIN Sets = D
        /\ \A i \in RT : rt[i].index = i
    BY <1>1, <1>6 DEF Gfx, Posting
  <2>2. u.target = SetRenderTargets(target, rt, Sets)  BY <1>4
  <2> HIDE DEF target, rt, D
  <2>4. \A k \in RT : SetRenderTargets(target, rt, Sets)[k] = IF k \in D THEN Sets[k] ELSE target[k]
    BY <2>1, SetOwn
  <2>5. QED  BY <1>6, <2>2, <2>4 DEF target, D
<1>8. Direct(g, u)  BY <1>1, <1>3, <1>7 DEF Direct
<1>9. Posting(u)
  <2>1. Begun(u)  BY <1>2 DEF Begun, Posting
  <2>2. Everywhere(u)  BY <1>1, <1>2 DEF Everywhere
  <2>3. QED  BY <1>2, <2>1, <2>2 DEF Posting
<1>10. QED  BY <1>2, <1>8, <1>9 DEF u

(* Its pass sets no target either.                                         *)
LEMMA DirectPass ==
  ASSUME NEW u, Posting(u), u.immediate
  PROVE  RenderBeginPass(u).target = u.target /\ RenderBeginPass(u).image = u.image
<1> DEFINE begun == RenderBeginPass(u)
           Sets == [i \in Swapped(u) |-> Choice(u, i)]
<1>1. u \in Gfx  BY DEF Posting
<1>2. begun.target = SetRenderTargets(u.target, u.rt, Sets) /\ begun.image = u.image
  BY <1>1, BeginPassSets, BeginPassIs
<1>3. Swapped(u) = {}  BY DEF Swapped, Posting, Everywhere
<1>4. DOMAIN Sets = {} /\ u.target \in [RT -> Places]  BY <1>1, <1>3 DEF Gfx
<1> HIDE DEF Sets, begun
<1>5. begun.target = u.target  BY <1>2, <1>4, SetNothing
<1>6. QED  BY <1>2, <1>5 DEF begun

(* It reads what is drawn to just when one before it left that there.      *)
LEMMA ConflictIs ==
  ASSUME NEW g, NEW N, N \subseteq RT, NEW d, NEW fresh \in BOOLEAN, Reading(g, N, d, fresh),
         NEW p, Reader(p, N), NEW u, Direct(g, u), NEW begun, begun.target = u.target
  PROVE  Conflict(u, p, begun) <=> Bound(p, fresh)
<1>1. Conflict(u, p, begun) <=> \E s \in p.reads, k \in RT : Source(u, s) = u.target[k] /\ u.target[k] # NULL
  BY DEF Conflict, Drawn
<1>2. \A s \in p.reads : s \in Semantics /\ s[2] \in N  BY DEF Reader, IsProcess
<1>3. ASSUME Bound(p, fresh) PROVE Conflict(u, p, begun)
  <2>1. PICK i \in RT \ {0} : <<"RT", i>> \in p.reads  BY <1>3 DEF Bound
  <2> DEFINE s == <<"RT", i>>
  <2>2. s[1] = "RT" /\ s[2] = i /\ s \in p.reads /\ i \in N  BY <1>2, <2>1
  <2> HIDE DEF s
  <2>3. Source(u, s) = g.rt[i].texture  BY <2>1, <2>2 DEF Source, Direct
  <2>4. u.target[i] = g.rt[i].texture /\ g.rt[i].texture \in Readable(i)
    BY <1>3, <2>1, <2>2 DEF Direct, Reading, Bound
  <2>5. u.target[i] # NULL  BY <2>1, <2>4, OwnIs
  <2>6. QED  BY <1>1, <2>1, <2>2, <2>3, <2>4, <2>5
<1>4. ASSUME ~ Bound(p, fresh), NEW s \in p.reads, NEW k \in RT, Source(u, s) = u.target[k] PROVE FALSE
  <2> DEFINE i == s[2]
  <2>1. i \in N /\ i \in RT /\ s \in Semantics  BY <1>2
  <2>2. s = <<s[1], i>> /\ s[1] \in {"RT", "ORT"}  BY <2>1 DEF Semantics
  <2>3. Source(u, s) = IF s[1] = "RT" THEN g.rt[i].texture ELSE Buffer(i, Original)
    BY <2>1 DEF Source, Direct
  <2> HIDE DEF i
  <2>4. g.rt[i].texture \in Readable(i) /\ Buffer(i, Original) \in Readable(i)
    BY <2>1 DEF Reading, Readable, Own
  <2>5. Source(u, s) \in Readable(i) /\ NULL \notin Readable(i) /\ Back \notin Readable(i)
    BY <2>1, <2>3, <2>4, OwnIs
  <2>6. CASE k = 0
    <3>1. u.target[k] = Back  BY <2>6 DEF Direct
    <3>2. QED  BY <1>4, <2>5, <3>1
  <2>7. CASE k # 0 /\ k # i
    <3>1. u.target[k] \in {NULL, Back} \cup Own(k)  BY <2>7 DEF Direct, Reading
    <3>2. Own(k) \cap Readable(i) = {}  BY <2>1, <2>7, OwnIs
    <3>3. QED  BY <1>4, <2>5, <3>1, <3>2
  <2>8. CASE k # 0 /\ k = i
    <3>1. u.target[k] = g.target[i]  BY <2>8 DEF Direct
    <3>2. CASE fresh
      <4>1. g.target[i] \in {NULL, Back}  BY <2>1, <3>2 DEF Reading
      <4>2. QED  BY <1>4, <2>5, <3>1, <4>1
    <3>3. CASE ~ fresh
      <4>1. s[1] # "RT"  BY <1>4, <2>1, <2>2, <2>8, <3>3 DEF Bound
      <4>2. Source(u, s) = Buffer(i, Original)  BY <2>3, <4>1
      <4>3. g.target[i] # Buffer(i, Original)  BY <2>1 DEF Reading
      <4>4. QED  BY <1>4, <3>1, <4>2, <4>3
    <3>4. QED  BY <3>2, <3>3
  <2>9. QED  BY <2>6, <2>7, <2>8
<1>5. QED  BY <1>1, <1>3, <1>4

(* What it draws, and the end of its pass.                                 *)
Leaves(begun, to, result, h) ==
  /\ SameUse(begun, h) /\ h.target = begun.target
  /\ h.image = [begun.image EXCEPT ![to] = result]
LEMMA PostLeaves ==
  ASSUME NEW begun \in Gfx, NEW to \in Surfaces, NEW result \in Images,
         NEW h, h = RenderEndPass([begun EXCEPT !.image[to] = result])
  PROVE  Leaves(begun, to, result, h)
<1> DEFINE image == [begun.image EXCEPT ![to] = result]
           x == [begun EXCEPT !.image = image]
<1>1. h = RenderEndPass(x)  OBVIOUS
<1>2. image \in [Surfaces -> Images]  BY DEF Gfx
<1> HIDE DEF image
<1>3. x \in Gfx /\ SameUse(begun, x) /\ x.target = begun.target  BY <1>2, NewImagesIs
<1>4. x.image = image  BY DEF Gfx
<1> HIDE DEF x
<1>5. SameUse(x, h) /\ h.image = image /\ h.target = begun.target
  BY <1>1, <1>3, <1>4, EndPassIs
<1>6. SameUse(begun, h)  BY <1>3, <1>5, SameUseTwice
<1>7. QED  BY <1>5, <1>6 DEF image, Leaves

(* One post process that writes to the back buffer adds itself to the      *)
(* frame, unless it reads what is still drawn to.                          *)
LEMMA PostWrites ==
  ASSUME NEW g, Posting(g), NEW N, N \subseteq RT, NEW d, NEW fresh \in BOOLEAN, Reading(g, N, d, fresh),
         NEW p, Reader(p, N), NEW u, u = SetImmediateWrite(g, TRUE), NEW begun, begun = RenderBeginPass(u), NEW kept,
         NEW result, result = Result(p, begun, Used(p, begun, kept)), result \in Images,
         NEW h, h = RenderEndPass([begun EXCEPT !.image[begun.target[0]] = result])
  PROVE  Written(h, IF Bound(p, fresh) THEN Old ELSE Add(d, p.name))
<1>1. Posting(u) /\ Direct(g, u) /\ u.immediate  BY PostDirect
<1>2. u \in Gfx /\ begun \in Gfx /\ SameUse(u, begun) /\ Passing(begun)
  BY <1>1, BeginPassIs DEF Posting
<1>3. begun.target = u.target /\ begun.image = u.image  BY <1>1, DirectPass
<1>4. result = IF Bound(p, fresh) THEN Old ELSE Add(d, p.name)
  <2> DEFINE used == Used(p, begun, kept)
  <2>1. Posts(u, N) /\ Len(u.image[Buffer(0, Original)]) = 1 /\ u.image[u.rt[0].texture] = d
    <3>1. \A i \in RT : u.rt[i].mode = "POST" /\ (i \in N => u.rt[i].texture \in Readable(i))
      BY <1>1 DEF Direct, Reading
    <3>2. g.image[g.rt[0].texture] = d /\ Len(g.image[Buffer(0, Original)]) = 1  BY DEF Reading, Framed
    <3>3. u.image = g.image /\ u.rt[0].texture = g.rt[0].texture  BY <1>1, TargetsFinite DEF Direct
    <3>4. QED  BY <3>1, <3>2, <3>3 DEF Posts
  <2>2. Sourced(u, p, kept)  BY <1>1, <2>1, IsSourced
  <2>3. used = [s \in p.reads |-> Source(u, s)] /\ \A s \in p.reads : Source(u, s) # NULL
    BY <2>2 DEF Sourced
  <2>4. <<"RT", 0>> \in p.reads  BY DEF Reader
  <2> HIDE DEF used
  <2>5. Conflict(u, p, begun) <=> Bound(p, fresh)  BY <1>1, <1>3, ConflictIs
  <2>6. Result(p, begun, used) = IF Conflict(u, p, begun) THEN Old ELSE Add(u.image[u.rt[0].texture], p.name)
    BY <1>3, <2>1, <2>3, <2>4, ResultOf
  <2>7. QED  BY <2>1, <2>5, <2>6 DEF used
<1>5. begun.target[0] = Back  BY <1>1, <1>3 DEF Direct
<1>6. /\ SameUse(begun, h) /\ h.target = begun.target
      /\ h.image = [begun.image EXCEPT ![Back] = result]
  <2>1. h = RenderEndPass([begun EXCEPT !.image[Back] = result])  BY <1>5
  <2>2. Back \in Surfaces  BY OwnIs
  <2>3. begun \in Gfx /\ result \in Images  BY <1>2
  <2>4. Leaves(begun, Back, result, h)  BY <2>1, <2>2, <2>3, PostLeaves, Zenon
  <2>5. QED  BY <2>4 DEF Leaves
<1>7. h.image[Back] = result
  <2>1. begun.image \in [Surfaces -> Images] /\ Back \in Surfaces  BY <1>2, OwnIs DEF Gfx
  <2>2. QED  BY <1>6, <2>1
<1>8. SameUse(u, h)  BY <1>2, <1>6, SameUseTwice
<1>9. \A i \in RT : h.rt[i].previous = u.rt[i].previous  BY <1>8 DEF SameUse, SameTarget
<1>10. \A i \in RT : h.rt[i].previous = NULL  BY <1>1, <1>9 DEF Direct
<1>11. QED  BY <1>4, <1>5, <1>6, <1>7, <1>10 DEF Written

(* What the post processes leave: the frame d, in target 0, which holds    *)
(* the back buffer, or in the back buffer itself.                          *)
Ends(g, d) ==
  /\ g.immediate => Written(g, d)
  /\ ~ g.immediate => /\ Framed(g, d)
                      /\ \A i \in RT : g.rt[i].previous = IF i = 0 THEN Back ELSE NULL

(* The end of the list restores what the device draws to.                  *)
LEMMA PostEnded ==
  ASSUME NEW g, Posting(g), NEW d, Ends(g, d), NEW h, h = RenderEnd(g)
  PROVE  Placed(h) /\ (IF g.immediate THEN h.image[Back] = d ELSE Framed(h, d))
<1> DEFINE Sets == [i \in Restored(g) |-> g.rt[i].previous]
           target == g.target
           rt == g.rt
           D == Restored(g)
<1>1. g \in Gfx /\ Begun(g) /\ 0 \in RT /\ \A i \in RT : g.rt[i].index = i /\ g.rt[i].enabled
  BY TargetsFinite DEF Posting
<1>2. /\ h.target = SetRenderTargets(g.target, g.rt, Sets) /\ h.image = g.image
      /\ \A i \in RT : h.rt[i].texture = g.rt[i].texture
  BY <1>1, EndSets
<1>3. \A i \in RT : h.rt[i].previous = NULL  BY PostEndIs
<1>4. \A i \in RT : i \in D <=> i # 0 \/ g.rt[i].previous # NULL  BY <1>1 DEF Restored
<1>5. /\ target \in [RT -> Places] /\ D \subseteq RT /\ DOMAIN Sets = D
      /\ \A i \in RT : rt[i].index = i
  BY <1>1 DEF Gfx, Restored
<1>6. h.target = SetRenderTargets(target, rt, Sets) /\ \A i \in D : Sets[i] = g.rt[i].previous
  BY <1>2
<1> HIDE DEF Sets, target, rt, D
<1>7. \A k \in RT : SetRenderTargets(target, rt, Sets)[k] = IF k \in D THEN Sets[k] ELSE target[k]
  BY <1>5, SetOwn
<1>8. \A k \in RT : h.target[k] = IF k \in D THEN g.rt[k].previous ELSE g.target[k]
  BY <1>6, <1>7 DEF target
<1>9. \A i \in RT \ {0} : g.rt[i].previous = NULL  BY DEF Ends, Written
<1>10. \A k \in RT \ {0} : h.target[k] = NULL  BY <1>4, <1>8, <1>9
<1>11. h.target[0] = Back
  <2>1. CASE g.immediate
    <3>1. g.target[0] = Back /\ g.rt[0].previous = NULL  BY <1>1, <2>1 DEF Ends, Written
    <3>2. QED  BY <1>1, <1>4, <1>8, <3>1
  <2>2. CASE ~ g.immediate
    <3>1. g.rt[0].previous = Back /\ Back # NULL  BY <1>1, <2>2, PlacesApart DEF Ends
    <3>2. QED  BY <1>1, <1>4, <1>8, <3>1
  <2>3. QED  BY <2>1, <2>2
<1>12. Placed(h)  BY <1>3, <1>10, <1>11 DEF Placed
<1>13. CASE g.immediate  BY <1>2, <1>12, <1>13 DEF Ends, Written
<1>14. CASE ~ g.immediate
  <2>1. Framed(h, d)  BY <1>1, <1>2, <1>14 DEF Ends, Framed
  <2>2. QED  BY <1>12, <1>14, <2>1
<1>15. QED  BY <1>13, <1>14

(* A frame begins: the device still draws to the back buffer.              *)
LEMMA FrameBegins ==
  ASSUME NEW g, Between(g), Placed(g), \A i \in RT : g.rt[i].previous = NULL,
         NEW h, h = [SetImmediateWrite(g, FALSE) EXCEPT !.image = [s \in Surfaces |-> Old], !.lost = 0]
  PROVE  Placed(h)
<1> DEFINE w == SetImmediateWrite(g, FALSE)
           Sets == [i \in {j \in RT : FALSE /\ g.rt[j].previous # NULL} |-> g.rt[i].previous]
<1>1. g \in Gfx /\ g.immediate \in BOOLEAN /\ FALSE \in BOOLEAN /\ Everywhere(g)  BY DEF Between, Gfx
<1>2. w \in Gfx  BY <1>1, ImmediateIs
<1>3. Placed(w)
  <2>1. CASE g.immediate
    <3>1. g.immediate = ~ FALSE  BY <1>1, <2>1
    <3>2. /\ w.target = SetRenderTargets(g.target, g.rt, Sets)
          /\ \A i \in RT : w.rt[i].previous = IF g.rt[i].previous = NULL /\ g.rt[i].index = 0 THEN g.target[0]
                                              ELSE g.rt[i].previous
      BY <1>1, <3>1, ImmediateSets
    <3>3. DOMAIN Sets = {} /\ g.target \in [RT -> Places]  BY <1>1 DEF Gfx
    <3> HIDE DEF w, Sets
    <3>4. w.target = g.target  BY <3>2, <3>3, SetNothing
    <3>5. QED  BY <3>2, <3>4 DEF Placed
  <2>2. CASE ~ g.immediate
    <3>1. w = g  BY <1>1, <2>2 DEF SetImmediateWrite
    <3>2. QED  BY <3>1
  <2>3. QED  BY <2>1, <2>2
<1>6. h.target = w.target /\ h.rt = w.rt
  <2> HIDE DEF w
  <2> DEFINE image == [s \in Surfaces |-> Old]
  <2>1. h = [w EXCEPT !.image = image, !.lost = 0]  BY DEF w
  <2> HIDE DEF image
  <2>2. QED  BY <1>2, <2>1 DEF Gfx
<1> HIDE DEF w
<1>7. QED  BY <1>3, <1>6 DEF Placed

(* The scenes whose frames are shown.  A process draws the frame when it   *)
(* has target 0 without another texture.                                   *)
DrawsFrame(p) == \E e \in DOMAIN p.targets : p.targets[e].rt = 0 /\ p.targets[e].texture = NULL
(* The frame is what one of the first j normal processes drew, and none    *)
(* after it draws target 0.                                                *)
FrameDrawn(normal, j) ==
  \E m \in 1 .. j : DrawsFrame(normal[m]) /\ \A l \in m + 1 .. j : ~ Draws(normal[l], 0)
(* The targets that the normal processes of a stage draw, all without any. *)
DrawnBy(normal, j) == {i \in RT : \E m \in 1 .. j : Draws(normal[m], i)}
NamedBy(normal) == IF normal = <<>> THEN RT ELSE DrawnBy(normal, Len(normal))

(* Normal processes clear the targets they have; post processes have no    *)
(* other textures, and read what was drawn in this stage; one that writes  *)
(* to the back buffer is the last of its stage, and of all.  Before that,  *)
(* every stage draws the frame.                                            *)
Plain(s) ==
  /\ s # <<>>
  /\ \A k \in DOMAIN s :
       /\ \A j \in DOMAIN s[k].normal : s[k].normal[j].clear <=> s[k].normal[j].targets # <<>>
       /\ \A j \in DOMAIN s[k].post :
            /\ \A e \in DOMAIN s[k].post[j].targets : s[k].post[j].targets[e].texture = NULL
            /\ \A r \in s[k].post[j].reads : r[2] \in NamedBy(s[k].normal)
            /\ s[k].post[j].immediate => j = Len(s[k].post)
       /\ Wrote(s, k) => s[k].post = <<>>
       /\ ~ Wrote(s, k) => s[k].normal = <<>> \/ FrameDrawn(s[k].normal, Len(s[k].normal))

(* Where the frame d is, at each place.                                    *)
InNormal(normal, j, g, d) ==
  /\ FrameDrawn(normal, j) => Fresh(g, d)
  /\ DrawnIn(g, DrawnBy(normal, j))
First(j) == IF j = 1 THEN TRUE ELSE FALSE
Shown(s, p, g, d) ==
  /\ p[1] # "crashed"
  /\ p[1] \notin {"post", "postend"} => Placed(g)
  /\ p[1] \notin {"frame", "post", "postend"} /\ g.immediate => g.image[Back] = d
  /\ p[1] = "normal" /\ ~ g.immediate => InNormal(s[p[2]].normal, p[3] - 1, g, d)
  /\ p[1] = "postbegin" => Fresh(g, d) /\ DrawnIn(g, NamedBy(s[p[2]].normal))
  /\ p[1] = "post" => Reading(g, NamedBy(s[p[2]].normal), d, First(p[3]))
  /\ p[1] = "postend" => Ends(g, d)
  /\ p[1] = "copy" => g.immediate \/ Framed(g, d)
  /\ p[1] = "presented" => g.image[Back] = d

(* Where stage k begins, or the copy, the frame is as the stages before    *)
(* left it.                                                                *)
LEMMA StageShown ==
  ASSUME NEW s \in Scenes, NEW k \in 1 .. Len(s) + 1, NEW g, Placed(g), NEW d,
         g.immediate => g.image[Back] = d, k = Len(s) + 1 => g.immediate \/ Framed(g, d)
  PROVE  Shown(s, StageOf(s, k), g, d)
<1>1. GoodList(s)  BY SceneIs
<1>2. CASE k > Len(s)
  <2>1. StageOf(s, k) = <<"copy", k, 0>> /\ k = Len(s) + 1  BY <1>1, <1>2 DEF StageOf, GoodList
  <2>2. QED  BY <2>1 DEF Shown
<1>3. CASE ~ (k > Len(s)) /\ s[k].normal = <<>>
  <2>1. StageOf(s, k) = <<"default", k, 0>>  BY <1>3 DEF StageOf
  <2>2. QED  BY <2>1 DEF Shown
<1>4. CASE ~ (k > Len(s)) /\ s[k].normal # <<>>
  <2> DEFINE p == StageOf(s, k)
  <2>1. p = <<"normal", k, 1>>  BY <1>4 DEF StageOf
  <2>2. p[1] = "normal" /\ p[2] = k /\ p[3] - 1 = 0  BY <2>1
  <2> HIDE DEF p
  <2>3. 1 .. 0 = {}  OBVIOUS
  <2>4. InNormal(s[k].normal, 0, g, d)  BY <2>3 DEF InNormal, FrameDrawn, DrawnBy, DrawnIn
  <2>5. Shown(s, p, g, d)  BY <2>2, <2>4 DEF Shown
  <2>6. QED  BY <2>5 DEF p
<1>5. QED  BY <1>2, <1>3, <1>4

(* And so where its normal processes are done.                             *)
LEMMA PostShown ==
  ASSUME NEW s \in Scenes, Plain(s), NEW k \in DOMAIN s, NEW g, Placed(g), NEW d,
         g.immediate <=> Wrote(s, k), g.immediate => g.image[Back] = d,
         ~ g.immediate => Fresh(g, d) /\ DrawnIn(g, NamedBy(s[k].normal))
  PROVE  Shown(s, PostOf(s, k), g, d)
<1>1. GoodList(s) /\ GoodList(s[k].post)  BY SceneIs
<1>2. k \in 1 .. Len(s) /\ Len(s) \in Nat  BY <1>1 DEF GoodList
<1>3. CASE s[k].post = <<>>
  <2>1. PostOf(s, k) = StageOf(s, k + 1)  BY <1>3 DEF PostOf
  <2>2. k + 1 \in 1 .. Len(s) + 1  BY <1>2
  <2>3. ~ g.immediate => Framed(g, d)  BY DEF Fresh, Framed
  <2> DEFINE m == k + 1
  <2> HIDE DEF m
  <2>4. m \in 1 .. Len(s) + 1  BY <2>2 DEF m
  <2>5. Shown(s, StageOf(s, m), g, d)  BY <2>3, <2>4, StageShown
  <2>6. QED  BY <2>1, <2>5 DEF m
<1>4. CASE s[k].post # <<>>
  <2> DEFINE p == PostOf(s, k)
  <2>1. p = <<"postbegin", k, 0>>  BY <1>4 DEF PostOf
  <2>2. p[1] = "postbegin" /\ p[2] = k  BY <2>1
  <2> HIDE DEF p
  <2>3. ~ Wrote(s, k)  BY <1>4 DEF Plain
  <2>4. Shown(s, p, g, d)  BY <2>2, <2>3 DEF Shown
  <2>5. QED  BY <2>4 DEF p
<1>5. QED  BY <1>3, <1>4

(* Before the first frame the device draws to the back buffer.             *)
LEMMA InitShown == Init => Shown(scene, pc, gfx, due)
<1> SUFFICES ASSUME Init PROVE Shown(scene, pc, gfx, due)
  OBVIOUS
<1>1. pc[1] = "frame"  BY DEF Init
<1>2. gfx.target = [k \in RT |-> IF k = 0 THEN Back ELSE NULL] /\ gfx.rt = [i \in RT |-> NewTarget(i)]
  BY DEF Init
<1>3. \A i \in RT : gfx.rt[i].previous = NULL /\ gfx.target[i] = IF i = 0 THEN Back ELSE NULL
  BY <1>2 DEF NewTarget
<1>4. Placed(gfx)  BY <1>3, TargetsFinite DEF Placed
<1>5. QED  BY <1>1, <1>4 DEF Shown

(* A frame begins: the device draws to the back buffer still.              *)
LEMMA BeginFrameShows ==
  IInv /\ Plain(scene) /\ Shown(scene, pc, gfx, due) /\ BeginFrame => Shown(scene, pc', gfx', due')
<1> SUFFICES ASSUME IInv, Plain(scene), Shown(scene, pc, gfx, due), BeginFrame
             PROVE  Shown(scene, pc', gfx', due')
  OBVIOUS
<1> DEFINE g == gfx'
<1>1. /\ scene \in Scenes /\ pc[1] = "frame"
      /\ g = [SetImmediateWrite(gfx, FALSE) EXCEPT !.image = [s \in Surfaces |-> Old], !.lost = 0]
      /\ pc' = StageOf(scene, 1)
  BY DEF IInv, BeginFrame, BeginStage, StageOf
<1>2. Between(gfx) /\ Placed(gfx) /\ \A i \in RT : gfx.rt[i].previous = NULL
  BY <1>1 DEF IInv, Going, Using, Shown
<1> HIDE DEF g
<1>3. g.immediate = FALSE /\ Placed(g)
  <2> DEFINE f == gfx
  <2>1. Between(f) /\ Placed(f) /\ \A i \in RT : f.rt[i].previous = NULL  BY <1>2
  <2>2. g = [SetImmediateWrite(f, FALSE) EXCEPT !.image = [s \in Surfaces |-> Old], !.lost = 0]  BY <1>1
  <2> HIDE DEF f
  <2>3. g.immediate = FALSE  BY <2>1, <2>2, FrameIs
  <2>4. Placed(g)  BY <2>1, <2>2, FrameBegins
  <2>5. QED  BY <2>3, <2>4
<1>4. 1 \in 1 .. Len(scene) + 1 /\ Len(scene) + 1 # 1
  <2>1. GoodList(scene) /\ scene # <<>>  BY <1>1, SceneIs DEF Plain
  <2>2. QED  BY <2>1 DEF GoodList
<1>5. Shown(scene, StageOf(scene, 1), g, due')  BY <1>1, <1>3, <1>4, StageShown
<1>6. QED  BY <1>1, <1>5 DEF g

(* The end of a stage leaves the frame where its post processes did.       *)
LEMMA PostEndShows ==
  IInv /\ Plain(scene) /\ Shown(scene, pc, gfx, due) /\ PostEnd => Shown(scene, pc', gfx', due')
<1> SUFFICES ASSUME IInv, Plain(scene), Shown(scene, pc, gfx, due), PostEnd
             PROVE  Shown(scene, pc', gfx', due')
  OBVIOUS
<1> DEFINE k == pc[2] + 1
           g == gfx'
           f == gfx
<1>1. /\ scene \in Scenes /\ pc[2] \in DOMAIN scene /\ Posting(f) /\ Ends(f, due)
      /\ g = RenderEnd(f) /\ due' = due
  BY DEF IInv, Going, Using, InPlace, PostEnd, Shown
<1>2. pc' = StageOf(scene, k)  BY DEF PostEnd, BeginStage, StageOf
<1>3. k \in 1 .. Len(scene) + 1
  <2>1. GoodList(scene)  BY <1>1, SceneIs
  <2>2. QED  BY <1>1, <2>1 DEF GoodList
<1> HIDE DEF k, g, f
<1>4. g.immediate = f.immediate  BY <1>1, PostEndIs
<1>5. Placed(g) /\ (IF f.immediate THEN g.image[Back] = due ELSE Framed(g, due))  BY <1>1, PostEnded
<1>6. Shown(scene, StageOf(scene, k), g, due)  BY <1>1, <1>3, <1>4, <1>5, StageShown
<1>7. QED  BY <1>1, <1>2, <1>6 DEF g

(* The next frame begins with what the device draws to.                    *)
LEMMA PresentShows ==
  IInv /\ Shown(scene, pc, gfx, due) /\ Present => Shown(scene, pc', gfx', due')
<1> SUFFICES ASSUME IInv, Shown(scene, pc, gfx, due), Present PROVE Shown(scene, pc', gfx', due')
  OBVIOUS
<1>1. pc[1] = "presented" /\ pc'[1] = "frame" /\ gfx' = gfx  BY DEF Present
<1>2. Placed(gfx)  BY <1>1 DEF Shown
<1>3. QED  BY <1>1, <1>2 DEF Shown

(* The copy brings the frame to the back buffer, if it is not there.       *)
LEMMA CopyShows ==
  IInv /\ Shown(scene, pc, gfx, due) /\ Copy => Shown(scene, pc', gfx', due')
<1> SUFFICES ASSUME IInv, Shown(scene, pc, gfx, due), Copy PROVE Shown(scene, pc', gfx', due')
  OBVIOUS
<1> DEFINE final == gfx.rt[0].texture
           image == [gfx.image EXCEPT ![gfx.target[0]] = gfx.image[final]]
<1>1. /\ Placed(gfx) /\ gfx \in Gfx /\ due' = due
      /\ gfx.immediate => gfx.image[Back] = due
      /\ ~ gfx.immediate => Framed(gfx, due)
  BY DEF Copy, Shown, IInv, Going, Using, Between
<1>2. CASE gfx.immediate
  <2>1. pc'[1] = "presented" /\ gfx' = gfx  BY <1>2 DEF Copy
  <2>2. QED  BY <1>1, <1>2, <2>1 DEF Shown
<1>3. CASE ~ gfx.immediate
  <2>1. final # NULL /\ gfx.image[final] = due  BY <1>1, <1>3, PlacesApart DEF Framed
  <2>2. pc'[1] = "presented" /\ gfx' = [gfx EXCEPT !.image = image]  BY <1>3, <2>1 DEF Copy
  <2>3. gfx.target[0] = Back /\ gfx.image \in [Surfaces -> Images]  BY <1>1 DEF Placed, Gfx
  <2>4. image[Back] = due  BY <2>1, <2>3, OwnIs
  <2> HIDE DEF image
  <2>5. gfx'.image = image /\ gfx'.target = gfx.target /\ gfx'.rt = gfx.rt  BY <1>1, <2>2 DEF Gfx
  <2>6. Placed(gfx')  BY <1>1, <2>5 DEF Placed
  <2>7. QED  BY <1>1, <2>2, <2>4, <2>5, <2>6 DEF Shown
<1>4. QED  BY <1>2, <1>3

(* What the frame should be after a normal process.                        *)
LEMMA DueIs ==
  ASSUME NEW p, IsProcess(p), NEW passes
  PROVE  /\ p.targets = <<>> => DueAfter(p, passes) = IF passes = <<>> THEN due ELSE Add(due, p.name)
         /\ p.targets # <<>> /\ p.clear =>
              DueAfter(p, passes) = IF DrawsFrame(p) THEN <<p.name>> ELSE due
<1> DEFINE frame == \E e \in Range(p.targets) : e.rt = 0 /\ e.texture = NULL
<1>1. frame <=> DrawsFrame(p)  BY DEF Range, DrawsFrame
<1>2. p.targets = <<>> => ~ frame  BY DEF Range
<1>3. DueAfter(p, passes) =
        CASE p.targets = <<>> /\ passes # <<>> -> Add(due, p.name)
          [] frame -> IF p.clear THEN <<p.name>> ELSE due
          [] OTHER -> due
  BY DEF DueAfter
<1> HIDE DEF frame
<1>4. p.targets = <<>> => DueAfter(p, passes) = IF passes = <<>> THEN due ELSE Add(due, p.name)
  BY <1>2, <1>3
<1>5. p.targets # <<>> /\ p.clear => DueAfter(p, passes) = IF DrawsFrame(p) THEN <<p.name>> ELSE due
  BY <1>1, <1>3
<1>6. QED  BY <1>4, <1>5

(* One more normal process, which clears what it draws.                    *)
LEMMA NormalAdds ==
  ASSUME NEW normal, NEW j \in Nat \ {0}, NEW p, p = normal[j], IsProcess(p),
         NEW g, NEW h, DrewTargets(g, p, h), NEW d, InNormal(normal, j - 1, g, d)
  PROVE  InNormal(normal, j, h, IF DrawsFrame(p) THEN <<p.name>> ELSE d)
<1>1. 1 .. j = (1 .. j - 1) \cup {j} /\ j - 1 \in Nat  OBVIOUS
<1>2. 0 \in RT  BY TargetsFinite
<1>3. ASSUME NEW i \in RT, Draws(p, i)
      PROVE  /\ h.rt[i].first = FALSE
             /\ h.rt[i].texture \in {Buffer(i, Original)} \cup {Texture(n) : n \in Textures}
             /\ i = 0 /\ DrawsFrame(p) => h.rt[i].texture = Buffer(i, Original)
             /\ h.image[h.rt[i].texture] = <<p.name>>
  <2>1. PICK e \in DOMAIN p.targets :
          /\ p.targets[e].rt = i
          /\ h.rt[i].texture = IF p.targets[e].texture # NULL THEN p.targets[e].texture ELSE Buffer(i, Original)
    BY <1>3 DEF DrewTargets
  <2>2. p.targets[e].texture \in {NULL} \cup {Texture(n) : n \in Textures}
    <3> DEFINE T == [rt : RT, texture : {NULL} \cup {Texture(n) : n \in Textures}]
    <3>1. p.targets \in Seq(T)  BY DEF IsProcess
    <3> HIDE DEF T
    <3>2. p.targets[e] \in T  BY <2>1, <3>1
    <3>3. QED  BY <3>2 DEF T
  <2>3. i = 0 /\ DrawsFrame(p) => p.targets[e].texture = NULL
    BY <2>1 DEF DrawsFrame, IsProcess
  <2>4. QED  BY <1>3, <2>1, <2>2, <2>3 DEF DrewTargets
<1>4. DrawnIn(h, DrawnBy(normal, j))
  <2> SUFFICES ASSUME NEW i \in DrawnBy(normal, j)
               PROVE  /\ h.rt[i].first = FALSE
                      /\ h.rt[i].texture \in {Buffer(i, Original)} \cup {Texture(n) : n \in Textures}
    BY DEF DrawnIn
  <2>1. i \in RT  BY DEF DrawnBy
  <2>2. CASE Draws(p, i)  BY <1>3, <2>1, <2>2
  <2>3. CASE ~ Draws(p, i)
    <3>1. i \in DrawnBy(normal, j - 1)  BY <1>1, <2>3 DEF DrawnBy
    <3>2. h.rt[i].texture = g.rt[i].texture /\ h.rt[i].first = g.rt[i].first
      BY <2>1, <2>3 DEF DrewTargets
    <3>3. QED  BY <3>1, <3>2 DEF InNormal, DrawnIn
  <2>4. QED  BY <2>2, <2>3
<1>5. ASSUME FrameDrawn(normal, j) PROVE Fresh(h, IF DrawsFrame(p) THEN <<p.name>> ELSE d)
  <2>1. PICK m \in 1 .. j : DrawsFrame(normal[m]) /\ \A l \in m + 1 .. j : ~ Draws(normal[l], 0)
    BY <1>5 DEF FrameDrawn
  <2>2. CASE m = j
    <3>1. DrawsFrame(p)  BY <2>1, <2>2
    <3>2. Draws(p, 0)  BY <3>1 DEF DrawsFrame, Draws
    <3>3. h.rt[0].texture = Buffer(0, Original) /\ h.image[Buffer(0, Original)] = <<p.name>>
      BY <1>2, <1>3, <3>1, <3>2
    <3>4. Len(<<p.name>>) = 1  OBVIOUS
    <3>5. QED  BY <3>1, <3>3, <3>4 DEF Fresh
  <2>3. CASE m # j
    <3>1. m \in 1 .. j - 1 /\ j \in m + 1 .. j  BY <2>3
    <3>2. ~ Draws(p, 0)  BY <2>1, <3>1
    <3>3. ~ DrawsFrame(p)  BY <3>2 DEF DrawsFrame, Draws
    <3>4. \A l \in m + 1 .. j - 1 : l \in m + 1 .. j  OBVIOUS
    <3>5. FrameDrawn(normal, j - 1)  BY <2>1, <3>1, <3>4 DEF FrameDrawn
    <3>6. Fresh(g, d)  BY <3>5 DEF InNormal
    <3>7. h.rt[0].texture = g.rt[0].texture /\ h.image[Buffer(0, Original)] = g.image[Buffer(0, Original)]
      BY <1>2, <3>2 DEF DrewTargets
    <3>8. QED  BY <3>3, <3>6, <3>7 DEF Fresh
  <2>4. QED  BY <2>2, <2>3
<1>6. QED  BY <1>4, <1>5 DEF InNormal

(* The targets a stage names, when its normal processes are done.          *)
LEMMA StageDrawn ==
  ASSUME NEW s \in Scenes, Plain(s), NEW k \in DOMAIN s, ~ Wrote(s, k), s[k].normal # <<>>,
         NEW g, NEW d, InNormal(s[k].normal, Len(s[k].normal), g, d)
  PROVE  Fresh(g, d) /\ DrawnIn(g, NamedBy(s[k].normal))
<1>1. FrameDrawn(s[k].normal, Len(s[k].normal))  BY DEF Plain
<1>2. NamedBy(s[k].normal) = DrawnBy(s[k].normal, Len(s[k].normal))  BY DEF NamedBy
<1>3. QED  BY <1>1, <1>2 DEF InNormal

(* A normal process: the frame is what the last one that draws target 0    *)
(* drew; or, after direct writes, the back buffer with it drawn over.      *)
LEMMA NormalProcessShows ==
  IInv /\ Plain(scene) /\ Shown(scene, pc, gfx, due) /\ NormalProcess => Shown(scene, pc', gfx', due')
<1> SUFFICES ASSUME IInv, Plain(scene), Shown(scene, pc, gfx, due), NormalProcess
             PROVE  Shown(scene, pc', gfx', due')
  OBVIOUS
<1> DEFINE k == pc[2]
           j == pc[3]
           p == Process
           normal == scene[k].normal
<1>1. /\ scene \in Scenes /\ pc[1] = "normal" /\ k \in DOMAIN scene /\ j \in DOMAIN normal
      /\ pc \in Steps \X Nat \X Nat
      /\ p = normal[j] /\ Stage = scene[k]
      /\ Between(gfx) /\ (gfx.immediate <=> Wrote(scene, k))
  BY DEF IInv, Going, Using, Writing, InPlace, NormalProcess, Stage, Process
<1>2. /\ Placed(gfx) /\ (gfx.immediate => gfx.image[Back] = due)
      /\ ~ gfx.immediate => InNormal(normal, j - 1, gfx, due)
  BY <1>1 DEF Shown
<1>3. PICK requests \in Requests : Draw(requests, NormalBegin(gfx, p), p, FALSE)
  BY DEF NormalProcess
<1>4. GoodNormal(scene, k, p) /\ GoodList(normal) /\ (p.clear <=> p.targets # <<>>)
  BY <1>1, SceneIs DEF Plain
<1> DEFINE sorted == SortAll(RenderRequests(lists, requests))
           passes == AllPasses(sorted)
<1>5. gfx' = RenderEnd(DrawPasses(NormalBegin(gfx, p), p.name, passes)) /\ due' = DueAfter(p, passes)
  BY <1>3 DEF Draw
<1>6. Len(passes) \in Nat /\ (passes = <<>> <=> Len(passes) = 0)
  <2>1. lists = NoLists  BY DEF IInv
  <2>2. passes \in Seq(Lists(Objects))  BY <2>1, DrawnIsAsked
  <2> HIDE DEF passes
  <2>3. QED  BY <2>2
<1>7. IsProcess(p) /\ p.name \in Names /\ (p.targets = <<>> <=> gfx.immediate)
  BY <1>1, <1>4 DEF GoodNormal
<1>8. gfx'.immediate = gfx.immediate
  <2> HIDE DEF p, passes
  <2>1. QED  BY <1>1, <1>5, <1>6, <1>7, NormalIs
<1> DEFINE g == gfx
           h == gfx'
           d == due'
<1>9. Between(g) /\ Placed(g) /\ h = RenderEnd(DrawPasses(NormalBegin(g, p), p.name, passes))
  BY <1>1, <1>2, <1>5
<1>10. IsProcess(p) /\ p.name \in Names /\ (p.targets = <<>> <=> g.immediate) /\ (p.clear <=> ~ g.immediate)
  BY <1>4, <1>7
<1>11. p.targets # <<>> /\ p.clear => d = IF DrawsFrame(p) THEN <<p.name>> ELSE due
  <2> HIDE DEF p, passes
  <2>1. QED  BY <1>5, <1>7, DueIs
<1>12. p.targets = <<>> => d = IF passes = <<>> THEN due ELSE Add(due, p.name)
  <2> HIDE DEF p, passes
  <2>1. QED  BY <1>5, <1>7, DueIs
<1>13. (g.immediate => g.image[Back] = due) /\ (~ g.immediate => InNormal(normal, j - 1, g, due))
  BY <1>2
<1>14. j \in Nat \ {0} /\ p = normal[j]  BY <1>1, <1>4 DEF GoodList
<1> HIDE DEF p, passes, g, h, d
<1>15. CASE g.immediate
  <2>1. Placed(h) /\ h.image[Back] = IF Len(passes) = 0 THEN g.image[Back] ELSE Add(g.image[Back], p.name)
    BY <1>6, <1>9, <1>10, <1>15, NormalWrites
  <2>2. h.image[Back] = d  BY <1>6, <1>10, <1>12, <1>13, <1>15, <2>1
  <2>3. QED
    <3>1. CASE j < Len(normal)
      <4>1. pc'[1] = "normal" /\ h.immediate
        BY <1>1, <1>8, <1>15, <3>1 DEF NormalProcess, g, h
      <4>2. Shown(scene, pc', h, d)  BY <2>1, <2>2, <4>1 DEF Shown
      <4>3. QED  BY <4>2 DEF h, d
    <3>2. CASE ~ (j < Len(normal))
      <4>1. pc' = PostOf(scene, k) /\ h.immediate /\ Wrote(scene, k)
        BY <1>1, <1>8, <1>15, <3>2 DEF NormalProcess, BeginPost, PostOf, BeginStage, StageOf, g, h
      <4>2. k \in DOMAIN scene /\ scene \in Scenes  BY <1>1
      <4> HIDE DEF k
      <4>3. Shown(scene, PostOf(scene, k), h, d)  BY <2>1, <2>2, <4>1, <4>2, PostShown
      <4>4. QED  BY <4>1, <4>3 DEF h, d
    <3>3. QED  BY <3>1, <3>2
<1>16. CASE ~ g.immediate
  <2>1. DrewTargets(g, p, h)
    BY <1>6, <1>9, <1>10, <1>16, NormalDraws
  <2>2. Placed(h)  BY <2>1 DEF DrewTargets
  <2>3. d = IF DrawsFrame(p) THEN <<p.name>> ELSE due  BY <1>10, <1>11, <1>16
  <2>4. InNormal(normal, j - 1, g, due)  BY <1>13, <1>16
  <2> HIDE DEF normal, j
  <2>5. InNormal(normal, j, h, d)  BY <1>10, <1>14, <2>1, <2>3, <2>4, NormalAdds
  <2>6. QED
    <3>1. CASE j < Len(normal)
      <4>1. pc' = [pc EXCEPT ![3] = j + 1]
        BY <1>1, <3>1 DEF NormalProcess, normal, j
      <4>2. pc'[1] = "normal" /\ pc'[2] = k /\ pc'[3] = j + 1  BY <1>1, <4>1
      <4>3. pc'[3] - 1 = j  BY <1>14, <4>2
      <4>4. Shown(scene, pc', h, d)  BY <1>8, <1>16, <2>2, <2>5, <4>2, <4>3 DEF Shown, normal, g, h
      <4>5. QED  BY <4>4 DEF h, d
    <3>2. CASE ~ (j < Len(normal))
      <4>1. pc' = PostOf(scene, k) /\ ~ h.immediate /\ ~ Wrote(scene, k)
        BY <1>1, <1>8, <1>16, <3>2 DEF NormalProcess, BeginPost, PostOf, BeginStage, StageOf, g, h, normal, j
      <4>2. k \in DOMAIN scene /\ scene \in Scenes /\ j = Len(normal) /\ normal # <<>>
        BY <1>1, <1>4, <3>2 DEF GoodList, j
      <4> HIDE DEF k
      <4>3. Fresh(h, d) /\ DrawnIn(h, NamedBy(normal))
        BY <2>5, <4>1, <4>2, StageDrawn DEF normal
      <4>4. Shown(scene, PostOf(scene, k), h, d)  BY <2>2, <4>1, <4>2, <4>3, PostShown DEF normal
      <4>5. QED  BY <4>1, <4>4 DEF h, d
    <3>3. QED  BY <3>1, <3>2
<1>17. QED  BY <1>15, <1>16

(* The default clears all targets, and draws what was requested.           *)
LEMMA DefaultDrawShows ==
  IInv /\ Plain(scene) /\ Shown(scene, pc, gfx, due) /\ DefaultDraw => Shown(scene, pc', gfx', due')
<1> SUFFICES ASSUME IInv, Plain(scene), Shown(scene, pc, gfx, due), DefaultDraw
             PROVE  Shown(scene, pc', gfx', due')
  OBVIOUS
<1> DEFINE k == pc[2]
           begun == RenderBeginPass(RenderBegin(EnableAllRenderTargets(gfx), "NORMAL"))
           g == gfx
           h == gfx'
           d == due'
<1>1. /\ scene \in Scenes /\ k \in DOMAIN scene /\ Between(g) /\ (g.immediate <=> Wrote(scene, k))
      /\ Placed(g)
  BY DEF IInv, Going, Using, Writing, InPlace, Shown, DefaultDraw
<1>2. PICK requests \in Requests : Draw(requests, Clear(begun, "default"), DefaultProcess, TRUE)
  BY DEF DefaultDraw
<1> DEFINE sorted == SortAll(RenderRequests(lists, requests))
           passes == AllPasses(sorted)
<1>3. /\ h = RenderEnd(RenderEndPass(DrawPasses(Clear(begun, "default"), "default", passes)))
      /\ d = DueAfter(DefaultProcess, passes)
  BY <1>2 DEF Draw, DefaultProcess
<1>4. Len(passes) \in Nat
  <2>1. lists = NoLists  BY DEF IInv
  <2>2. QED  BY <2>1, DrawIs
<1> HIDE DEF sorted, passes
<1>5. DefaultDrew(g, h) /\ h.immediate = g.immediate
  <2> HIDE DEF g
  <2>1. h = RenderEnd(RenderEndPass(DrawPasses(Clear(RenderBeginPass(RenderBegin(EnableAllRenderTargets(g), "NORMAL")),
                                                     "default"), "default", passes)))
    BY <1>3 DEF g
  <2> HIDE DEF h
  <2>2. DefaultDrew(g, h)  BY <1>1, <1>4, <2>1, DefaultDraws
  <2>3. h.immediate = g.immediate  BY <1>1, <1>4, <2>1, DefaultIs
  <2>4. QED  BY <2>2, <2>3
<1>6. d = <<"default">>
  <2> DEFINE frame == \E e \in Range(DefaultProcess.targets) : e.rt = 0 /\ e.texture = NULL
  <2>1. DefaultProcess.targets = <<[rt |-> 0, texture |-> NULL]>>  BY DEF DefaultProcess
  <2>2. frame
    <3>1. [rt |-> 0, texture |-> NULL] \in Range(DefaultProcess.targets)  BY <2>1 DEF Range
    <3>2. QED  BY <3>1
  <2>3. DefaultProcess.targets # <<>> /\ DefaultProcess.clear /\ DefaultProcess.name = "default"
    BY <2>1 DEF DefaultProcess
  <2>4. DueAfter(DefaultProcess, passes) =
          CASE DefaultProcess.targets = <<>> /\ passes # <<>> -> Add(due, DefaultProcess.name)
            [] frame -> IF DefaultProcess.clear THEN <<DefaultProcess.name>> ELSE due
            [] OTHER -> due
    BY DEF DueAfter
  <2> HIDE DEF frame
  <2>5. QED  BY <1>3, <2>2, <2>3, <2>4
<1>7. pc' = PostOf(scene, k)
  BY DEF DefaultDraw, BeginPost, PostOf, BeginStage, StageOf
<1> HIDE DEF g, h, d, k
<1>8. Placed(h) /\ (h.immediate => h.image[Back] = d)  BY <1>5, <1>6 DEF DefaultDrew
<1>9. ASSUME ~ h.immediate PROVE Fresh(h, d) /\ DrawnIn(h, NamedBy(scene[k].normal))
  <2>1. \A i \in RT : /\ h.rt[i].first = FALSE /\ h.rt[i].texture = Buffer(i, Original)
                      /\ h.image[Buffer(i, Original)] = d
    BY <1>5, <1>6, <1>9 DEF DefaultDrew
  <2>2. NamedBy(scene[k].normal) \subseteq RT  BY DEF NamedBy, DrawnBy
  <2>3. Len(d) = 1  BY <1>6
  <2>4. QED  BY <2>1, <2>2, <2>3, TargetsFinite DEF Fresh, DrawnIn
<1>10. Shown(scene, PostOf(scene, k), h, d)  BY <1>1, <1>5, <1>8, <1>9, PostShown
<1>11. QED  BY <1>7, <1>10 DEF h, d

(* What the post processes of a stage are.                                 *)
LEMMA PostsAre ==
  ASSUME NEW s \in Scenes, Plain(s), NEW k \in DOMAIN s, NEW j \in DOMAIN s[k].post
  PROVE  /\ Reader(s[k].post[j], NamedBy(s[k].normal))
         /\ NamedBy(s[k].normal) \subseteq RT
         /\ ~ Wrote(s, k)
         /\ s[k].post[j].immediate => j = Len(s[k].post)
         /\ DOMAIN s[k].post = 1 .. Len(s[k].post) /\ Len(s[k].post) \in Nat
<1>1. GoodPost(s, k, s[k].post[j]) /\ GoodList(s[k].post)  BY SceneIs
<1>2. /\ \A e \in DOMAIN s[k].post[j].targets : s[k].post[j].targets[e].texture = NULL
      /\ \A r \in s[k].post[j].reads : r[2] \in NamedBy(s[k].normal)
      /\ s[k].post[j].immediate => j = Len(s[k].post)
  BY DEF Plain
<1>3. Wrote(s, k) => DOMAIN s[k].post = {}
  <2>1. Wrote(s, k) => s[k].post = <<>>  BY DEF Plain
  <2>2. QED  BY <2>1
<1>4. Reader(s[k].post[j], NamedBy(s[k].normal))  BY <1>1, <1>2 DEF GoodPost, Reader
<1>5. NamedBy(s[k].normal) \subseteq RT  BY DEF NamedBy, DrawnBy
<1>6. QED  BY <1>1, <1>2, <1>3, <1>4, <1>5 DEF GoodList

(* The list of post processes begins with the targets that were drawn.     *)
LEMMA PostBeginShows ==
  IInv /\ Plain(scene) /\ Shown(scene, pc, gfx, due) /\ PostBegin => Shown(scene, pc', gfx', due')
<1> SUFFICES ASSUME IInv, Plain(scene), Shown(scene, pc, gfx, due), PostBegin
             PROVE  Shown(scene, pc', gfx', due')
  OBVIOUS
<1> DEFINE k == pc[2]
           N == NamedBy(scene[k].normal)
           g == gfx
           h == gfx'
           d == due
<1>1. /\ scene \in Scenes /\ k \in DOMAIN scene /\ scene[k].post # <<>>
      /\ Between(g) /\ (g.immediate <=> Wrote(scene, k)) /\ k \in Nat
      /\ Placed(g) /\ Fresh(g, d) /\ DrawnIn(g, N)
  BY DEF IInv, Going, Using, Writing, InPlace, PostBegin, Shown
<1>2. pc' = <<"post", k, 1>> /\ h = RenderBegin(EnableAllRenderTargets(g), "POST") /\ due' = d
  BY DEF PostBegin
<1> HIDE DEF g, h, d
<1>3. 1 \in DOMAIN scene[k].post
  <2>1. GoodList(scene[k].post)  BY <1>1, SceneIs
  <2>2. QED  BY <1>1, <2>1 DEF GoodList
<1>4. Reader(scene[k].post[1], N) /\ N \subseteq RT /\ ~ Wrote(scene, k)  BY <1>1, <1>3, PostsAre
<1>5. 0 \in N
  <2>1. <<"RT", 0>> \in scene[k].post[1].reads /\ \A s \in scene[k].post[1].reads : s[2] \in N
    BY <1>4 DEF Reader
  <2>2. <<"RT", 0>>[2] \in N  BY <2>1
  <2>3. QED  BY <2>2
<1> HIDE DEF N
<1>6. Reading(h, N, d, TRUE)  BY <1>1, <1>2, <1>4, <1>5, ReadingBegins
<1>7. pc'[1] = "post" /\ pc'[2] = k /\ pc'[3] = 1  BY <1>2
<1>8. Shown(scene, pc', h, d)  BY <1>6, <1>7 DEF Shown, First, N
<1>9. QED  BY <1>2, <1>8 DEF h

(* A post process: the frame goes to the buffer that is not read, or to    *)
(* the back buffer.                                                        *)
LEMMA PostProcessShows ==
  IInv /\ Plain(scene) /\ Shown(scene, pc, gfx, due) /\ PostProcess => Shown(scene, pc', gfx', due')
<1> SUFFICES ASSUME IInv, Plain(scene), Shown(scene, pc, gfx, due), PostProcess
             PROVE  Shown(scene, pc', gfx', due')
  OBVIOUS
<1> DEFINE k == pc[2]
           j == pc[3]
           p == Process
           post == scene[k].post
           N == NamedBy(scene[k].normal)
           set == SetImmediateWrite(gfx, p.immediate)
           begun == RenderBeginPass(IF p.immediate THEN set ELSE UseTargets(set, p))
           kept == params[k][j]
           result == Result(p, begun, Used(p, begun, kept))
           g == gfx
           h == gfx'
           d == due
           e == due'
           f == First(j)
<1>1. /\ scene \in Scenes /\ pc[1] = "post" /\ k \in DOMAIN scene /\ j \in DOMAIN post
      /\ pc \in Steps \X Nat \X Nat
      /\ p = post[j] /\ Stage = scene[k]
      /\ gfx.immediate <=> Wrote(scene, k) \/ \E i \in 1 .. j - 1 : scene[k].post[i].immediate
      /\ Posting(g) /\ Reading(g, N, d, f)
      /\ Kept(scene, params)
  BY DEF IInv, Going, Using, Writing, InPlace, PostProcess, Stage, Process, Shown
<1>2. h = RenderEndPass([begun EXCEPT !.image[begun.target[0]] = result])
  BY DEF PostProcess, Used, Undefined, Result
<1>3. pc' = IF j < Len(post) THEN [pc EXCEPT ![3] = j + 1] ELSE <<"postend", k, 0>>
  BY <1>1 DEF PostProcess
<1>4. e = IF StillBound THEN Old ELSE Add(d, p.name)  BY DEF PostProcess
<1>5. /\ Reader(p, N) /\ N \subseteq RT /\ (p.immediate => j = Len(post))
      /\ DOMAIN post = 1 .. Len(post) /\ Len(post) \in Nat
  BY <1>1, PostsAre
<1>6. f \in BOOLEAN /\ (f <=> j = 1)  BY DEF First
<1>7. StillBound <=> p.immediate /\ Bound(p, f)
  <2>1. StillBound <=> /\ p.immediate /\ \E i \in RT \ {0} : <<"RT", i>> \in p.reads
                       /\ \E i \in 1 .. j - 1 : ~ post[i].immediate
    BY <1>1 DEF StillBound
  <2>2. (\E i \in 1 .. j - 1 : ~ post[i].immediate) <=> ~ f
    <3>1. ASSUME ~ f PROVE 1 \in 1 .. j - 1 /\ ~ post[1].immediate
      <4>1. 1 \in 1 .. j - 1 /\ 1 \in DOMAIN post /\ 1 # Len(post)  BY <1>1, <1>5, <1>6, <3>1
      <4>2. post[1].immediate => 1 = Len(post)  BY <1>1, <4>1, PostsAre
      <4>3. QED  BY <4>1, <4>2
    <3>2. f => 1 .. j - 1 = {}  BY <1>6
    <3>3. QED  BY <3>1, <3>2
  <2>3. QED  BY <2>1, <2>2 DEF Bound
<1>8. result \in Images
  <2>1. GoodPost(scene, k, p) /\ (g.immediate => p.immediate)
    <3>1. GoodPost(scene, k, post[j])  BY <1>1, SceneIs
    <3>2. ~ g.immediate  BY <1>1 DEF Reading
    <3>3. QED  BY <1>1, <3>1, <3>2
  <2>2. IsProcess(p) /\ p.name \in Names /\ \A i \in DOMAIN p.targets : p.targets[i].rt = i - 1
    BY <2>1 DEF GoodPost
  <2>3. begun = RenderBeginPass(IF p.immediate THEN SetImmediateWrite(g, p.immediate)
                                ELSE UseTargets(SetImmediateWrite(g, p.immediate), p))
    OBVIOUS
  <2>4. Posting(g) /\ (g.immediate => p.immediate)  BY <1>1, <2>1
  <2> HIDE DEF p, begun, g
  <2>5. begun \in Gfx  BY <2>2, <2>3, <2>4, PostIs
  <2>6. kept \in [p.reads -> Places]  BY <1>1 DEF Kept
  <2>7. p.reads \subseteq Semantics /\ <<"RT", 0>> \in p.reads  BY <2>1 DEF GoodPost, IsProcess
  <2> HIDE DEF kept
  <2>8. QED  BY <2>2, <2>5, <2>6, <2>7, ResultIs
<1>9. CASE ~ p.immediate
  <2>1. g.immediate = FALSE /\ p.immediate = FALSE
    <3>1. g.immediate \in BOOLEAN /\ ~ g.immediate  BY <1>1 DEF Posting, Gfx, Reading
    <3>2. p.immediate \in BOOLEAN  BY <1>5 DEF Reader, IsProcess
    <3>3. QED  BY <1>9, <3>1, <3>2
  <2>2. set = g  BY <2>1 DEF SetImmediateWrite
  <2> DEFINE u == UseTargets(g, p)
  <2>3. begun = RenderBeginPass(u)  BY <1>9, <2>2
  <2> HIDE DEF begun, kept, p, g, h, d, e, f, N, result, u
  <2>4. result = Result(p, begun, Used(p, begun, kept))  BY DEF result
  <2>5. Reading(h, N, Add(d, p.name), FALSE)
    <3>1. Posting(g) /\ N \subseteq RT /\ f \in BOOLEAN /\ Reading(g, N, d, f) /\ Reader(p, N)
      BY <1>1, <1>5, <1>6
    <3>2. u = UseTargets(g, p)  BY DEF u
    <3>3. QED  BY <1>2, <1>8, <2>3, <2>4, <3>1, <3>2, PostReads
  <2>6. e = Add(d, p.name)  BY <1>4, <1>7, <1>9
  <2>7. CASE j < Len(post)
    <3>1. pc'[1] = "post" /\ pc'[2] = k /\ pc'[3] = j + 1  BY <1>1, <1>3, <2>7
    <3>2. First(pc'[3]) = FALSE  BY <1>1, <1>5, <3>1 DEF First
    <3>3. Shown(scene, pc', h, e)  BY <2>5, <2>6, <3>1, <3>2 DEF Shown, N
    <3>4. QED  BY <3>3 DEF h, e
  <2>8. CASE ~ (j < Len(post))
    <3>1. pc'[1] = "postend"  BY <1>3, <2>8
    <3>2. Ends(h, e)  BY <2>5, <2>6 DEF Ends, Reading
    <3>3. Shown(scene, pc', h, e)  BY <3>1, <3>2 DEF Shown
    <3>4. QED  BY <3>3 DEF h, e
  <2>9. QED  BY <2>7, <2>8
<1>10. CASE p.immediate
  <2>1. p.immediate = TRUE
    <3>1. p.immediate \in BOOLEAN  BY <1>5 DEF Reader, IsProcess
    <3>2. QED  BY <1>10, <3>1
  <2> DEFINE u == SetImmediateWrite(g, TRUE)
  <2>2. begun = RenderBeginPass(u)  BY <2>1
  <2>3. pc'[1] = "postend"  BY <1>1, <1>3, <1>5, <1>10
  <2> HIDE DEF begun, kept, p, g, h, d, e, f, N, result, u
  <2>4. result = Result(p, begun, Used(p, begun, kept))  BY DEF result
  <2>5. Written(h, IF Bound(p, f) THEN Old ELSE Add(d, p.name))
    <3>1. Posting(g) /\ N \subseteq RT /\ f \in BOOLEAN /\ Reading(g, N, d, f) /\ Reader(p, N)
      BY <1>1, <1>5, <1>6
    <3>2. u = SetImmediateWrite(g, TRUE)  BY DEF u
    <3>3. QED  BY <1>2, <1>8, <2>2, <2>4, <3>1, <3>2, PostWrites
  <2>6. e = IF Bound(p, f) THEN Old ELSE Add(d, p.name)  BY <1>4, <1>7, <1>10
  <2>7. h.immediate
    <3>1. IInv'  BY PostProcessKeeps
    <3>2. p.immediate => \E i \in DOMAIN post : post[i].immediate  BY <1>1
    <3>3. GoodList(scene) /\ k \in Nat /\ k # 0
      <4>1. GoodList(scene)  BY <1>1, SceneIs
      <4>2. QED  BY <1>1, <4>1 DEF GoodList
    <3>4. Wrote(scene, k + 1)  BY <1>10, <3>2, <3>3, WroteNext
    <3>5. scene' = scene /\ pc'[2] = k
      <4>1. ~ (j < Len(post))  BY <1>5, <1>10
      <4>2. pc' = <<"postend", k, 0>>  BY <1>3, <4>1
      <4>3. scene' = scene  BY DEF PostProcess
      <4>4. pc'[2] = k  BY <4>2
      <4>5. QED  BY <4>3, <4>4
    <3>6. QED  BY <2>3, <3>1, <3>4, <3>5 DEF IInv, Going, Writing, h
  <2>8. Ends(h, e)  BY <2>5, <2>6, <2>7 DEF Ends
  <2>9. Shown(scene, pc', h, e)  BY <2>3, <2>8 DEF Shown
  <2>10. QED  BY <2>9 DEF h, e
<1>11. QED  BY <1>9, <1>10

(* A plain scene: when a frame is presented, the back buffer shows the     *)
(* scene with every post process applied in the order of the stages, for   *)
(* any number of targets, stages and processes (Display.cpp:105-161).      *)
(* What a process makes that reads targets still bound is left open, and   *)
(* so is the frame from there on (StillBound).                             *)
THEOREM FramesAreShown == Spec => [](Plain(scene) => FrameShown)
<1> DEFINE FInv == Plain(scene) => Shown(scene, pc, gfx, due)
<1>1. Init => FInv  BY InitShown
<1>2. ASSUME IInv, FInv, [Next]_vars PROVE FInv'
  <2>1. scene' = scene
    BY <1>2 DEF Next, vars, BeginFrame, NormalProcess, DefaultDraw, PostBegin, PostProcess, PostEnd, Copy, Present
  <2>2. SUFFICES ASSUME Plain(scene) PROVE Shown(scene, pc', gfx', due')
    BY <2>1
  <2>3. Shown(scene, pc, gfx, due)  BY <1>2, <2>2
  <2>4. CASE BeginFrame  BY <1>2, <2>2, <2>3, <2>4, BeginFrameShows
  <2>5. CASE NormalProcess  BY <1>2, <2>2, <2>3, <2>5, NormalProcessShows
  <2>6. CASE DefaultDraw  BY <1>2, <2>2, <2>3, <2>6, DefaultDrawShows
  <2>7. CASE PostBegin  BY <1>2, <2>2, <2>3, <2>7, PostBeginShows
  <2>8. CASE PostProcess  BY <1>2, <2>2, <2>3, <2>8, PostProcessShows
  <2>9. CASE PostEnd  BY <1>2, <2>2, <2>3, <2>9, PostEndShows
  <2>10. CASE Copy  BY <1>2, <2>3, <2>10, CopyShows
  <2>11. CASE Present  BY <1>2, <2>3, <2>11, PresentShows
  <2>12. CASE UNCHANGED vars  BY <2>3, <2>12 DEF vars
  <2>13. QED  BY <1>2, <2>4, <2>5, <2>6, <2>7, <2>8, <2>9, <2>10, <2>11, <2>12 DEF Next
<1>3. FInv => (Plain(scene) => FrameShown)  BY DEF Shown, FrameShown
<1>4. QED  BY Inductive, <1>1, <1>2, <1>3, PTL DEF Spec
=============================================================================
