-------------------------- MODULE FileSystemProofs --------------------------
(***************************************************************************)
(* Files: proofs for every set of paths, bytes and writes, every block     *)
(* size, and any number of files open, under one path or several.          *)
(*                                                                         *)
(* What makes the properties inductive: past the size of a memory file its *)
(* buffer is as it was allocated, so that a gap left by a Seek is the same *)
(* in the buffer and in the file it stands for; a native file is on disk   *)
(* as long as it is open; and while the program is up its list of file     *)
(* systems is the one of Mount.                                            *)
(***************************************************************************)
EXTENDS FileSystem, TLAPS

Dues == [data : Data, pos : Int]

(* A memory file and what its client should find.                          *)
Holds(f, d) ==
  /\ f.size <= f.max
  /\ d = [data |-> SubSeq(f.buffer, 1, f.size), pos |-> f.pos]
  /\ \A i \in f.size + 1 .. f.max : f.buffer[i] = Junk

Sound(f, d, there) ==
  \/ f \in NativeFiles /\ f.path \in there
  \/ f \in MemoryFiles /\ Holds(f, d)

AllSound == \A h \in DOMAIN files : Sound(files[h], due[h], DOMAIN disk)

DiskTyped ==
  /\ DOMAIN disk \subseteq Paths /\ disk \in [DOMAIN disk -> Data]
  /\ DOMAIN saved \subseteq Paths /\ saved \in [DOMAIN saved -> Data \cup {Shared}]

Listed ==
  /\ DOMAIN files \subseteq Handles
  /\ table = [h \in DOMAIN files |-> files[h].by]
  /\ due = [h \in InMemory |-> due[h]]
  /\ log \in DOMAIN files \cup {NoLog}

Shape ==
  /\ stage \in {"down", "mounted", "up", "closing", "overflow", "overrun"}
  /\ mounted \in {<<>>, MountOrder}
  /\ stage \in {"mounted", "up"} => mounted = MountOrder
  /\ readOnly \subseteq Paths
  /\ fatal.path \in Paths

IInv ==
  /\ Shape /\ Listed /\ AllSound /\ DiskTyped /\ DiskExact
  /\ OverflowOnlyWithoutFile /\ OverrunOnlyPastEnd
  /\ got.bytes = got.due

-----------------------------------------------------------------------------
(* Sequences and the memory file.                                          *)

LEMMA OverwriteIs ==
  ASSUME NEW s \in Data, NEW pos \in Nat, NEW w \in Seq(Bytes)
  PROVE  /\ Overwrite(s, pos, w) \in Data
         /\ Len(Overwrite(s, pos, w)) = Larger(Len(s), pos + Len(w))
<1> DEFINE n == Larger(Len(s), pos + Len(w))
<1>1. n \in Nat /\ s \in Seq(Bytes \cup {Junk})  BY DEF Larger, Data
<1>2. \A i \in 1 .. n : (IF i \in pos + 1 .. pos + Len(w) THEN w[i - pos]
                        ELSE IF i <= Len(s) THEN s[i] ELSE Junk) \in Bytes \cup {Junk}
  BY <1>1 DEF Larger
<1>3. Overwrite(s, pos, w) \in [1 .. n -> Bytes \cup {Junk}]  BY <1>2 DEF Overwrite
<1>4. QED  BY <1>1, <1>3 DEF Data

LEMMA SliceOfPart ==
  ASSUME NEW S, NEW s \in Seq(S), NEW size \in Nat, size <= Len(s),
         NEW pos \in Nat, NEW n \in Nat, pos + n <= size
  PROVE  Slice(SubSeq(s, 1, size), pos, n) = Slice(s, pos, n)
<1> DEFINE part == SubSeq(s, 1, size)
           a == SubSeq(part, pos + 1, pos + n)
           b == SubSeq(s, pos + 1, pos + n)
<1>1. /\ part \in Seq(S) /\ Len(part) = size
      /\ \A i \in 1 .. size : part[i] = s[i]
  OBVIOUS
<1> HIDE DEF part
<1>2. /\ a \in Seq(S) /\ Len(a) = n
      /\ \A i \in 1 .. n : a[i] = part[pos + i]
  BY <1>1
<1>3. /\ b \in Seq(S) /\ Len(b) = n
      /\ \A i \in 1 .. n : b[i] = s[pos + i]
  OBVIOUS
<1>4. \A i \in 1 .. n : pos + i \in 1 .. size  OBVIOUS
<1> HIDE DEF a, b
<1>5. \A i \in 1 .. n : a[i] = b[i]  BY <1>1, <1>2, <1>3, <1>4
<1>6. a = b  BY <1>2, <1>3, <1>5
<1>7. QED  BY <1>6 DEF Slice, a, b, part

LEMMA RoomForAll ==
  ASSUME NEW n \in Nat
  PROVE  RoomFor(n) \in Nat /\ RoomFor(n) >= n
BY FileAssumption, Z3 DEF RoomFor

LEMMA GrownIs ==
  ASSUME NEW f \in MemoryFiles, f.size <= f.max, NEW n \in Nat
  PROVE  /\ Grown(f, n) \in Nat /\ f.max <= Grown(f, n)
         /\ f.pos <= f.size => f.pos + n <= Grown(f, n)
<1> DEFINE more == Block * (1 + n \div Block)
           size == Larger(f.size, f.pos + n)
<1>1. /\ f.pos \in Int /\ f.max \in Nat /\ f.size \in Nat
  BY DEF MemoryFiles
<1>2. more \in Nat /\ more >= n  BY RoomForAll DEF RoomFor
<1>3. Grown(f, n) = IF f.max < size THEN f.max + more ELSE f.max  BY DEF Grown
<1>4. size = IF f.size < f.pos + n THEN f.pos + n ELSE f.size  BY DEF Larger
<1> HIDE DEF more, size
<1>5. QED  BY <1>1, <1>2, <1>3, <1>4, SMTT(30)

(* A write in memory is a write in an ordinary file, through every growth, *)
(* past the end too, when the room made is enough.                         *)
LEMMA WrittenSound ==
  ASSUME NEW f \in MemoryFiles, NEW d, Holds(f, d), NEW w \in Chunks,
         f.pos >= 0, f.pos + Len(w) <= Grown(f, Len(w))
  PROVE  /\ Written(f, w) \in MemoryFiles
         /\ Holds(Written(f, w),
                  [data |-> Overwrite(d.data, d.pos, w), pos |-> d.pos + Len(w)])
<1>1. w \in Seq(Bytes) /\ Len(w) \in Nat  BY FileAssumption
<1>2. /\ f.pos \in Nat /\ f.max \in Nat /\ f.size \in Nat
      /\ f.buffer \in Seq(Bytes \cup {Junk}) /\ Len(f.buffer) = f.max
      /\ f.by = "MEMORY"
  BY DEF MemoryFiles, Data
<1>3. /\ f.size <= f.max /\ d.pos = f.pos
      /\ d.data = SubSeq(f.buffer, 1, f.size)
      /\ \A i \in f.size + 1 .. f.max : f.buffer[i] = Junk
  BY DEF Holds
<1>4. /\ d.data \in Seq(Bytes \cup {Junk}) /\ Len(d.data) = f.size
      /\ \A i \in 1 .. f.size : d.data[i] = f.buffer[i]
  BY <1>2, <1>3
<1> DEFINE max == Grown(f, Len(w))
           size == Larger(f.size, f.pos + Len(w))
           new == Written(f, w)
           due2 == [data |-> Overwrite(d.data, d.pos, w), pos |-> d.pos + Len(w)]
<1>5. max \in Nat /\ size \in Nat /\ size <= max /\ f.max <= max /\ f.size <= size
  <2>1. max \in Nat /\ f.max <= max /\ f.pos + Len(w) <= max  BY <1>1, <1>3, GrownIs
  <2>2. size = IF f.size < f.pos + Len(w) THEN f.pos + Len(w) ELSE f.size
    BY DEF Larger
  <2> HIDE DEF max, size
  <2>3. QED  BY <1>1, <1>2, <1>3, <2>1, <2>2
<1> DEFINE old == [i \in 1 .. max |-> IF max = f.max \/ i <= f.size THEN f.buffer[i] ELSE Junk]
           buffer == [i \in 1 .. max |->
                        IF i \in f.pos + 1 .. f.pos + Len(w) THEN w[i - f.pos] ELSE old[i]]
<1>6. \A i \in 1 .. max : old[i] = IF i <= f.size THEN d.data[i] ELSE Junk
  <2>1. TAKE i \in 1 .. max
  <2>2. i \in 1 .. f.size \/ (i \in f.size + 1 .. max /\ ~(i <= f.size))  BY <1>2, <1>5
  <2>3. max = f.max /\ ~(i <= f.size) => f.buffer[i] = Junk
    <3> HIDE DEF max
    <3>1. QED  BY <1>2, <1>3, <2>2
  <2>4. QED  BY <1>4, <2>2, <2>3
<1>7. \A i \in 1 .. max :
        buffer[i] = IF i \in f.pos + 1 .. f.pos + Len(w) THEN w[i - f.pos]
                    ELSE IF i <= f.size THEN d.data[i] ELSE Junk
  BY <1>6
<1>8. buffer \in Seq(Bytes \cup {Junk}) /\ Len(buffer) = max
  <2>1. \A i \in 1 .. max : buffer[i] \in Bytes \cup {Junk}
    <3>1. TAKE i \in 1 .. max
    <3>2. CASE i \in f.pos + 1 .. f.pos + Len(w)  BY <1>1, <1>2, <1>7, <3>2
    <3>3. CASE i \notin f.pos + 1 .. f.pos + Len(w) /\ i <= f.size
      <4>1. buffer[i] = d.data[i] /\ i \in 1 .. f.size  BY <1>2, <1>7, <3>3
      <4> HIDE DEF buffer
      <4>2. QED  BY <1>4, <4>1
    <3>4. CASE i \notin f.pos + 1 .. f.pos + Len(w) /\ ~(i <= f.size)  BY <1>7, <3>4
    <3>5. QED  BY <3>2, <3>3, <3>4
  <2>2. buffer \in [1 .. max -> Bytes \cup {Junk}]  BY <2>1
  <2> HIDE DEF buffer, max
  <2>3. QED  BY <1>5, <2>2
<1>9. SubSeq(buffer, 1, size) = Overwrite(d.data, d.pos, w)
  <2> DEFINE left == SubSeq(buffer, 1, size)
             right == Overwrite(d.data, d.pos, w)
  <2>1. right \in Seq(Bytes \cup {Junk}) /\ Len(right) = size
    <3>1. d.data \in Data /\ d.pos \in Nat  BY <1>2, <1>3, <1>4 DEF Data
    <3>2. right \in Data /\ Len(right) = Larger(Len(d.data), d.pos + Len(w))
      BY <1>1, <3>1, OverwriteIs
    <3>3. QED  BY <1>3, <1>4, <3>2 DEF Data
  <2>2. left \in Seq(Bytes \cup {Junk}) /\ Len(left) = size
        /\ \A i \in 1 .. size : left[i] = buffer[i]
    <3> HIDE DEF buffer, size, max
    <3>1. QED  BY <1>5, <1>8
  <2>3. \A i \in 1 .. size : left[i] = right[i]
    <3>1. TAKE i \in 1 .. size
    <3>2. i \in 1 .. max  BY <1>5
    <3>3. right[i] = IF i \in d.pos + 1 .. d.pos + Len(w) THEN w[i - d.pos]
                     ELSE IF i <= Len(d.data) THEN d.data[i] ELSE Junk
      BY <1>3, <1>4 DEF Overwrite
    <3> HIDE DEF left, right, buffer, max, size
    <3>4. QED  BY <1>3, <1>4, <1>7, <2>2, <3>2, <3>3
  <2> HIDE DEF left, right, size
  <2>4. left = right  BY <2>1, <2>2, <2>3
  <2>5. QED  BY <2>4 DEF left, right
<1>10. \A i \in size + 1 .. max : buffer[i] = Junk
  <2>1. TAKE i \in size + 1 .. max
  <2>2. i \in 1 .. max /\ i \notin f.pos + 1 .. f.pos + Len(w) /\ ~(i <= f.size)
    BY <1>1, <1>2, <1>5 DEF Larger
  <2>3. QED  BY <1>7, <2>2
<1>11. new = [f EXCEPT !.buffer = buffer, !.max = max, !.pos = @ + Len(w), !.dirty = TRUE,
                       !.size = size]
  BY DEF Written
<1> HIDE DEF buffer, size, max, new
<1>12. /\ new \in MemoryFiles /\ new.pos = f.pos + Len(w)
       /\ new.buffer = buffer /\ new.size = size /\ new.max = max
  <2>1. f \in [by : {"MEMORY"}, path : Paths, mode : {"read", "create"}, pos : Int,
                max : Nat, size : Nat, dirty : BOOLEAN, buffer : Data]
    BY DEF MemoryFiles
  <2>2. f.pos + Len(w) \in Int /\ buffer \in Data  BY <1>1, <1>2, <1>8 DEF Data
  <2>3. /\ new \in [by : {"MEMORY"}, path : Paths, mode : {"read", "create"}, pos : Int,
                     max : Nat, size : Nat, dirty : BOOLEAN, buffer : Data]
        /\ new.pos = f.pos + Len(w)
        /\ new.buffer = buffer /\ new.size = size /\ new.max = max
    BY <1>5, <1>11, <2>1, <2>2
  <2>4. QED  BY <1>8, <2>3 DEF MemoryFiles
<1>13. Holds(new, due2)
  BY <1>3, <1>5, <1>9, <1>10, <1>12 DEF Holds
<1>14. QED  BY <1>12, <1>13 DEF new

(* Just opened, a memory file has what is on disk, or nothing.             *)
LEMMA MemoryFileSound ==
  ASSUME NEW path \in Paths, NEW mode \in {"read", "create"}, NEW data \in Data,
         data = IF mode = "read" THEN disk[path] ELSE <<>>
  PROVE  /\ MemoryFile(path, mode) \in MemoryFiles
         /\ Holds(MemoryFile(path, mode), [data |-> data, pos |-> 0])
<1> DEFINE max == IF mode = "read" THEN RoomFor(Len(data)) ELSE 0
           buffer == [i \in 1 .. max |-> IF i <= Len(data) THEN data[i] ELSE Junk]
           f == MemoryFile(path, mode)
<1>1. data \in Seq(Bytes \cup {Junk}) /\ Len(data) \in Nat  BY DEF Data
<1>2. max \in Nat /\ Len(data) <= max  BY <1>1, RoomForAll
<1>3. f = [by |-> "MEMORY", path |-> path, mode |-> mode, pos |-> 0,
           max |-> max, size |-> Len(data), dirty |-> FALSE, buffer |-> buffer]
  BY DEF MemoryFile
<1>4. \A i \in 1 .. max : buffer[i] \in Bytes \cup {Junk}  BY <1>1
<1>5. buffer \in [1 .. max -> Bytes \cup {Junk}]  BY <1>4
<1>6. \A i \in 1 .. Len(data) : buffer[i] = data[i]  BY <1>1, <1>2
<1>7. \A i \in Len(data) + 1 .. max : buffer[i] = Junk  BY <1>1, <1>2
<1> HIDE DEF max, buffer, f
<1>8. buffer \in Seq(Bytes \cup {Junk}) /\ Len(buffer) = max  BY <1>2, <1>5
<1>9. data = SubSeq(buffer, 1, Len(data))
  <2> DEFINE part == SubSeq(buffer, 1, Len(data))
  <2>1. /\ part \in Seq(Bytes \cup {Junk}) /\ Len(part) = Len(data)
        /\ \A i \in 1 .. Len(data) : part[i] = buffer[i]
    BY <1>1, <1>2, <1>8
  <2> HIDE DEF part
  <2>2. part = data  BY <1>1, <1>6, <2>1
  <2>3. QED  BY <2>2 DEF part
<1>10. f \in MemoryFiles
  BY <1>1, <1>2, <1>3, <1>8 DEF MemoryFiles, Data
<1>11. /\ f.size = Len(data) /\ f.max = max /\ f.buffer = buffer /\ f.pos = 0
  BY <1>3
<1>12. Holds(f, [data |-> data, pos |-> 0])
  BY <1>2, <1>7, <1>9, <1>11 DEF Holds
<1>13. QED  BY <1>10, <1>12 DEF f

(* Elsewhere in the file, nothing but the position differs.                *)
LEMMA MovedSound ==
  ASSUME NEW f, NEW d, NEW there, Sound(f, d, there),
         NEW to \in Int, f.by = "NATIVE" => to \in Nat
  PROVE  /\ Sound([f EXCEPT !.pos = to], [d EXCEPT !.pos = to], there)
         /\ [f EXCEPT !.pos = to].by = f.by
<1> DEFINE f2 == [f EXCEPT !.pos = to]
           d2 == [d EXCEPT !.pos = to]
<1>1. CASE f \in NativeFiles /\ f.path \in there
  <2>1. f2 \in NativeFiles /\ f2.path = f.path /\ f2.by = f.by
    BY <1>1 DEF NativeFiles
  <2>2. QED  BY <1>1, <2>1 DEF Sound
<1>2. CASE f \in MemoryFiles /\ Holds(f, d)
  <2>1. f2 \in MemoryFiles /\ f2.by = f.by /\ f2.pos = to
        /\ f2.buffer = f.buffer /\ f2.size = f.size /\ f2.max = f.max
    BY <1>2 DEF MemoryFiles
  <2>2. d2 = [data |-> SubSeq(f.buffer, 1, f.size), pos |-> to]
    <3> DEFINE part == SubSeq(f.buffer, 1, f.size)
    <3>1. d = [data |-> part, pos |-> f.pos]  BY <1>2 DEF Holds
    <3> HIDE DEF part
    <3>2. d2 = [data |-> part, pos |-> to]  BY <3>1
    <3>3. QED  BY <3>2 DEF part
  <2> HIDE DEF f2, d2
  <2>3. Holds(f2, d2)  BY <1>2, <2>1, <2>2 DEF Holds
  <2>4. QED  BY <2>1, <2>3 DEF Sound, f2, d2
<1>3. QED  BY <1>1, <1>2 DEF Sound

-----------------------------------------------------------------------------
(* Who opens.                                                              *)

LEMMA FirstIs ==
  ASSUME mounted \in {<<>>, MountOrder}, NEW path, NEW mode
  PROVE  /\ mounted = <<>> => FirstToOpen(path, mode) = "none"
         /\ mounted = MountOrder =>
              FirstToOpen(path, mode) = IF NativeOpens(path, mode) THEN "NATIVE" ELSE "MEMORY"
<1> DEFINE takers == {i \in DOMAIN mounted : mounted[i] = "MEMORY" \/ NativeOpens(path, mode)}
           least == CHOOSE i \in takers : \A j \in takers : i <= j
<1>1. CASE mounted = <<>>
  <2>1. takers = {}  BY <1>1
  <2>2. MountOrder # <<>>  BY DEF MountOrder
  <2>3. QED  BY <1>1, <2>1, <2>2 DEF FirstToOpen
<1>2. CASE mounted = MountOrder
  <2>1. /\ DOMAIN mounted = {1, 2} /\ mounted[1] = "NATIVE" /\ mounted[2] = "MEMORY"
        /\ mounted # <<>>
    BY <1>2 DEF MountOrder
  <2>2. CASE NativeOpens(path, mode)
    <3>1. takers = {1, 2}  BY <2>1, <2>2
    <3>2. least = 1  BY <3>1
    <3>3. QED  BY <2>1, <2>2, <3>1, <3>2 DEF FirstToOpen
  <2>3. CASE ~NativeOpens(path, mode)
    <3>1. takers = {2}  BY <2>1, <2>3
    <3>2. least = 2  BY <3>1
    <3>3. QED  BY <2>1, <2>3, <3>1, <3>2 DEF FirstToOpen
  <2>4. QED  BY <2>2, <2>3
<1>3. QED  BY <1>1, <1>2

LEMMA OpenerIs ==
  ASSUME mounted \in {<<>>, MountOrder}, NEW where \in {"NATIVE", "MEMORY", "any"},
         NEW path, NEW mode \in {"read", "create", "write"}
  PROVE  /\ Opener(where, path, mode) \in {"NATIVE", "MEMORY", "none", "overflow"}
         /\ Opener(where, path, mode) = "NATIVE" => NativeOpens(path, mode)
         /\ Opener(where, path, mode) = "MEMORY" /\ mode = "read" => NativeOpens(path, mode)
         /\ Opener(where, path, mode) = "overflow" => mode = "read" /\ ~NativeOpens(path, mode)
         /\ where = "MEMORY" /\ mode = "create" => Opener(where, path, mode) = "MEMORY"
         /\ mounted = MountOrder /\ where = "any" /\ mode # "read" =>
              Opener(where, path, mode) = IF NativeOpens(path, mode) THEN "NATIVE" ELSE "MEMORY"
<1> DEFINE first == FirstToOpen(path, mode)
           opens == NativeOpens(path, mode)
           by == Opener(where, path, mode)
<1>1. /\ first \in {"none", "NATIVE", "MEMORY"}
      /\ first = "NATIVE" => opens
      /\ first = "MEMORY" => ~opens
      /\ mounted = MountOrder => first = IF opens THEN "NATIVE" ELSE "MEMORY"
  BY FirstIs
<1>2. by = CASE where = "NATIVE" -> IF opens THEN "NATIVE" ELSE "none"
             [] where = "MEMORY" /\ mode # "read" -> "MEMORY"
             [] where = "any" /\ mode # "read" -> first
             [] where # "NATIVE" /\ mode = "read" /\ first = "MEMORY" -> "overflow"
             [] where = "MEMORY" /\ mode = "read" /\ first = "NATIVE" -> "MEMORY"
             [] OTHER -> first
  BY DEF Opener
<1> HIDE DEF first, opens, by
<1>3. CASE where = "NATIVE"  BY <1>1, <1>2, <1>3 DEF opens, by
<1>4. CASE where = "MEMORY" /\ mode # "read"  BY <1>1, <1>2, <1>4 DEF opens, by
<1>5. CASE where = "any" /\ mode # "read"  BY <1>1, <1>2, <1>5 DEF opens, by
<1>6. CASE where # "NATIVE" /\ mode = "read"
  <2>1. CASE first = "MEMORY"  BY <1>1, <1>2, <1>6, <2>1 DEF opens, by
  <2>2. CASE first # "MEMORY" /\ where = "MEMORY"  BY <1>1, <1>2, <1>6, <2>2 DEF opens, by
  <2>3. CASE first # "MEMORY" /\ where = "any"  BY <1>1, <1>2, <1>6, <2>3 DEF opens, by
  <2>4. QED  BY <1>6, <2>1, <2>2, <2>3
<1>7. QED  BY <1>3, <1>4, <1>5, <1>6

-----------------------------------------------------------------------------
(* One file comes, changes or goes, and the disk loses none.               *)

LEMMA SoundStays ==
  ASSUME AllSound, DOMAIN disk \subseteq DOMAIN disk'
  PROVE  \A g \in DOMAIN files : Sound(files[g], due[g], DOMAIN disk')
BY DEF AllSound, Sound

LEMMA FileComes ==
  ASSUME AllSound, Listed, NEW h \in Handles \ DOMAIN files, NEW f, NEW d,
         files' = With(files, h, f), table' = With(table, h, f.by),
         due' = IF f.by = "MEMORY" THEN With(due, h, d) ELSE due,
         log' \in {log, h},
         DOMAIN disk \subseteq DOMAIN disk',
         f.by = "MEMORY" => Sound(f, d, DOMAIN disk'),
         f.by # "MEMORY" => f \in NativeFiles /\ f.path \in DOMAIN disk'
  PROVE  AllSound' /\ Listed'
<1>1. /\ DOMAIN files' = DOMAIN files \cup {h} /\ files'[h] = f
      /\ \A g \in DOMAIN files : files'[g] = files[g]
  BY DEF With
<1>2. /\ DOMAIN due = InMemory
      /\ \A g \in InMemory : due'[g] = due[g]
      /\ f.by = "MEMORY" => due'[h] = d
  BY DEF Listed, With, InMemory
<1>3. AllSound'
  <2>1. \A g \in DOMAIN files : Sound(files[g], due'[g], DOMAIN disk')
    <3>1. TAKE g \in DOMAIN files
    <3>2. Sound(files[g], due[g], DOMAIN disk')  BY SoundStays
    <3>3. CASE g \in InMemory  BY <1>2, <3>2, <3>3
    <3>4. CASE g \notin InMemory
      BY <3>2, <3>4 DEF Sound, InMemory, MemoryFiles
    <3>5. QED  BY <3>3, <3>4
  <2>2. Sound(f, due'[h], DOMAIN disk')  BY <1>2 DEF Sound
  <2>3. QED  BY <1>1, <2>1, <2>2 DEF AllSound
<1>4. InMemory' = InMemory \cup (IF f.by = "MEMORY" THEN {h} ELSE {})
  BY <1>1 DEF InMemory
<1>5. due' = [g \in InMemory' |-> due'[g]]  BY <1>2, <1>4 DEF With, Listed
<1>6. table' = [g \in DOMAIN files' |-> files'[g].by]
  BY <1>1 DEF Listed, With
<1>7. QED  BY <1>1, <1>3, <1>5, <1>6 DEF Listed

LEMMA FileChanges ==
  ASSUME AllSound, Listed, NEW h \in DOMAIN files, NEW f, NEW d,
         files' = [files EXCEPT ![h] = f], UNCHANGED <<table, log>>,
         f.by = files[h].by,
         due' = IF f.by = "MEMORY" THEN [due EXCEPT ![h] = d] ELSE due,
         DOMAIN disk \subseteq DOMAIN disk', Sound(f, d, DOMAIN disk')
  PROVE  AllSound' /\ Listed'
<1>1. /\ DOMAIN files' = DOMAIN files /\ files'[h] = f
      /\ \A g \in DOMAIN files \ {h} : files'[g] = files[g]
      /\ \A g \in DOMAIN files : files'[g].by = files[g].by
  OBVIOUS
<1>2. /\ DOMAIN due = InMemory /\ InMemory' = InMemory
      /\ due' = [g \in InMemory |-> due'[g]]
      /\ \A g \in DOMAIN files \ {h} : due'[g] = due[g]
      /\ f.by = "MEMORY" => due'[h] = d
  BY <1>1 DEF Listed, InMemory
<1>3. AllSound'
  <2>1. \A g \in DOMAIN files \ {h} : Sound(files[g], due'[g], DOMAIN disk')
    BY <1>2, SoundStays
  <2>2. Sound(f, due'[h], DOMAIN disk')  BY <1>2 DEF Sound, MemoryFiles
  <2>3. QED  BY <1>1, <2>1, <2>2 DEF AllSound
<1>4. table' = [g \in DOMAIN files' |-> files'[g].by]  BY <1>1 DEF Listed
<1>5. QED  BY <1>1, <1>2, <1>3, <1>4 DEF Listed

LEMMA FileGoes ==
  ASSUME AllSound, Listed, NEW h \in DOMAIN files,
         files' = Without(files, h), table' = Without(table, h),
         due' = IF files[h].by = "MEMORY" THEN Without(due, h) ELSE due,
         log' = NoLog \/ (log' = log /\ log # h),
         DOMAIN disk \subseteq DOMAIN disk'
  PROVE  AllSound' /\ Listed'
<1>1. /\ DOMAIN files' = DOMAIN files \ {h}
      /\ \A g \in DOMAIN files \ {h} : files'[g] = files[g]
  BY DEF Without
<1>2. /\ DOMAIN due = InMemory /\ InMemory' = InMemory \ {h} /\ due' = [g \in InMemory' |-> due'[g]]
      /\ \A g \in InMemory \ {h} : due'[g] = due[g]
  BY <1>1 DEF Listed, InMemory, Without
<1>3. AllSound'
  <2>1. ASSUME NEW g \in DOMAIN files \ {h}  PROVE Sound(files[g], due'[g], DOMAIN disk')
    <3>1. Sound(files[g], due[g], DOMAIN disk')  BY SoundStays
    <3>2. CASE g \in InMemory  BY <1>2, <3>1, <3>2
    <3>3. CASE g \notin InMemory  BY <3>1, <3>3 DEF Sound, InMemory, MemoryFiles
    <3>4. QED  BY <3>2, <3>3
  <2>2. QED  BY <1>1, <2>1 DEF AllSound
<1>4. table' = [g \in DOMAIN files' |-> files'[g].by]  BY <1>1 DEF Listed, Without
<1>5. log' \in DOMAIN files' \cup {NoLog}  BY <1>1 DEF Listed
<1>6. QED  BY <1>1, <1>2, <1>3, <1>4, <1>5 DEF Listed

(* Where both change, the disk and what should be there change alike.      *)
LEMMA DiskChanges ==
  ASSUME DiskTyped, DiskExact, NEW path \in Paths, NEW data \in Data,
         NEW what \in {data, Shared},
         disk' = With(disk, path, data), saved' = With(saved, path, what)
  PROVE  DiskTyped' /\ DiskExact' /\ DOMAIN disk \subseteq DOMAIN disk'
<1>1. DOMAIN disk' = DOMAIN disk \cup {path} /\ DOMAIN saved' = DOMAIN saved \cup {path}
  BY DEF With
<1>2. \A p \in DOMAIN disk' : disk'[p] = IF p = path THEN data ELSE disk[p]
  BY DEF With
<1>3. \A p \in DOMAIN saved' : saved'[p] = IF p = path THEN what ELSE saved[p]
  BY DEF With
<1>4. DiskTyped'
  <2>1. disk' \in [DOMAIN disk' -> Data]  BY DEF With, DiskTyped
  <2>2. saved' \in [DOMAIN saved' -> Data \cup {Shared}]  BY DEF With, DiskTyped
  <2>3. QED  BY <1>1, <2>1, <2>2 DEF DiskTyped
<1>5. DiskExact'  BY <1>1, <1>2, <1>3 DEF DiskExact
<1>6. QED  BY <1>1, <1>4, <1>5

-----------------------------------------------------------------------------
(* The steps.                                                              *)

LEMMA OpenKeeps ==
  ASSUME IInv, mounted = MountOrder, UNCHANGED mounted,
         NEW h \in Handles, NEW where \in {"NATIVE", "MEMORY", "any"}, NEW path \in Paths,
         NEW mode \in {"read", "create"}, Open(h, where, path, mode, "up"),
         \/ UNCHANGED log
         \/ log' = h /\ where = "MEMORY" /\ mode = "create"
  PROVE  IInv'
<1> DEFINE by == Opener(where, path, mode)
<1>1. /\ by \in {"NATIVE", "MEMORY", "none", "overflow"}
      /\ by = "NATIVE" => NativeOpens(path, mode)
      /\ by = "MEMORY" /\ mode = "read" => path \in DOMAIN disk
      /\ by = "overflow" => mode = "read" /\ path \notin DOMAIN disk
      /\ log' # log => by = "MEMORY"
      /\ log' \in {log, h}
  BY OpenerIs DEF NativeOpens
<1>2. /\ h \notin DOMAIN files
      /\ fatal' = (IF by = "overflow" THEN Fatal("open", path, mode, h) ELSE fatal)
      /\ got' = Nothing /\ UNCHANGED readOnly
      /\ table' = IF by \in {"none", "overflow"} THEN table ELSE With(table, h, by)
      /\ stage' = IF by = "overflow" THEN "overflow" ELSE "up"
  BY DEF Open
<1>3. /\ AllSound /\ Listed /\ DiskTyped /\ DiskExact /\ Shape
  BY DEF IInv
<1>4. got'.bytes = got'.due  BY <1>2 DEF Nothing
<1>5. Shape' /\ OverrunOnlyPastEnd'
  BY <1>1, <1>2, <1>3 DEF Shape, Fatal, OverrunOnlyPastEnd
<1>6. CASE by = "NATIVE"
  <2> DEFINE f == NativeFile(path, mode)
  <2>1. /\ files' = With(files, h, f) /\ due' = due
        /\ IF mode = "create"
           THEN /\ disk' = With(disk, path, <<>>)
                /\ saved' = With(saved, path, IF BeingWritten(path) THEN Shared ELSE <<>>)
           ELSE UNCHANGED <<disk, saved>>
    BY <1>6 DEF Open
  <2>2. mode = "read" => path \in DOMAIN disk
    BY <1>1, <1>6 DEF NativeOpens
  <2>3. DiskTyped' /\ DiskExact' /\ DOMAIN disk \subseteq DOMAIN disk' /\ path \in DOMAIN disk'
    <3>1. CASE mode = "create"
      <4>1. <<>> \in Data  BY DEF Data
      <4>2. path \in DOMAIN disk'  BY <2>1, <3>1 DEF With
      <4>3. QED  BY <1>3, <2>1, <3>1, <4>1, <4>2, DiskChanges
    <3>2. CASE mode = "read"  BY <1>3, <2>1, <2>2, <3>2 DEF DiskTyped, DiskExact
    <3>3. QED  BY <3>1, <3>2
  <2>4. f \in NativeFiles /\ f.by = "NATIVE" /\ f.path = path
    BY DEF NativeFile, NativeFiles
  <2> HIDE DEF f
  <2>5. AllSound' /\ Listed'
    BY <1>1, <1>2, <1>3, <1>6, <2>1, <2>3, <2>4, FileComes
  <2>6. OverflowOnlyWithoutFile'  BY <1>2, <1>6 DEF OverflowOnlyWithoutFile
  <2>7. QED  BY <1>4, <1>5, <2>3, <2>5, <2>6 DEF IInv
<1>7. CASE by = "MEMORY"
  <2> DEFINE f == MemoryFile(path, mode)
             data == IF mode = "read" THEN disk[path] ELSE <<>>
             d == [data |-> data, pos |-> 0]
  <2>1. /\ UNCHANGED <<disk, saved>> /\ files' = With(files, h, f) /\ due' = With(due, h, d)
    BY <1>7 DEF Open
  <2>2. data \in Data
    BY <1>1, <1>3, <1>7 DEF Data, DiskTyped
  <2> HIDE DEF data
  <2>3. f \in MemoryFiles /\ Holds(f, d)
    BY <2>2, MemoryFileSound DEF data
  <2>4. f.by = "MEMORY"  BY <2>3 DEF MemoryFiles
  <2> HIDE DEF f, d
  <2>5. AllSound' /\ Listed'
    BY <1>1, <1>2, <1>3, <1>7, <2>1, <2>3, <2>4, FileComes DEF Sound
  <2>6. DiskTyped' /\ DiskExact'  BY <1>3, <2>1 DEF DiskTyped, DiskExact
  <2>7. OverflowOnlyWithoutFile'  BY <1>2, <1>7 DEF OverflowOnlyWithoutFile
  <2>8. QED  BY <1>4, <1>5, <2>5, <2>6, <2>7 DEF IInv
<1>8. CASE by \in {"none", "overflow"}
  <2>1. UNCHANGED <<disk, files, due, table, saved, log>>
    BY <1>1, <1>2, <1>8 DEF Open
  <2>2. OverflowOnlyWithoutFile'
    BY <1>1, <1>2, <1>8, <2>1 DEF OverflowOnlyWithoutFile, Fatal
  <2>3. QED
    BY <1>3, <1>4, <1>5, <2>1, <2>2
       DEF IInv, AllSound, Listed, InMemory, DiskTyped, DiskExact
<1>9. QED  BY <1>1, <1>6, <1>7, <1>8

(* A Write that leaves the buffer began past the end of the file.          *)
LEMMA OverrunIs ==
  ASSUME NEW f \in MemoryFiles, f.size <= f.max, NEW w \in Chunks,
         f.pos + Len(w) > Grown(f, Len(w))
  PROVE  f.pos > f.size
<1>1. Len(w) \in Nat  BY FileAssumption
<1>2. f.pos \in Int /\ f.size \in Nat  BY DEF MemoryFiles
<1>3. Grown(f, Len(w)) \in Nat /\ (f.pos <= f.size => f.pos + Len(w) <= Grown(f, Len(w)))
  BY <1>1, GrownIs
<1>4. QED  BY <1>1, <1>2, <1>3

LEMMA WriteKeeps ==
  ASSUME IInv, NEW h \in Handles, NEW w \in Chunks, Write(h, w)
  PROVE  IInv'
<1> DEFINE f == files[h]
           d == due[h]
<1>1. /\ h \in DOMAIN files /\ stage = "up" /\ got' = Nothing
      /\ UNCHANGED <<mounted, readOnly, table, log>>
      /\ f.by = "MEMORY" => WriteMemory(h, w)
      /\ f.by # "MEMORY" => WriteNative(h, w)
  BY DEF Write
<1>2. AllSound /\ Listed /\ DiskTyped /\ DiskExact /\ Shape  BY DEF IInv
<1>3. Sound(f, d, DOMAIN disk)  BY <1>1, <1>2 DEF AllSound
<1>4. w \in Seq(Bytes) /\ Len(w) \in Nat  BY FileAssumption
<1>5. got'.bytes = got'.due  BY <1>1 DEF Nothing
<1>6. ASSUME UNCHANGED <<stage, fatal>>
      PROVE  Shape' /\ OverflowOnlyWithoutFile' /\ OverrunOnlyPastEnd'
  BY <1>1, <1>2, <1>6 DEF Shape, OverflowOnlyWithoutFile, OverrunOnlyPastEnd
<1>7. ASSUME UNCHANGED <<stage, fatal, files, due, disk, saved>>  PROVE IInv'
  BY <1>1, <1>2, <1>5, <1>6, <1>7
     DEF IInv, AllSound, Listed, InMemory, DiskTyped, DiskExact
<1>8. CASE f.by = "MEMORY"
  <2>1. f \in MemoryFiles /\ Holds(f, d)  BY <1>3, <1>8 DEF Sound, NativeFiles
  <2>2. UNCHANGED <<disk, saved>>  BY <1>1, <1>8 DEF WriteMemory
  <2>3. DiskTyped' /\ DiskExact'  BY <1>2, <2>2 DEF DiskTyped, DiskExact
  <2>4. CASE f.pos < 0 /\ UNCHANGED <<stage, files, due, fatal>>
    BY <1>7, <2>2, <2>4
  <2>5. CASE /\ f.pos >= 0 /\ f.pos + Len(w) <= Grown(f, Len(w))
             /\ files' = [files EXCEPT ![h] = Written(f, w)]
             /\ due' = [due EXCEPT ![h] =
                         [data |-> Overwrite(@.data, @.pos, w), pos |-> @.pos + Len(w)]]
             /\ UNCHANGED <<stage, fatal>>
    <3> DEFINE f2 == Written(f, w)
               d2 == [data |-> Overwrite(d.data, d.pos, w), pos |-> d.pos + Len(w)]
    <3>1. f2 \in MemoryFiles /\ Holds(f2, d2)  BY <2>1, <2>5, WrittenSound
    <3>2. f2.by = "MEMORY"  BY <3>1 DEF MemoryFiles
    <3>3. files' = [files EXCEPT ![h] = f2] /\ due' = [due EXCEPT ![h] = d2]
      BY <2>5
    <3>4. Sound(f2, d2, DOMAIN disk')  BY <3>1 DEF Sound
    <3> HIDE DEF f2, d2
    <3>5. AllSound' /\ Listed'
      BY <1>1, <1>2, <1>8, <2>2, <3>2, <3>3, <3>4, FileChanges
    <3>6. QED  BY <1>5, <1>6, <2>3, <2>5, <3>5 DEF IInv
  <2>6. CASE /\ f.pos >= 0 /\ f.pos + Len(w) > Grown(f, Len(w))
             /\ stage' = "overrun" /\ fatal' = Fatal("write", f.path, f.mode, h)
             /\ UNCHANGED <<files, due>>
    <3>1. f.pos > f.size  BY <2>1, <2>6, OverrunIs DEF Holds
    <3>2. OverrunOnlyPastEnd'  BY <2>6, <3>1 DEF OverrunOnlyPastEnd, Fatal
    <3>3. f.path \in Paths  BY <2>1 DEF MemoryFiles
    <3>4. Shape' /\ OverflowOnlyWithoutFile'
      BY <1>1, <1>2, <2>6, <3>3 DEF Shape, Fatal, OverflowOnlyWithoutFile
    <3>5. QED
      BY <1>1, <1>2, <1>5, <2>2, <2>3, <2>6, <3>2, <3>4
         DEF IInv, AllSound, Listed, InMemory
  <2>7. QED  BY <1>1, <1>8, <2>4, <2>5, <2>6 DEF WriteMemory
<1>9. CASE f.by # "MEMORY" /\ ~Writing(f)
  BY <1>1, <1>7, <1>9 DEF WriteNative
<1>10. CASE f.by # "MEMORY" /\ Writing(f)
  <2>1. /\ UNCHANGED <<stage, due, fatal>>
        /\ files' = [files EXCEPT ![h].pos = @ + Len(w)]
        /\ disk' = [disk EXCEPT ![f.path] = Overwrite(@, f.pos, w)]
        /\ saved' = [saved EXCEPT ![f.path] =
                      IF @ = Shared THEN Shared ELSE Overwrite(@, f.pos, w)]
    BY <1>1, <1>10 DEF WriteNative
  <2>2. f \in NativeFiles /\ f.path \in DOMAIN disk  BY <1>3, <1>10 DEF Sound, MemoryFiles
  <2>3. f.pos \in Nat /\ f.path \in Paths  BY <2>2 DEF NativeFiles
  <2> DEFINE data == Overwrite(disk[f.path], f.pos, w)
             what == IF saved[f.path] = Shared THEN Shared ELSE Overwrite(saved[f.path], f.pos, w)
             to == f.pos + Len(w)
  <2>4. f.path \in DOMAIN saved /\ saved[f.path] \in {Shared, disk[f.path]}
    BY <1>2, <2>2 DEF DiskExact
  <2>5. what \in {data, Shared}  BY <2>4
  <2>6. data \in Data  BY <1>2, <1>4, <2>2, <2>3, OverwriteIs DEF DiskTyped
  <2>7. disk' = With(disk, f.path, data) /\ saved' = With(saved, f.path, what)
    <3>1. DOMAIN disk \cup {f.path} = DOMAIN disk /\ DOMAIN saved \cup {f.path} = DOMAIN saved
      BY <2>2, <2>4
    <3>2. disk' = [p \in DOMAIN disk |-> IF p = f.path THEN data ELSE disk[p]]
      BY <1>2, <2>1, <2>2 DEF DiskTyped
    <3>3. saved' = [p \in DOMAIN saved |-> IF p = f.path THEN what ELSE saved[p]]
      BY <1>2, <2>1, <2>4 DEF DiskTyped
    <3> HIDE DEF data, what
    <3>4. QED  BY <3>1, <3>2, <3>3 DEF With
  <2> HIDE DEF data, what
  <2>8. DiskTyped' /\ DiskExact' /\ DOMAIN disk \subseteq DOMAIN disk'
    BY <1>2, <2>3, <2>5, <2>6, <2>7, DiskChanges
  <2>9. to \in Nat  BY <1>4, <2>3
  <2>10. files' = [files EXCEPT ![h] = [f EXCEPT !.pos = to]]  BY <2>1
  <2>11. [f EXCEPT !.pos = to] \in NativeFiles
         /\ [f EXCEPT !.pos = to].path = f.path /\ [f EXCEPT !.pos = to].by = f.by
    BY <2>2, <2>9 DEF NativeFiles
  <2>12. Sound([f EXCEPT !.pos = to], d, DOMAIN disk')
    BY <2>2, <2>8, <2>11 DEF Sound
  <2>13. AllSound' /\ Listed'
    BY <1>1, <1>2, <1>10, <2>1, <2>8, <2>10, <2>11, <2>12, FileChanges
  <2>14. QED  BY <1>5, <1>6, <2>1, <2>8, <2>13 DEF IInv
<1>11. QED  BY <1>8, <1>9, <1>10

LEMMA MoveKeeps ==
  ASSUME IInv, NEW h \in DOMAIN files, NEW to \in Int,
         files[h].by = "NATIVE" => to \in Nat, stage = "up",
         files' = [files EXCEPT ![h].pos = to],
         due' = IF files[h].by = "MEMORY" THEN [due EXCEPT ![h].pos = to] ELSE due,
         UNCHANGED <<stage, mounted, disk, readOnly, table, log, saved, fatal>>,
         got'.bytes = got'.due
  PROVE  IInv'
<1> DEFINE f2 == [files[h] EXCEPT !.pos = to]
           d2 == [due[h] EXCEPT !.pos = to]
<1>1. AllSound /\ Listed /\ DiskTyped /\ DiskExact /\ Shape  BY DEF IInv
<1>2. Sound(files[h], due[h], DOMAIN disk)  BY <1>1 DEF AllSound
<1>3. Sound(f2, d2, DOMAIN disk) /\ f2.by = files[h].by
  BY <1>2, MovedSound
<1>4. /\ files' = [files EXCEPT ![h] = f2]
      /\ due' = IF f2.by = "MEMORY" THEN [due EXCEPT ![h] = d2] ELSE due
  BY <1>3
<1> HIDE DEF f2, d2
<1>5. AllSound' /\ Listed'
  BY <1>1, <1>3, <1>4, FileChanges
<1>6. DiskTyped' /\ DiskExact' /\ Shape' /\ OverflowOnlyWithoutFile' /\ OverrunOnlyPastEnd'
  BY <1>1 DEF DiskTyped, DiskExact, Shape, OverflowOnlyWithoutFile, OverrunOnlyPastEnd
<1>7. QED  BY <1>5, <1>6 DEF IInv

LEMMA SeekKeeps ==
  ASSUME IInv, NEW h \in Handles, Seek(h)
  PROVE  IInv'
<1> DEFINE f == files[h]
<1>1. PICK offset \in -MaxSize .. MaxSize, from \in {"SET", "CUR", "END"} :
        LET asked == Position(Size(f), f.pos, offset, from)
            at == IF f.by = "MEMORY" THEN asked ELSE IF offset >= 0 THEN offset ELSE f.pos
        IN /\ asked \in -1 .. MaxSize
           /\ files' = [files EXCEPT ![h].pos = at]
           /\ due' = IF f.by = "MEMORY" THEN [due EXCEPT ![h].pos = asked] ELSE due
  BY DEF Seek
<1> DEFINE asked == Position(Size(f), f.pos, offset, from)
           at == IF f.by = "MEMORY" THEN asked ELSE IF offset >= 0 THEN offset ELSE f.pos
<1>2. /\ stage = "up" /\ h \in DOMAIN files /\ got' = Nothing
      /\ UNCHANGED <<stage, mounted, disk, readOnly, table, log, saved, fatal>>
  BY DEF Seek
<1>3. Sound(f, due[h], DOMAIN disk)  BY <1>2 DEF IInv, AllSound
<1>4. asked \in Int /\ offset \in Int  BY <1>1, FileAssumption
<1> HIDE DEF asked
<1>5. at \in Int /\ (f.by = "NATIVE" => at \in Nat)
  <2>1. CASE f.by = "MEMORY"  BY <1>4, <2>1
  <2>2. CASE f.by # "MEMORY"
    <3>1. f.pos \in Nat  BY <1>3, <2>2 DEF Sound, NativeFiles, MemoryFiles
    <3>2. QED  BY <1>4, <2>2, <3>1
  <2>3. QED  BY <2>1, <2>2
<1>6. /\ files' = [files EXCEPT ![h].pos = at]
      /\ due' = IF f.by = "MEMORY" THEN [due EXCEPT ![h].pos = at] ELSE due
  BY <1>1 DEF asked
<1> HIDE DEF at
<1>7. got'.bytes = got'.due  BY <1>2 DEF Nothing
<1>8. QED  BY <1>2, <1>5, <1>6, <1>7, MoveKeeps

LEMMA ReadableIs ==
  ASSUME NEW size \in Nat, NEW pos \in Int, NEW n \in Nat
  PROVE  /\ Readable(size, pos, n) \in Nat
         /\ pos >= 0 /\ Readable(size, pos, n) # 0 => pos + Readable(size, pos, n) <= size
         /\ pos < 0 => Readable(size, pos, n) = 0
BY DEF Readable

(* The bytes read in memory are those an ordinary file would give.         *)
LEMMA ReadKeeps ==
  ASSUME IInv, NEW h \in Handles, NEW n \in 1 .. MaxSize + 1, Read(h, n)
  PROVE  IInv'
<1> DEFINE f == files[h]
           d == due[h]
           many == IF f.by = "MEMORY" THEN Readable(f.size, f.pos, n)
                   ELSE IF Writing(f) THEN 0 ELSE Readable(Len(disk[f.path]), f.pos, n)
           left == Readable(Len(d.data), d.pos, n)
           to == f.pos + many
<1>1. /\ h \in DOMAIN files /\ stage = "up"
      /\ files' = [files EXCEPT ![h].pos = @ + many]
      /\ UNCHANGED <<stage, mounted, disk, readOnly, table, log, saved, fatal>>
      /\ f.by # "MEMORY" => got' = Nothing /\ due' = due
      /\ f.by = "MEMORY" =>
           /\ got' = [bytes |-> Slice(f.buffer, f.pos, many),
                     due |-> Slice(d.data, d.pos, left)]
           /\ due' = [due EXCEPT ![h].pos = @ + left]
  BY DEF Read
<1>2. Sound(f, d, DOMAIN disk)  BY <1>1 DEF IInv, AllSound
<1>3. n \in Nat  BY FileAssumption
<1>4. files' = [files EXCEPT ![h].pos = to]  BY <1>1
<1>5. CASE f.by = "MEMORY"
  <2>1. f \in MemoryFiles /\ Holds(f, d)  BY <1>2, <1>5 DEF Sound, NativeFiles
  <2>2. /\ f.size \in Nat /\ f.max \in Nat /\ f.size <= f.max /\ f.pos \in Int
        /\ f.buffer \in Seq(Bytes \cup {Junk}) /\ Len(f.buffer) = f.max
        /\ d.data = SubSeq(f.buffer, 1, f.size) /\ d.pos = f.pos
    BY <2>1 DEF MemoryFiles, Holds, Data
  <2>3. Len(d.data) = f.size  BY <2>2
  <2>4. many = left  BY <1>5, <2>2, <2>3
  <2>5. many \in Nat /\ (f.pos >= 0 /\ many # 0 => f.pos + many <= f.size)
        /\ (f.pos < 0 => many = 0)
    BY <1>3, <1>5, <2>2, ReadableIs
  <2>6. to \in Int  BY <2>2, <2>5
  <2> HIDE DEF many, left
  <2>7. Slice(f.buffer, f.pos, many) = Slice(d.data, d.pos, left)
    <3>1. CASE many = 0
      <4>1. \A s : Slice(s, f.pos, 0) = <<>>  BY <2>2 DEF Slice
      <4>2. QED  BY <2>2, <2>4, <3>1, <4>1
    <3>2. CASE many # 0
      <4>1. f.pos \in Nat /\ f.pos + many <= f.size  BY <2>2, <2>5, <3>2
      <4>2. QED  BY <2>2, <2>4, <2>5, <4>1, SliceOfPart
    <3>3. QED  BY <3>1, <3>2
  <2>8. due' = [due EXCEPT ![h].pos = to]  BY <1>1, <1>5, <2>2, <2>4
  <2>9. got'.bytes = got'.due
    <3> DEFINE x == Slice(f.buffer, f.pos, many)
               y == Slice(d.data, d.pos, left)
    <3>1. got' = [bytes |-> x, due |-> y] /\ x = y  BY <1>1, <1>5, <2>7
    <3> HIDE DEF x, y
    <3>2. QED  BY <3>1
  <2>10. QED  BY <1>1, <1>4, <1>5, <2>6, <2>8, <2>9, MoveKeeps
<1>6. CASE f.by # "MEMORY"
  <2>1. f \in NativeFiles /\ f.path \in DOMAIN disk
    BY <1>2, <1>6 DEF Sound, MemoryFiles
  <2>2. f.pos \in Nat /\ disk[f.path] \in Data
    BY <2>1 DEF NativeFiles, IInv, DiskTyped
  <2> DEFINE size == Len(disk[f.path])
  <2>3. size \in Nat  BY <2>2 DEF Data
  <2>4. many \in Nat
    <3> HIDE DEF size
    <3>1. Readable(size, f.pos, n) \in Nat  BY <1>3, <2>2, <2>3, ReadableIs
    <3>2. many = 0 \/ many = Readable(size, f.pos, n)  BY <1>6 DEF size
    <3> HIDE DEF many
    <3>3. QED  BY <3>1, <3>2
  <2> HIDE DEF many
  <2>7. to \in Nat /\ to \in Int  BY <2>2, <2>4
  <2>5. got'.bytes = got'.due  BY <1>1, <1>6 DEF Nothing
  <2> HIDE DEF to
  <2>6. QED  BY <1>1, <1>4, <1>6, <2>7, <2>5, MoveKeeps
<1>7. QED  BY <1>5, <1>6

LEMMA CloseKeeps ==
  ASSUME IInv, mounted = MountOrder, UNCHANGED mounted, NEW h \in Handles,
         NEW next \in {"up", "closing"}, Close(h, next),
         \/ UNCHANGED log /\ h # log
         \/ log' = NoLog
  PROVE  IInv'
<1> DEFINE f == files[h]
           mode == IF f.mode = "create" THEN "create" ELSE "write"
           by == IF MustWriteBack(f) THEN Opener("any", f.path, mode) ELSE "none"
<1>1. /\ h \in DOMAIN files /\ got' = Nothing /\ UNCHANGED readOnly
  BY DEF Close
<1>2. AllSound /\ Listed /\ DiskTyped /\ DiskExact /\ Shape  BY DEF IInv
<1>3. Sound(f, due[h], DOMAIN disk)  BY <1>1, <1>2 DEF AllSound
<1>4. f.path \in Paths /\ f.mode \in {"read", "create"} /\ f.by \in {"NATIVE", "MEMORY"}
  BY <1>3 DEF Sound, NativeFiles, MemoryFiles
<1>5. got'.bytes = got'.due  BY <1>1 DEF Nothing
<1>6. MustWriteBack(f) =>
        /\ by = IF NativeOpens(f.path, mode) THEN "NATIVE" ELSE "MEMORY"
        /\ f.by = "MEMORY"
  BY <1>4, OpenerIs DEF MustWriteBack
<1>7. CASE by \in {"MEMORY", "overflow"}
  <2>1. /\ stage' = "overflow" /\ UNCHANGED <<disk, table, files, due, saved>>
        /\ fatal' = Fatal("close", f.path, f.mode, h)
    BY <1>7 DEF Close, fs
  <2>2. f.path \in readOnly \/ f.mode = "read"
    BY <1>4, <1>6, <1>7 DEF NativeOpens
  <2>3. OverflowOnlyWithoutFile' /\ OverrunOnlyPastEnd'
    BY <1>1, <2>1, <2>2 DEF OverflowOnlyWithoutFile, OverrunOnlyPastEnd, Fatal
  <2>4. Shape'  BY <1>1, <1>2, <1>4, <2>1 DEF Shape, Fatal
  <2>5. log' \in DOMAIN files \cup {NoLog}  BY <1>2 DEF Listed
  <2>6. QED
    BY <1>2, <1>5, <2>1, <2>3, <2>4, <2>5
       DEF IInv, AllSound, Listed, InMemory, DiskTyped, DiskExact
<1>8. CASE by \notin {"MEMORY", "overflow"}
  <2> DEFINE data == SubSeq(f.buffer, 1, f.size)
             kept == f.by = "MEMORY" /\ f.mode = "create" /\ f.dirty
  <2>1. /\ stage' = next /\ UNCHANGED fatal
        /\ disk' = IF by = "NATIVE" THEN With(disk, f.path, data) ELSE disk
        /\ table' = Without(table, h) /\ files' = Without(files, h)
        /\ due' = IF f.by = "MEMORY" THEN Without(due, h) ELSE due
        /\ saved' = IF kept
                    THEN With(saved, f.path,
                              IF BeingWritten(f.path) THEN Shared ELSE due[h].data)
                    ELSE saved
    BY <1>8 DEF Close, TableWithout
  <2>2. by = "NATIVE" <=> kept
    <3>1. CASE MustWriteBack(f)
      BY <1>4, <1>6, <1>8, <3>1 DEF MustWriteBack, NativeOpens
    <3>2. CASE ~MustWriteBack(f)  BY <3>2 DEF MustWriteBack
    <3>3. QED  BY <3>1, <3>2
  <2> HIDE DEF by
  <2>3. DiskTyped' /\ DiskExact' /\ DOMAIN disk \subseteq DOMAIN disk'
    <3>1. CASE kept
      <4>1. f \in MemoryFiles /\ Holds(f, due[h])  BY <1>3, <3>1 DEF Sound, NativeFiles
      <4>2. due[h].data = data
        <5>1. due[h] = [data |-> data, pos |-> f.pos]  BY <4>1 DEF Holds
        <5> HIDE DEF data
        <5>2. QED  BY <5>1
      <4>3. /\ f.size \in Nat /\ f.max \in Nat /\ f.size <= f.max
            /\ f.buffer \in Seq(Bytes \cup {Junk}) /\ Len(f.buffer) = f.max
        BY <4>1 DEF MemoryFiles, Holds, Data
      <4>4. data \in Data  BY <4>3 DEF Data
      <4> DEFINE what == IF BeingWritten(f.path) THEN Shared ELSE data
      <4>5. disk' = With(disk, f.path, data) /\ saved' = With(saved, f.path, what)
        BY <2>1, <2>2, <3>1, <4>2
      <4>6. what \in {data, Shared}  OBVIOUS
      <4> HIDE DEF data, what
      <4>7. QED  BY <1>2, <1>4, <4>4, <4>5, <4>6, DiskChanges
    <3>2. CASE ~kept  BY <1>2, <2>1, <2>2, <3>2 DEF DiskTyped, DiskExact
    <3>3. QED  BY <3>1, <3>2
  <2>4. AllSound' /\ Listed'
    BY <1>1, <1>2, <2>1, <2>3, FileGoes
  <2>5. Shape' /\ OverflowOnlyWithoutFile' /\ OverrunOnlyPastEnd'
    BY <1>1, <1>2, <2>1 DEF Shape, OverflowOnlyWithoutFile, OverrunOnlyPastEnd
  <2>6. QED  BY <1>5, <2>3, <2>4, <2>5 DEF IInv
<1>9. QED  BY <1>7, <1>8

LEMMA InitHolds == Init => IInv
<1> SUFFICES ASSUME Init PROVE IInv
  OBVIOUS
<1>1. PICK there \in SUBSET Paths : disk = [p \in there |-> <<>>] /\ saved = disk
  BY DEF Init
<1>2. <<>> \in Data  BY DEF Data
<1>3. DiskTyped /\ DiskExact
  <2>1. DOMAIN disk = there /\ disk \in [DOMAIN disk -> Data]  BY <1>1, <1>2
  <2>2. saved \in [DOMAIN saved -> Data \cup {Shared}]  BY <1>1, <2>1
  <2>3. QED  BY <1>1, <2>1, <2>2 DEF DiskTyped, DiskExact
<1>4. DOMAIN files = {} /\ due = [h \in {} |-> due[h]] /\ table = [h \in {} |-> files[h].by]
  BY DEF Init
<1>5. Listed /\ AllSound
  BY <1>4 DEF Listed, InMemory, AllSound, Init
<1>6. Shape  BY FileAssumption DEF Init, Shape, Fatal
<1>7. OverflowOnlyWithoutFile /\ OverrunOnlyPastEnd /\ got.bytes = got.due
  BY DEF Init, OverflowOnlyWithoutFile, OverrunOnlyPastEnd, Nothing
<1>8. QED  BY <1>3, <1>5, <1>6, <1>7 DEF IInv

LEMMA StepKeeps ==
  ASSUME IInv, [Next]_vars
  PROVE  IInv'
<1>1. stage \in {"mounted", "up"} => mounted = MountOrder  BY DEF IInv, Shape
<1>2. ASSUME UNCHANGED <<disk, readOnly, table, files, due, log, saved, got, fatal>>,
             \/ stage' \in {"down", "mounted", "closing", "up"}
             \/ UNCHANGED stage,
             mounted' \in {<<>>, MountOrder},
             stage' \in {"mounted", "up"} => mounted' = MountOrder
      PROVE  IInv'
  <2>1. Shape'  BY <1>2 DEF IInv, Shape
  <2>2. OverflowOnlyWithoutFile' /\ OverrunOnlyPastEnd'
    BY <1>2 DEF IInv, OverflowOnlyWithoutFile, OverrunOnlyPastEnd
  <2>3. QED
    BY <1>2, <2>1, <2>2 DEF IInv, AllSound, Listed, InMemory, DiskTyped, DiskExact
<1>3. CASE Mount  BY <1>2, <1>3 DEF Mount, fs
<1>4. CASE OpenLog
  <2>1. PICK h \in Handles : Open(h, "MEMORY", LogPath, "create", "up") /\ log' = h
    BY <1>4 DEF OpenLog
  <2>2. QED  BY <1>1, <1>4, <2>1, OpenKeeps, FileAssumption DEF OpenLog
<1>5. CASE CloseLog
  <2>1. log \in Handles  BY <1>5 DEF CloseLog, IInv, Listed
  <2>2. QED  BY <1>1, <1>5, <2>1, CloseKeeps DEF CloseLog
<1>6. CASE Unmount  BY <1>2, <1>6 DEF Unmount, fs
<1>7. ASSUME NEW h \in Handles, OpenFile(h)  PROVE IInv'
  <2>1. PICK where \in {"NATIVE", "MEMORY", "any"}, path \in Paths,
             mode \in {"read", "create"} : Open(h, where, path, mode, "up")
    BY <1>7 DEF OpenFile
  <2>2. QED  BY <1>1, <1>7, <2>1, OpenKeeps DEF OpenFile
<1>8. ASSUME NEW h \in Handles, CloseFile(h)  PROVE IInv'
  BY <1>1, <1>8, CloseKeeps DEF CloseFile
<1>9. ASSUME NEW h \in Handles, Seek(h)  PROVE IInv'  BY <1>9, SeekKeeps
<1>10. ASSUME NEW h \in Handles, NEW w \in Chunks, Write(h, w)  PROVE IInv'
  BY <1>10, WriteKeeps
<1>11. ASSUME NEW h \in Handles, NEW n \in 1 .. MaxSize + 1, Read(h, n)  PROVE IInv'
  BY <1>11, ReadKeeps
<1>12. CASE UNCHANGED vars
  <2>1. UNCHANGED <<disk, readOnly, table, files, due, log, saved, got, fatal, stage, mounted>>
    BY <1>12 DEF vars, fs
  <2>2. mounted' \in {<<>>, MountOrder} /\ (stage' \in {"mounted", "up"} => mounted' = MountOrder)
    BY <2>1 DEF IInv, Shape
  <2>3. QED  BY <1>2, <2>1, <2>2
<1>13. QED
  BY <1>3, <1>4, <1>5, <1>6, <1>7, <1>8, <1>9, <1>10, <1>11, <1>12 DEF Next

LEMMA Invariance == Spec => []IInv
<1>1. QED  BY InitHolds, StepKeeps, PTL DEF Spec

-----------------------------------------------------------------------------
(* The files, the table of the root and the disk keep their types          *)
(* (File.cpp, FileMemory.cpp).                                             *)
THEOREM FileTypes == Spec => []TypeOK
<1>1. IInv => TypeOK
  <2> SUFFICES ASSUME IInv PROVE TypeOK
    OBVIOUS
  <2>1. mounted \in Seq({"NATIVE", "MEMORY"})
    <3>1. <<"NATIVE", "MEMORY">> \in Seq({"NATIVE", "MEMORY"})  OBVIOUS
    <3>2. <<>> \in Seq({"NATIVE", "MEMORY"})  OBVIOUS
    <3>3. QED  BY <3>1, <3>2 DEF IInv, Shape, MountOrder
  <2>2. \A h \in DOMAIN files : files[h] \in NativeFiles \/ files[h] \in MemoryFiles
    BY DEF IInv, AllSound, Sound
  <2>3. due \in [InMemory -> [data : Data, pos : Int]]
    <3>1. ASSUME NEW h \in InMemory  PROVE due[h] \in [data : Data, pos : Int]
      <4>1. files[h] \in MemoryFiles /\ Holds(files[h], due[h])
        BY DEF InMemory, IInv, AllSound, Sound, NativeFiles
      <4>2. /\ files[h].size \in Nat /\ files[h].max \in Nat /\ files[h].size <= files[h].max
            /\ files[h].buffer \in Seq(Bytes \cup {Junk}) /\ files[h].pos \in Int
            /\ Len(files[h].buffer) = files[h].max
        BY <4>1 DEF MemoryFiles, Holds, Data
      <4>3. SubSeq(files[h].buffer, 1, files[h].size) \in Data  BY <4>2 DEF Data
      <4>4. QED  BY <4>1, <4>2, <4>3 DEF Holds
    <3>2. due = [h \in InMemory |-> due[h]]  BY DEF IInv, Listed
    <3>3. QED  BY <3>1, <3>2
  <2>4. QED  BY <2>1, <2>2, <2>3 DEF IInv, Shape, Listed, DiskTyped, TypeOK
<1>2. QED  BY <1>1, Invariance, PTL

(* A memory file is an ordinary file to its clients, through all growth    *)
(* and wherever they seek, and a write leaves the buffer only past the end *)
(* of the file (FileMemory::Read, Write, Seek).                            *)
THEOREM MemoryFilesExact == Spec => []FileExact
<1>1. IInv => FileExact
  <2> SUFFICES ASSUME IInv PROVE FileExact
    OBVIOUS
  <2>1. ASSUME NEW h \in InMemory  PROVE Holds(files[h], due[h])
    BY DEF InMemory, IInv, AllSound, Sound, NativeFiles
  <2>2. QED  BY <2>1 DEF IInv, FileExact, Holds
<1>2. QED  BY <1>1, Invariance, PTL

(* What was written is on disk once the file is closed                     *)
(* (FileMemory::Release, FS::CloseFile).                                   *)
THEOREM DiskHasWhatWasSaved == Spec => []DiskExact
<1>1. IInv => DiskExact  BY DEF IInv
<1>2. QED  BY <1>1, Invariance, PTL

(* The search of the root for itself goes on for ever only where nobody    *)
(* but the memory file system takes the path (FS::OpenFile).               *)
THEOREM SearchesEnd == Spec => []OverflowOnlyWithoutFile
<1>1. IInv => OverflowOnlyWithoutFile  BY DEF IInv
<1>2. QED  BY <1>1, Invariance, PTL
=============================================================================
