---------------------------- MODULE FileSystem ----------------------------
(***************************************************************************)
(* Core/File.cpp, FileNative.cpp, FileMemory.cpp, and the part of          *)
(* Application.cpp that mounts the two file systems and keeps the log.     *)
(*                                                                         *)
(* The root file system asks the mounted ones in order.  A memory file is  *)
(* read whole from another file when it is opened, and written to another  *)
(* one when it is closed: both go through the root again, whose list has   *)
(* the memory file system itself.  Text and binary modes are one; fopen    *)
(* and its relatives work on disk at once.  A program that runs out of     *)
(* stack, or writes past the end of a buffer, is followed no further.      *)
(***************************************************************************)
EXTENDS Integers, Sequences, FiniteSets

CONSTANTS
  Handles, NoLog,  \* FilePtr values, NULL
  Paths, LogPath,
  Bytes,
  Chunks,      \* what one Write may be given
  Junk,        \* what new memory holds, and the disk between the end of a file
               \* and a write past it
  Shared,      \* in place of bytes: those two native files wrote at once
  Block,       \* FileMemory::s_sBlockSize
  MaxSize      \* bound: bytes in a file, and the last position in it

ASSUME FileAssumption ==
  /\ NoLog \notin Handles /\ LogPath \in Paths /\ Junk \notin Bytes
  /\ Shared \notin Seq(Bytes \cup {Junk})
  /\ Block \in Nat \ {0} /\ Chunks \subseteq Seq(Bytes) \ {<<>>}
  /\ MaxSize \in Nat

VARIABLES
  stage,     \* "down", "mounted", "up", "closing" in the program's run, and where
             \* it is lost: "overflow" (of the stack), "overrun" (of a buffer)
  mounted,   \* FS::m_vSubFS of the root
  disk,      \* the files on disk, by path
  readOnly,  \* paths the disk does not let the program create
  table,     \* FS::m_mFiles of the root: who made each open file
  files,     \* the File objects
  log,       \* Application::m_pLog, or NoLog
  due,       \* what the client of each memory file should find: data, position
  saved,     \* what should be on disk under each path, or Shared
  got,       \* the bytes the last Read in memory gave, and those due
  fatal      \* the call that lost the program, and the file it was for

fs == <<table, files, due>>
vars == <<stage, mounted, disk, readOnly, fs, log, saved, got, fatal>>

Nothing == [bytes |-> <<>>, due |-> <<>>]

Larger(m, n) == IF m < n THEN n ELSE m

(* The bytes of s with w written from position pos on; past the end of s   *)
(* that leaves a gap, in which there may be anything.                      *)
Overwrite(s, pos, w) ==
  [i \in 1 .. Larger(Len(s), pos + Len(w)) |->
     IF i \in pos + 1 .. pos + Len(w) THEN w[i - pos]
     ELSE IF i <= Len(s) THEN s[i] ELSE Junk]

(* What a Read of n bytes gives at position pos of a file of that size.    *)
Readable(size, pos, n) ==
  IF pos < 0 THEN 0 ELSE IF pos + n <= size THEN n ELSE IF pos <= size THEN size - pos ELSE 0

Slice(s, pos, n) == SubSeq(s, pos + 1, pos + n)

With(f, x, v) == [y \in DOMAIN f \cup {x} |-> IF y = x THEN v ELSE f[y]]
Without(f, x) == [y \in DOMAIN f \ {x} |-> f[y]]
-----------------------------------------------------------------------------
(* Opening.                                                                *)

NativeOpens(path, mode) ==
  \/ mode = "read" /\ path \in DOMAIN disk
  \/ mode = "create" /\ path \notin readOnly

(* The first of the mounted file systems that opens the path, or "none".   *)
FirstToOpen(path, mode) ==
  LET takers == {i \in DOMAIN mounted : mounted[i] = "MEMORY" \/ NativeOpens(path, mode)}
  IN IF takers = {} THEN "none"
     ELSE mounted[CHOOSE i \in takers : \A j \in takers : i <= j]

(* Who opens the path when it is asked of NATIVE, of MEMORY, or of any:    *)
(* one of the two, "none", or "overflow".  To read, MEMORY opens the same  *)
(* path of any, before it has changed anything: if that search comes to    *)
(* MEMORY too, it comes there again, until the stack is used up.           *)
Opener(where, path, mode) ==
  LET first == FirstToOpen(path, mode)
  IN CASE where = "NATIVE" -> IF NativeOpens(path, mode) THEN "NATIVE" ELSE "none"
       [] where = "MEMORY" /\ mode # "read" -> "MEMORY"
       [] where = "any" /\ mode # "read" -> first
       [] where # "NATIVE" /\ mode = "read" /\ first = "MEMORY" -> "overflow"
       [] where = "MEMORY" /\ mode = "read" /\ first = "NATIVE" -> "MEMORY"
       [] OTHER -> first

(* A native file is being written under that path: what else is written    *)
(* there meanwhile is mixed with it, as the C library's buffers have it.   *)
Writing(f) == f.by = "NATIVE" /\ f.mode = "create"
BeingWritten(path) == \E h \in DOMAIN files : Writing(files[h]) /\ files[h].path = path

NativeFile(path, mode) == [by |-> "NATIVE", path |-> path, mode |-> mode, pos |-> 0]

RoomFor(size) == Block * (1 + size \div Block)

(* FileMemory::Create.                                                     *)
MemoryFile(path, mode) ==
  LET data == IF mode = "read" THEN disk[path] ELSE <<>>
      max == IF mode = "read" THEN RoomFor(Len(data)) ELSE 0
  IN [by |-> "MEMORY", path |-> path, mode |-> mode, pos |-> 0,
      max |-> max, size |-> Len(data), dirty |-> FALSE,
      buffer |-> [i \in 1 .. max |-> IF i <= Len(data) THEN data[i] ELSE Junk]]

Fatal(op, path, mode, h) == [op |-> op, path |-> path, mode |-> mode, file |-> h]

Open(h, where, path, mode, next) ==
  LET by == Opener(where, path, mode)
  IN /\ h \in Handles \ DOMAIN files
     /\ fatal' = IF by = "overflow" THEN Fatal("open", path, mode, h) ELSE fatal
     /\ got' = Nothing /\ UNCHANGED readOnly
     /\ \/ /\ by = "NATIVE"
           /\ files' = With(files, h, NativeFile(path, mode))
           /\ IF mode = "create"
              THEN /\ disk' = With(disk, path, <<>>)
                   /\ saved' = With(saved, path, IF BeingWritten(path) THEN Shared ELSE <<>>)
              ELSE UNCHANGED <<disk, saved>>
           /\ UNCHANGED due
        \/ /\ by = "MEMORY" /\ UNCHANGED <<disk, saved>>
           /\ files' = With(files, h, MemoryFile(path, mode))
           /\ due' = With(due, h, [data |-> IF mode = "read" THEN disk[path] ELSE <<>>, pos |-> 0])
        \/ by \in {"none", "overflow"} /\ UNCHANGED <<disk, saved, files, due>>
     /\ table' = IF by \in {"none", "overflow"} THEN table ELSE With(table, h, by)
     /\ stage' = IF by = "overflow" THEN "overflow" ELSE next

OpenFile(h) ==
  /\ stage = "up"
  /\ \E where \in {"NATIVE", "MEMORY", "any"}, path \in Paths, mode \in {"read", "create"} :
       Open(h, where, path, mode, "up")
  /\ UNCHANGED <<mounted, log>>
-----------------------------------------------------------------------------
(* Using a file.                                                           *)

(* The room a Write makes: enough for its bytes, wherever they go.         *)
Grown(f, n) ==
  IF f.max < Larger(f.size, f.pos + n) THEN f.max + Block * (1 + n \div Block) ELSE f.max

(* Mutant: the new buffer is not given the bytes of the old one.           *)
WrittenFresh(f, w) ==
  LET max == Grown(f, Len(w))
      old == [i \in 1 .. max |-> IF i <= f.size /\ max = f.max THEN f.buffer[i] ELSE Junk]
  IN [f EXCEPT !.buffer = [i \in 1 .. max |->
                 IF i \in f.pos + 1 .. f.pos + Len(w) THEN w[i - f.pos] ELSE old[i]],
               !.max = max, !.pos = @ + Len(w), !.dirty = TRUE,
               !.size = Larger(@, f.pos + Len(w))]

(* FileMemory::Write.                                                      *)
Written(f, w) ==
  LET max == Grown(f, Len(w))
      old == [i \in 1 .. max |-> IF max = f.max \/ i <= f.size THEN f.buffer[i] ELSE Junk]
  IN [f EXCEPT !.buffer = [i \in 1 .. max |->
                 IF i \in f.pos + 1 .. f.pos + Len(w) THEN w[i - f.pos] ELSE old[i]],
               !.max = max, !.pos = @ + Len(w), !.dirty = TRUE,
               !.size = Larger(@, f.pos + Len(w))]

(* Before the start of a memory file nothing is written; past its end, the *)
(* room made for the bytes may end before they do.                         *)
WriteMemory(h, w) ==
  LET f == files[h]
  IN /\ UNCHANGED <<disk, saved>>
     /\ \/ /\ f.pos < 0 /\ UNCHANGED <<stage, files, due, fatal>>
        \/ /\ f.pos >= 0 /\ f.pos + Len(w) <= Grown(f, Len(w))
           /\ files' = [files EXCEPT ![h] = Written(f, w)]
           /\ due' = [due EXCEPT ![h] =
                        [data |-> Overwrite(@.data, @.pos, w), pos |-> @.pos + Len(w)]]
           /\ UNCHANGED <<stage, fatal>>
        \/ /\ f.pos >= 0 /\ f.pos + Len(w) > Grown(f, Len(w))
           /\ stage' = "overrun" /\ fatal' = Fatal("write", f.path, f.mode, h)
           /\ UNCHANGED <<files, due>>

(* fwrite fails on a file opened for reading.                              *)
WriteNative(h, w) ==
  LET f == files[h]
  IN /\ UNCHANGED <<stage, due, fatal>>
     /\ IF Writing(f)
        THEN /\ files' = [files EXCEPT ![h].pos = @ + Len(w)]
             /\ disk' = [disk EXCEPT ![f.path] = Overwrite(@, f.pos, w)]
             /\ saved' = [saved EXCEPT ![f.path] =
                            IF @ = Shared THEN Shared ELSE Overwrite(@, f.pos, w)]
        ELSE UNCHANGED <<files, disk, saved>>

Write(h, w) ==
  /\ stage = "up" /\ got' = Nothing /\ h \in DOMAIN files
  /\ files[h].pos + Len(w) <= MaxSize
  /\ IF files[h].by = "MEMORY" THEN WriteMemory(h, w) ELSE WriteNative(h, w)
  /\ UNCHANGED <<mounted, readOnly, table, log>>

(* fread gives nothing of a file made for writing.  The log is only        *)
(* written.                                                                *)
Read(h, n) ==
  LET f == files[h]
      many == IF f.by = "MEMORY" THEN Readable(f.size, f.pos, n)
              ELSE IF Writing(f) THEN 0 ELSE Readable(Len(disk[f.path]), f.pos, n)
  IN /\ stage = "up" /\ h \in DOMAIN files \ {log}
     /\ files' = [files EXCEPT ![h].pos = @ + many]
     /\ IF f.by = "MEMORY"
        THEN LET d == due[h]
                 left == Readable(Len(d.data), d.pos, n)
             IN /\ got' = [bytes |-> Slice(f.buffer, f.pos, many),
                           due |-> Slice(d.data, d.pos, left)]
                /\ due' = [due EXCEPT ![h].pos = @ + left]
        ELSE got' = Nothing /\ UNCHANGED due
     /\ UNCHANGED <<stage, mounted, disk, readOnly, table, log, saved, fatal>>

(* File::ESeekMode.                                                        *)
Position(size, pos, offset, from) ==
  CASE from = "SET" -> offset [] from = "END" -> size + offset [] OTHER -> pos + offset

Size(f) == IF f.by = "MEMORY" THEN f.size ELSE Len(disk[f.path])

(* FileMemory::Seek goes where it is told, before the start or past the    *)
(* end of the file; FileNative::Seek counts every offset from the start,   *)
(* and fseek goes nowhere before it.                                       *)
Seek(h) ==
  /\ stage = "up" /\ got' = Nothing /\ h \in DOMAIN files \ {log}
  /\ \E offset \in -MaxSize .. MaxSize, from \in {"SET", "CUR", "END"} :
       LET f == files[h]
           asked == Position(Size(f), f.pos, offset, from)
           at == IF f.by = "MEMORY" THEN asked ELSE IF offset >= 0 THEN offset ELSE f.pos
       IN /\ asked \in -1 .. MaxSize
          /\ files' = [files EXCEPT ![h].pos = at]
          /\ due' = IF f.by = "MEMORY" THEN [due EXCEPT ![h].pos = asked] ELSE due
  /\ UNCHANGED <<stage, mounted, disk, readOnly, table, log, saved, fatal>>
-----------------------------------------------------------------------------
(* Closing.                                                                *)

(* Mutant: a memory file is written back only if it grew.                  *)
MustWriteBackGrown(f) == f.by = "MEMORY" /\ f.dirty /\ f.max > Block

MustWriteBack(f) == f.by = "MEMORY" /\ f.dirty

(* Mutant: the root forgets to erase the entry of a closed file.           *)
TableKept(h) == table

TableWithout(h) == Without(table, h)

(* FileMemory::Release opens the path for writing, of any; a file that was *)
(* made for reading asks for a mode no native file has.  If MEMORY answers *)
(* the new file is written, closed, and asks again, without end.           *)
Close(h, next) ==
  LET f == files[h]
      by == IF MustWriteBack(f)
            THEN Opener("any", f.path, IF f.mode = "create" THEN "create" ELSE "write") ELSE "none"
  IN /\ h \in DOMAIN files
     /\ got' = Nothing /\ UNCHANGED readOnly
     /\ IF by \in {"MEMORY", "overflow"}
        THEN /\ stage' = "overflow" /\ UNCHANGED <<disk, fs, saved>>
             /\ fatal' = Fatal("close", f.path, f.mode, h)
        ELSE /\ stage' = next /\ UNCHANGED fatal
             /\ disk' = IF by = "NATIVE" THEN With(disk, f.path, SubSeq(f.buffer, 1, f.size)) ELSE disk
             /\ table' = TableWithout(h)
             /\ files' = Without(files, h)
             /\ due' = IF f.by = "MEMORY" THEN Without(due, h) ELSE due
             /\ saved' = IF f.by = "MEMORY" /\ f.mode = "create" /\ f.dirty
                         THEN With(saved, f.path, IF BeingWritten(f.path) THEN Shared ELSE due[h].data)
                         ELSE saved

CloseFile(h) ==
  /\ stage = "up" /\ h # log
  /\ Close(h, "up")
  /\ UNCHANGED <<mounted, log>>
-----------------------------------------------------------------------------
(* The program.                                                            *)

(* Mutant: the memory file system is mounted first.                        *)
MountOrderSwapped == <<"MEMORY", "NATIVE">>

MountOrder == <<"NATIVE", "MEMORY">>

Init ==
  /\ stage = "down" /\ mounted = <<>> /\ log = NoLog
  /\ readOnly \in SUBSET Paths
  /\ \E there \in SUBSET Paths : disk = [p \in there |-> <<>>] /\ saved = disk
  /\ table = <<>> /\ files = <<>> /\ due = <<>>
  /\ got = Nothing
  /\ fatal = Fatal("none", LogPath, "read", NoLog)

(* Application::Create mounts both and opens the log.                      *)
Mount ==
  /\ stage = "down"
  /\ mounted' = MountOrder /\ stage' = "mounted"
  /\ UNCHANGED <<disk, readOnly, fs, log, saved, got, fatal>>

OpenLog ==
  /\ stage = "mounted"
  /\ \E h \in Handles : Open(h, "MEMORY", LogPath, "create", "up") /\ log' = h
  /\ UNCHANGED mounted

(* Application::Release, when the files of its parts are closed.           *)
CloseLog ==
  /\ stage = "up" /\ DOMAIN files = {log}
  /\ Close(log, "closing")
  /\ log' = NoLog
  /\ UNCHANGED mounted

Unmount ==
  /\ stage = "closing"
  /\ mounted' = <<>> /\ stage' = "down"
  /\ UNCHANGED <<disk, readOnly, fs, log, saved, got, fatal>>

Next ==
  \/ Mount \/ OpenLog \/ CloseLog \/ Unmount
  \/ \E h \in Handles :
       \/ OpenFile(h) \/ CloseFile(h) \/ Seek(h)
       \/ \E w \in Chunks : Write(h, w)
       \/ \E n \in 1 .. MaxSize + 1 : Read(h, n)

Spec == Init /\ [][Next]_vars
-----------------------------------------------------------------------------
(* Properties.                                                             *)

Data == Seq(Bytes \cup {Junk})

NativeFiles ==
  [by : {"NATIVE"}, path : Paths, mode : {"read", "create"}, pos : Nat]

MemoryFiles ==
  {f \in [by : {"MEMORY"}, path : Paths, mode : {"read", "create"}, pos : Int,
          max : Nat, size : Nat, dirty : BOOLEAN, buffer : Data] :
     Len(f.buffer) = f.max}

InMemory == {h \in DOMAIN files : files[h].by = "MEMORY"}

(* The variables have their types; the root's table has exactly the open   *)
(* files, each under the file system that made it.                         *)
TypeOK ==
  /\ stage \in {"down", "mounted", "up", "closing", "overflow", "overrun"}
  /\ mounted \in Seq({"NATIVE", "MEMORY"}) /\ readOnly \subseteq Paths
  /\ DOMAIN disk \subseteq Paths /\ disk \in [DOMAIN disk -> Data]
  /\ DOMAIN saved \subseteq Paths /\ saved \in [DOMAIN saved -> Data \cup {Shared}]
  /\ DOMAIN files \subseteq Handles
  /\ \A h \in DOMAIN files : files[h] \in NativeFiles \/ files[h] \in MemoryFiles
  /\ table = [h \in DOMAIN files |-> files[h].by]
  /\ due \in [InMemory -> [data : Data, pos : Int]]
  /\ log \in DOMAIN files \cup {NoLog}
  /\ fatal.path \in Paths

(* A Write leaves the buffer only when it begins past the end of the file: *)
(* from its end, or from within, the room made is always enough, whatever  *)
(* the block and however much is written (FileMemory::Write).              *)
OverrunOnlyPastEnd ==
  stage = "overrun" => files[fatal.file].pos > files[fatal.file].size

(* A memory file, through all its reallocations and wherever its client    *)
(* seeks, holds in its buffer the bytes an ordinary file would, at the     *)
(* same position, and the last Read gave those; no Write leaves the buffer *)
(* but one past the end of the file (FileMemory::Read, Write, Seek).       *)
FileExact ==
  /\ \A h \in InMemory :
       /\ files[h].size <= files[h].max
       /\ due[h] = [data |-> SubSeq(files[h].buffer, 1, files[h].size), pos |-> files[h].pos]
  /\ got.bytes = got.due
  /\ OverrunOnlyPastEnd

(* Every path is on disk as the last to write it left it, a memory file    *)
(* writing when it is closed, and the log of earlier runs of the program   *)
(* included: no file is lost or stale because it was written in memory,    *)
(* though the path is open twice (FileMemory::Release).  Of a path that a  *)
(* native file was writing when another wrote it, nothing is said.         *)
DiskExact ==
  /\ DOMAIN disk = DOMAIN saved
  /\ \A p \in DOMAIN disk : saved[p] \in {Shared, disk[p]}

(* The program runs out of stack in no other case than these three: it     *)
(* opens a file for reading that is not there, it closes a file written in *)
(* memory whose path the disk refuses, or one that was opened for reading  *)
(* (FS::OpenFile, whose search ends in the memory file system, which       *)
(* searches again).                                                        *)
OverflowOnlyWithoutFile ==
  stage = "overflow" =>
    \/ fatal.op = "open" /\ fatal.mode = "read" /\ fatal.path \notin DOMAIN disk
    \/ fatal.op = "close" /\ (fatal.path \in readOnly \/ fatal.mode = "read")

=============================================================================
