-------------------------------- MODULE Files --------------------------------
(***************************************************************************)
(* koss:node/fs over koss:io, koss:internal/fs and the natives             *)
(* __koss_fs_* and __koss_fd_*: calls on paths, the descriptor table of    *)
(* the instance, calls answered later through a callback, and the streams  *)
(* of createReadStream and createWriteStream.  Of a file's content the     *)
(* model keeps the number of its chunks of 65536 bytes.  The file system   *)
(* of the host is external: a call on it may fail.                         *)
(***************************************************************************)
EXTENDS Integers, Sequences, FiniteSets

CONSTANTS
  Path, Root, Parent,   \* Parent[p]: the directory of p, Root or a path
  Given, GivenChunks,   \* the file there is at first, of so many chunks
  MaxOpen,              \* MAX_OPEN_FILES
  MaxFd,                \* bound: descriptors given out
  MaxChunks,            \* bound: a call that makes a file longer makes it so long
  Deferred,             \* bound: the calls on paths made with a callback
  MaxLater              \* bound: calls waiting for their callback

Absent == 0
Directory == -1
Fd == 1 .. MaxFd
Inode == 1 .. Cardinality(Path) + MaxFd + 1   \* always one more than are in use

VARIABLES
  fs,        \* at: what a path names, length: the files' lengths, and FileState:
             \*   files: the descriptor table, nextFd
  own,       \* descriptors the script has opened and not closed
  closed,    \* history: descriptors closed, by the script or a stream
  readers,   \* read streams, by descriptor
  writers,   \* write streams, by descriptor
  later      \* calls with a callback, queued by nextTick

vars == <<fs, own, closed, readers, writers, later>>

Bit(n, b) == (n \div b) % 2 = 1

(* _flagStringToInt: "r", "r+", "w", "w+", "a", "a+", "ax", "ax+", "wx", "wx+" *)
Flags == {0, 2, 577, 578, 1025, 1090, 1153, 1218, 705, 706}

Max2(a, b) == IF a > b THEN a ELSE b

-----------------------------------------------------------------------------
(* What the natives do to the file system: an outcome is the state after    *)
(* the call, whether it succeeded, and the number it returned.              *)

Done(s) == [s |-> s, ok |-> TRUE, value |-> 0]
Gives(s, v) == [s |-> s, ok |-> TRUE, value |-> v]
Fails(s) == [s |-> s, ok |-> FALSE, value |-> 0]

Exists(s, p) == s.at[p] # Absent
IsFile(s, p) == s.at[p] > 0
Length(s, p) == IF IsFile(s, p) THEN s.length[s.at[p]] ELSE 0
List(s, p) == {q \in Path : Parent[q] = p /\ Exists(s, q)}
Reachable(s, p) == Parent[p] = Root \/ s.at[Parent[p]] = Directory
CanHold(s, p) == Reachable(s, p) /\ s.at[p] # Directory

InUse(s, i) == (\E p \in Path : s.at[p] = i) \/ (\E f \in DOMAIN s.files : s.files[f].inode = i)
Tidy(s) == [s EXCEPT !.length = [i \in Inode |-> IF InUse(s, i) THEN @[i] ELSE 0]]

Put(s, p, n) ==
  LET i == IF IsFile(s, p) THEN s.at[p]
           ELSE CHOOSE j \in Inode : ~InUse(s, j)
  IN [s EXCEPT !.at[p] = i, !.length[i] = n]

(* An empty file is read as an empty string, which the shim takes for a     *)
(* failure.                                                                 *)
ReadFile(s, p) == IF Length(s, p) = 0 THEN Fails(s) ELSE Gives(s, Length(s, p))

WriteFile(s, p, n) ==
  IF CanHold(s, p) THEN {Done(Put(s, p, n)), Fails(Put(s, p, 0))} ELSE {Fails(s)}

AppendFile(s, p) ==
  IF CanHold(s, p)
  THEN {Done(Put(s, p, Length(s, p) + 1)), Fails(Put(s, p, Length(s, p)))}
  ELSE {Fails(s)}

(* truncate to more than nothing reads the file and writes it again.        *)
Truncate(s, p, n) ==
  IF n > 0 /\ ~ReadFile(s, p).ok THEN {Fails(s)}
  ELSE WriteFile(s, p, IF n < Length(s, p) THEN n ELSE Length(s, p))

Unlink(s, p) ==
  IF IsFile(s, p) \/ (Exists(s, p) /\ List(s, p) = {})
  THEN {Done(Tidy([s EXCEPT !.at[p] = Absent])), Fails(s)}
  ELSE {Fails(s)}

(* rm with recursive swallows every failure: what could not be removed and  *)
(* its directory stay, and the caller is not told.                          *)
RemoveAll(s, p) ==
  {Done(Tidy([s EXCEPT !.at = [q \in Path |->
           IF (q = p \/ Parent[q] = p) /\ q \notin stuck THEN Absent ELSE @[q]]])) :
     stuck \in {t \in SUBSET ({p} \cup List(s, p)) : t # {} => p \in t}}

Mkdir(s, p, recursive) ==
  LET up == Parent[p]
      made == [s EXCEPT !.at[p] = Directory]
  IN IF recursive /\ s.at[p] = Directory THEN {Done(s)}
     ELSE IF Exists(s, p) THEN {Fails(s)}
     ELSE IF Reachable(s, p) THEN {Done(made), Fails(s)}
     ELSE IF recursive /\ ~Exists(s, up) THEN {Done([made EXCEPT !.at[up] = Directory]), Fails(s)}
     ELSE {Fails(s)}

(* The model renames a directory only when it is empty.                     *)
Rename(s, p, q) ==
  LET moved == Tidy([s EXCEPT !.at[q] = s.at[p], !.at[p] = Absent])
      fits == \/ IsFile(s, p) /\ CanHold(s, q)
              \/ /\ s.at[p] = Directory /\ List(s, p) = {} /\ List(s, q) = {}
                 /\ Reachable(s, q) /\ ~IsFile(s, q) /\ Parent[q] # p
  IN IF p = q /\ Exists(s, p) THEN {Done(s)}
     ELSE IF fits THEN {Done(moved), Fails(s)}
     ELSE {Fails(s)}

(* Copied onto itself a file is emptied: it is opened again for writing.    *)
Copy(s, p, q) ==
  IF IsFile(s, p) /\ CanHold(s, q)
  THEN {Done(Put(s, q, IF p = q THEN 0 ELSE Length(s, p))), Fails(s)}
  ELSE {Fails(s)}

(* Mistake: the lowest number that is free. *)
NextFdLowest(s) == CHOOSE f \in 1 .. MaxFd + 1 :
  f \notin DOMAIN s.files /\ \A g \in 1 .. f - 1 : g \in DOMAIN s.files

NextFd(s) == s.nextFd

(* OpenOptions refuses some combinations; the limit is looked at after the  *)
(* file has been opened, created or emptied.                                *)
Open(s, p, n) ==
  LET write == n % 4 \in {1, 2}
      append == Bit(n, 1024)
      create == Bit(n, 64)
      new == Bit(n, 128)
      truncate == Bit(n, 512) /\ ~new
      allowed == /\ n % 4 # 3 \/ append
                 /\ write \/ append \/ ~(Bit(n, 512) \/ create \/ new)
                 /\ ~(append /\ truncate)
      found == IF s.at[p] = Directory THEN n % 4 = 0 /\ ~new
               ELSE IF IsFile(s, p) THEN ~new
               ELSE CanHold(s, p) /\ (create \/ new)
      opened == IF s.at[p] = Directory THEN s
                ELSE Put(s, p, IF truncate THEN 0 ELSE Length(s, p))
      entry == [inode |-> opened.at[p], pos |-> 0, read |-> n % 4 \in {0, 2},
                write |-> write \/ append, append |-> append]
  IN IF ~(allowed /\ found) THEN {Fails(s)}
     ELSE IF Cardinality(DOMAIN s.files) >= MaxOpen THEN {Fails(opened), Fails(s)}
     ELSE {Gives([opened EXCEPT !.nextFd = NextFd(s) + 1,
                    !.files = [f \in DOMAIN @ \cup {NextFd(s)} |->
                                 IF f = NextFd(s) THEN entry ELSE @[f]]], NextFd(s)),
           Fails(s)}

(* One chunk is read, or nothing at the end of the file.                    *)
ReadFd(s, fd) ==
  IF fd \notin DOMAIN s.files THEN {Fails(s)}
  ELSE LET e == s.files[fd]
       IN IF ~e.read \/ e.inode = Directory THEN {Fails(s)}
          ELSE IF e.pos >= s.length[e.inode] THEN {Done(s), Fails(s)}
          ELSE {Gives([s EXCEPT !.files[fd].pos = @ + 1], e.pos + 1), Fails(s)}

WriteFd(s, fd) ==
  IF fd \notin DOMAIN s.files \/ ~s.files[fd].write THEN {Fails(s)}
  ELSE LET e == s.files[fd]
           pos == IF e.append THEN s.length[e.inode] ELSE e.pos
       IN {Done([s EXCEPT !.files[fd].pos = pos + 1,
                          !.length[e.inode] = Max2(@, pos + 1)]), Fails(s)}

(* The shim does not look at what ftruncate answers.                        *)
TruncateFd(s, fd, n) ==
  IF fd \notin DOMAIN s.files THEN {Fails(s)}
  ELSE IF ~s.files[fd].write THEN {Done(s)}
  ELSE {Done(s), Done([s EXCEPT !.length[s.files[fd].inode] = n])}

CloseFd(s, fd) == Tidy([s EXCEPT !.files = [f \in DOMAIN @ \ {fd} |-> @[f]]])

-----------------------------------------------------------------------------
(* The script's calls on paths that change something.                       *)

PathOps ==
  [do : {"unlink", "rm", "mkdir", "mkdirp", "write", "append"}, p : Path, q : {Root}, n : {0}]
    \cup [do : {"truncate"}, p : Path, q : {Root}, n : {0, 1}]
    \cup [do : {"rename", "copy"}, p : Path, q : Path, n : {0}]

Within(outcomes) ==
  {o \in outcomes : \A i \in Inode : o.s.length[i] <= Max2(fs.length[i], MaxChunks)}

Outcomes(s, op) ==
  CASE op.do = "write" -> WriteFile(s, op.p, 1)
    [] op.do = "append" -> Within(AppendFile(s, op.p))
    [] op.do = "truncate" -> Truncate(s, op.p, op.n)
    [] op.do = "unlink" -> Unlink(s, op.p)
    [] op.do = "rm" -> RemoveAll(s, op.p)
    [] op.do = "mkdir" -> Mkdir(s, op.p, FALSE)
    [] op.do = "mkdirp" -> Mkdir(s, op.p, TRUE)
    [] op.do = "rename" -> Rename(s, op.p, op.q)
    [] op.do = "copy" -> Copy(s, op.p, op.q)

Init ==
  /\ fs = [at |-> [p \in Path |-> IF p = Given THEN 1 ELSE Absent],
           length |-> [i \in Inode |-> IF i = 1 THEN GivenChunks ELSE 0],
           files |-> [f \in {} |-> 0], nextFd |-> 1]
  /\ own = {} /\ closed = {}
  /\ readers = [f \in {} |-> 0] /\ writers = [f \in {} |-> 0]
  /\ later = <<>>

CallSync ==
  /\ fs' \in {o.s : o \in UNION {Outcomes(fs, op) : op \in PathOps}} \ {fs}
  /\ UNCHANGED <<own, closed, readers, writers, later>>

CallLater ==
  /\ Len(later) < MaxLater
  /\ \E op \in PathOps : op.do \in Deferred /\ later' = Append(later, op)
  /\ UNCHANGED <<fs, own, closed, readers, writers>>

(* callAsync: the call is made when the callback is due, on the files as    *)
(* they are then.                                                           *)
RunLater ==
  /\ later # <<>>
  /\ \E o \in Outcomes(fs, Head(later)) : fs' = o.s
  /\ later' = Tail(later)
  /\ UNCHANGED <<own, closed, readers, writers>>

-----------------------------------------------------------------------------
(* The script's calls on descriptors: its own, also after it closed them.   *)

Known == own \cup (closed \ (DOMAIN readers \cup DOMAIN writers))

CanOpen == fs.nextFd <= MaxFd \/ Cardinality(DOMAIN fs.files) >= MaxOpen    \* bound

OpenSync ==
  \E o \in UNION {Open(fs, p, n) : p \in Path, n \in Flags} :
    /\ CanOpen
    /\ fs' = o.s
    /\ own' = own \cup {fd \in {NextFd(fs)} : o.ok}
    /\ UNCHANGED <<closed, readers, writers, later>>

ReadSync ==
  \E fd \in Known : \E o \in ReadFd(fs, fd) :
    fs' = o.s /\ UNCHANGED <<own, closed, readers, writers, later>>

WriteSync ==
  \E fd \in Known : \E o \in Within(WriteFd(fs, fd)) :
    fs' = o.s /\ UNCHANGED <<own, closed, readers, writers, later>>

TruncateSync ==
  \E fd \in Known, len \in {0, 1} : \E o \in TruncateFd(fs, fd, len) :
    fs' = o.s /\ UNCHANGED <<own, closed, readers, writers, later>>

CloseSync ==
  \E fd \in Known :
    /\ fs' = CloseFd(fs, fd)
    /\ own' = own \ {fd} /\ closed' = closed \cup {fd}
    /\ UNCHANGED <<readers, writers, later>>

-----------------------------------------------------------------------------
(* Streams.  got: the chunks read from a read stream, with their positions.  *)

CreateReadStream ==
  \E p \in Path : \E o \in Open(fs, p, 0) :
    /\ CanOpen
    /\ fs' = o.s
    /\ readers' = IF ~o.ok THEN readers
                  ELSE [f \in DOMAIN readers \cup {NextFd(fs)} |->
                          IF f # NextFd(fs) THEN readers[f]
                          ELSE [buffer |-> <<>>, got |-> <<>>, over |-> FALSE]]
    /\ UNCHANGED <<own, closed, writers, later>>

(* read() of the stream: what is buffered, or the read function given to    *)
(* it, which reads a chunk to see whether there is one, reads the next and  *)
(* pushes only that.                                                        *)
SecondRead(o, fd) == IF o.ok /\ o.value # 0 THEN ReadFd(o.s, fd) ELSE {o}

ReadBuffered(fd) ==
  /\ readers[fd].buffer # <<>>
  /\ readers' = [readers EXCEPT ![fd].got = Append(@, Head(readers[fd].buffer)),
                                ![fd].buffer = Tail(@)]
  /\ UNCHANGED <<fs, closed>>

ReadMore(fd) ==
  /\ readers[fd].buffer = <<>>
  /\ \E first \in ReadFd(fs, fd) : \E o \in SecondRead(first, fd) :
       \/ /\ o.ok /\ o.value # 0
          /\ fs' = o.s
          /\ readers' = [readers EXCEPT ![fd].buffer = Append(@, o.value)]
          /\ UNCHANGED closed
       \/ /\ o.ok => o.value = 0     \* the end, or an error
          /\ fs' = CloseFd(o.s, fd)
          /\ closed' = closed \cup {fd}
          /\ readers' = [readers EXCEPT ![fd].over = TRUE]

ReaderRead ==
  /\ \E fd \in DOMAIN readers : ReadBuffered(fd) \/ ReadMore(fd)
  /\ UNCHANGED <<own, writers, later>>

CreateWriteStream ==
  \E p \in Path, n \in {577, 1025} : \E o \in Open(fs, p, n) :
    /\ CanOpen
    /\ fs' = o.s
    /\ writers' = IF ~o.ok THEN writers
                  ELSE [f \in DOMAIN writers \cup {NextFd(fs)} |->
                          IF f = NextFd(fs) THEN "open" ELSE writers[f]]
    /\ UNCHANGED <<own, closed, readers, later>>

(* A failed write is told to its own callback; the stream emits no error.   *)
WriterWrite ==
  \E fd \in DOMAIN writers :
    /\ writers[fd] = "open"
    /\ \E o \in Within(WriteFd(fs, fd)) : fs' = o.s
    /\ UNCHANGED <<own, closed, readers, writers, later>>

(* end() emits finish.  The final function given to the stream, which would *)
(* close the descriptor, is an option Writable does not know.               *)
WriterEnd ==
  \E fd \in DOMAIN writers :
    /\ writers[fd] = "open"
    /\ writers' = [writers EXCEPT ![fd] = "finished"]
    /\ UNCHANGED <<fs, own, closed, readers, later>>

(* destroy() with an error emits it, and its listener closes.               *)
WriterDestroy ==
  \E fd \in DOMAIN writers, error \in BOOLEAN :
    /\ writers[fd] \in {"open", "finished"}
    /\ writers' = [writers EXCEPT ![fd] = IF error THEN "failed" ELSE "destroyed"]
    /\ fs' = IF error THEN CloseFd(fs, fd) ELSE fs
    /\ closed' = IF error THEN closed \cup {fd} ELSE closed
    /\ UNCHANGED <<own, readers, later>>

Next ==
  \/ CallSync \/ CallLater \/ RunLater
  \/ OpenSync \/ ReadSync \/ WriteSync \/ TruncateSync \/ CloseSync
  \/ CreateReadStream \/ ReaderRead
  \/ CreateWriteStream \/ WriterWrite \/ WriterEnd \/ WriterDestroy

Spec == Init /\ [][Next]_vars

-----------------------------------------------------------------------------
TypeOK ==
  /\ fs.at \in [Path -> {Absent, Directory} \cup Inode]
  /\ fs.length \in [Inode -> 0 .. Max2(GivenChunks, MaxChunks)]
  /\ DOMAIN fs.files \subseteq Fd /\ Cardinality(DOMAIN fs.files) <= MaxOpen
  /\ \A f \in DOMAIN fs.files : fs.files[f].pos \in Nat /\ fs.files[f].inode \in Inode \cup {Directory}
  /\ fs.nextFd \in 1 .. MaxFd + 1
  /\ own \subseteq Fd /\ closed \subseteq Fd
  /\ DOMAIN readers \subseteq Fd /\ DOMAIN writers \subseteq Fd
  /\ Len(later) <= MaxLater

(* A descriptor that has been closed, by the script or by a stream, never   *)
(* reaches a file again: numbers are not used twice (FileState.nextFd), so  *)
(* a late read, write or second close of it harms nobody else's file.       *)
ClosedStaysClosed == closed \cap DOMAIN fs.files = {}

(* Every open descriptor has one holder: the script, a read stream that has *)
(* not ended or failed, or a write stream, which gives it up only when it   *)
(* is destroyed with an error: a finished write stream holds it for good.   *)
DescriptorsAreHeld ==
  LET reading == {f \in DOMAIN readers : ~readers[f].over}
      writing == {f \in DOMAIN writers : writers[f] # "failed"}
  IN /\ DOMAIN fs.files = own \cup reading \cup writing
     /\ own \cap (DOMAIN readers \cup DOMAIN writers) = {}
     /\ DOMAIN readers \cap DOMAIN writers = {}

(* A read stream gives the chunks of its file in order and none twice; as   *)
(* its read function reads one chunk to look and passes on the next, these  *)
(* are the second, the fourth and so on.                                    *)
EveryOtherChunk ==
  \A f \in DOMAIN readers : \A i \in DOMAIN readers[f].got : readers[f].got[i] = 2 * i
=============================================================================
