-------------------------------- MODULE Files --------------------------------
(***************************************************************************)
(* Files read and written through a buffer (src/include/file/fiomgr).  A   *)
(* file is opened either to be read, by lines or by length, or to be       *)
(* written from the start: inimgr, the only user, closes it in between.    *)
(***************************************************************************)
EXTENDS Naturals, Sequences, SequencesExt

CONSTANTS
  CacheSize,   \* FIOMGR_CACHE_SIZE - 1
  LineSize,    \* bytes of a line that the reader's buffer takes
  CR, LF,      \* the two line breaks
  Text,        \* the other bytes
  MaxFile      \* bound on the length of a file

VARIABLES
  disk,    \* the file's bytes
  fh,      \* the open handle: struct fiomgr_params, the kernel's offset included
  mark,    \* an offset the user got from fiomgrTell
  from,    \* history: where reading began
  got,     \* history: the lines read from there, but for empty ones
  written  \* history: the bytes the file's writer gave it

vars == <<disk, fh, mark, from, got, written>>

Bytes  == {CR, LF} \cup Text
Breaks == {CR, LF}
Closed == [use |-> "closed", offset |-> 0, eof |-> FALSE, cache |-> <<>>, position |-> 0]

TypeOK ==
  /\ disk \in BoundedSeq(Bytes, MaxFile) /\ written \in BoundedSeq(Bytes, MaxFile)
  /\ fh.use \in {"closed", "read", "write"} /\ fh.eof \in BOOLEAN
  /\ fh.offset \in 0 .. MaxFile /\ fh.position \in 0 .. Len(fh.cache)
  /\ fh.cache \in BoundedSeq(Bytes, CacheSize)
  /\ mark \in 0 .. MaxFile /\ from \in 0 .. MaxFile

Init ==
  /\ disk \in BoundedSeq(Bytes, MaxFile) /\ written = disk
  /\ fh = Closed /\ mark = 0 /\ from = 0 /\ got = <<>>

-----------------------------------------------------------------------------
(* The cache. *)

Lesser(m, n) == IF m < n THEN m ELSE n
After(s, n)  == SubSeq(s, n + 1, Len(s))

\* __fiomgr_cache_clear and __fiomgr_cache_load.
Clear(f) == [f EXCEPT !.cache = <<>>, !.position = 0]
Load(f) ==
  LET read == Lesser(CacheSize, Len(disk) - f.offset) IN
  [f EXCEPT !.cache  = SubSeq(disk, f.offset + 1, f.offset + read),
            !.offset = @ + read,
            !.eof    = @ \/ read < CacheSize]

\* fiomgrTell.
Tell(f) ==
  IF f.use = "read" THEN f.offset - (Len(f.cache) - f.position) ELSE f.offset + Len(f.cache)

\* The bytes of the line break that begins what is left in the cache: two breaks that
\* differ are one, if the cache has them both.
\* Variant: the byte after a break is not looked at.
BreakLengthTwo(rest) == IF Len(rest) > 1 THEN 2 ELSE 1
BreakLength(rest) ==
  IF Len(rest) > 1 /\ rest[2] \in Breaks /\ rest[2] # rest[1] THEN 2 ELSE 1

Refill(f) == Load(Clear(f))

\* The loop of fiomgrReadln, with what it has of the line so far: the handle and the
\* line it ends with.
RECURSIVE ReadLine(_, _)
ReadLine(f, line) ==
  LET rest  == After(f.cache, f.position)
      upto  == SelectInSeq(rest, LAMBDA b : b \in Breaks)
      text  == IF upto = 0 THEN rest ELSE SubSeq(rest, 1, upto - 1)
      free  == LineSize - Len(line)
  IN  IF rest = <<>> THEN
        IF f.eof THEN [handle |-> Clear(f), line |-> line] ELSE ReadLine(Refill(f), line)
      ELSE IF Len(text) > free THEN
        [handle |-> [f EXCEPT !.position = @ + free], line |-> line \o SubSeq(text, 1, free)]
      ELSE IF upto = 0 THEN ReadLine(Refill(f), line \o text)
      ELSE [handle |-> [f EXCEPT !.position = @ + Len(text)
                                              + BreakLength(After(rest, upto - 1))],
            line   |-> line \o text]

-----------------------------------------------------------------------------
\* fiomgrOpen of the file as it is.
OpenRead ==
  /\ fh.use = "closed"
  /\ fh' = [Closed EXCEPT !.use = "read"]
  /\ UNCHANGED <<disk, mark, from, got, written>>

\* fiomgrReadln. The history begins anew at each seek.
Readln ==
  LET read == ReadLine(fh, <<>>) IN
  /\ fh.use = "read"
  /\ fh' = read.handle
  /\ got' = IF read.line = <<>> THEN got ELSE Append(got, read.line)
  /\ UNCHANGED <<disk, mark, from, written>>

\* fiomgrTell, by a user who will seek to it.
Remember ==
  /\ fh.use = "read"
  /\ mark' = Tell(fh)
  /\ UNCHANGED <<disk, fh, from, got, written>>

\* fiomgrSeek with FH_SEEK_SET.
Seek ==
  /\ fh.use = "read"
  /\ fh' = [Clear(fh) EXCEPT !.offset = mark, !.eof = FALSE]
  /\ from' = mark /\ got' = <<>>
  /\ UNCHANGED <<disk, mark, written>>

\* fiomgrOpen with FH_O_CREAT and FH_O_TRUNC.
OpenWrite ==
  /\ fh.use = "closed"
  /\ disk' = <<>> /\ fh' = [Closed EXCEPT !.use = "write"]
  /\ written' = <<>>
  /\ UNCHANGED <<mark, from, got>>

\* fiomgrWrite of n bytes: what the cache has no room for goes to the disk.
NoRoom(f, n) == CacheSize - Len(f.cache) < n
\* Variant: what was flushed stays in the cache.
FlushKeeps(f) == [f EXCEPT !.offset = @ + Len(f.cache)]
Flush(f)      == [Clear(f) EXCEPT !.offset = @ + Len(f.cache)]
Write(data) ==
  LET flushed == NoRoom(fh, Len(data))
      f       == IF flushed THEN Flush(fh) ELSE fh
      onDisk  == IF flushed THEN disk \o fh.cache ELSE disk
      direct  == Len(data) > CacheSize
  IN  /\ fh.use = "write"
      /\ Len(written) + Len(data) <= MaxFile
      /\ disk' = IF direct THEN onDisk \o data ELSE onDisk
      /\ fh' = IF direct THEN [f EXCEPT !.offset = @ + Len(data)]
               ELSE [f EXCEPT !.cache = @ \o data]
      /\ written' = written \o data
      /\ UNCHANGED <<mark, from, got>>

\* fiomgrClose: what is cached to be written is written.
Close ==
  /\ fh.use # "closed"
  /\ disk' = IF fh.use = "write" THEN disk \o fh.cache ELSE disk
  /\ fh' = Closed /\ mark' = 0 /\ from' = 0 /\ got' = <<>>
  /\ UNCHANGED written

Next ==
  \/ OpenRead \/ Readln \/ Remember \/ Seek
  \/ OpenWrite \/ Close
  \/ \E n \in 1 .. CacheSize + 1, b \in Text : Write([i \in 1 .. n |-> b])

Spec == Init /\ [][Next]_vars

-----------------------------------------------------------------------------
\* The lines of bytes, but for empty ones: the longest runs without a line break, in
\* pieces of LineSize.
RECURSIVE LinesOf(_)
LinesOf(bytes) ==
  IF bytes = <<>> THEN <<>>
  ELSE LET break == SelectInSeq(bytes, LAMBDA b : b \in Breaks)
           run   == Lesser(LineSize, IF break = 0 THEN Len(bytes) ELSE break - 1)
       IN  IF run = 0 THEN LinesOf(Tail(bytes))
           ELSE <<SubSeq(bytes, 1, run)>> \o LinesOf(After(bytes, run))

\* Wherever the cache begins and ends, the lines read and those that are left from where
\* fiomgrTell says are the lines of the file: none is lost, joined, cut or read twice.
LinesAsOnDisk ==
  fh.use = "read" =>
    got \o LinesOf(After(disk, Tell(fh))) = LinesOf(After(disk, from))

\* What was written is on the disk or in the cache, in that order, and fiomgrTell counts
\* it all: inimgr tells from it whether something stands before a section.
WritesAsAsked ==
  /\ fh.use = "write" => disk \o fh.cache = written /\ Tell(fh) = Len(written)
  /\ fh.use # "write" => disk = written
=============================================================================
