------------------------------ MODULE ZipRead ------------------------------
(***************************************************************************)
(* Reading through libzip's stacks of data sources.  An archive holds its  *)
(* file open as one source.  Each open entry is a stack on top of it: a    *)
(* window that cuts out the data, a decompressor, a layer that checks the  *)
(* CRC, a second window for a part of deflated data.  Readers take turns,  *)
(* so that the position and the error state of the file source are shared. *)
(* zip_close reads new data through a stack as well: memory, CRC and       *)
(* compressor.                                                             *)
(*                                                                         *)
(* A file is a sequence of cells <<entry, number, quality>>: number 0 is   *)
(* the local header, the others are data.  A deflated cell yields two      *)
(* plain ones.  "bad" data decodes to something else, "junk" not at all.   *)
(* The CRC of a sequence of cells is the sequence itself: collisions are   *)
(* left out, as are encryption and failing allocations.                    *)
(***************************************************************************)
EXTENDS Integers, Sequences, FiniteSets, SequencesExt

CONSTANTS
    Readers,    \* zip_file_t's and zip_source_t's in use
    NoReader,   \* a reader that does not exist
    Entries,    \* of the archive: method, size, comp (its size in the file)
                \* and at, the offset of the local header
    Inputs,     \* data in memory: fragments, and what becomes of them
    Scenarios,  \* what the file contains, the entries getEntry is asked
                \* for, and what each reader does: the entries it opens, the
                \* ranges <<entry, start, length>> of its other sources, its
                \* data in memory, how much it reads, where it seeks
    BufSize,    \* BUFSIZE
    MaxFaults   \* bound on failing reads of the file

ASSUME SizesAssumption == BufSize \in Nat \ {0} /\ MaxFaults \in Nat

\* With an empty fragment among others, buffer_new writes a wrong table.
ASSUME InputsAssumption ==
    \A k \in DOMAIN Inputs : \A j \in DOMAIN Inputs[k].frags : Inputs[k].frags[j] # <<>>

VARIABLES
    file,     \* the cells of the archive's file
    plan,     \* the scenario
    base,     \* the file source: za->src
    za,       \* whether the archive still exists
    reg,      \* the readers registered with it: za->open_source
    rd,       \* the readers
    told,     \* the answer to the last call, and to whom
    faults,   \* how many reads of the file failed
    crash     \* the process has ended in undefined behaviour, or "no"

vars == <<file, plan, base, za, reg, rd, told, faults, crash>>

-----------------------------------------------------------------------------
(* Data.                                                                   *)

Smaller(a, b) == IF a < b THEN a ELSE b
Take(s, n) == SubSeq(s, 1, Smaller(n, Len(s)))
Drop(s, n) == SubSeq(s, n + 1, Len(s))

Expand(c) == <<Append(c, 1), Append(c, 2)>>
Ends(c) == c[2] = Entries[c[1]].comp /\ c[3] = "ok"

\* The data of an entry as it was written, and as it is in the file.
Sound(i) ==
    LET cells == [j \in 1..Entries[i].comp |-> <<i, j, "ok">>]
    IN  IF Entries[i].method = "store" THEN cells
        ELSE FlattenSeq([j \in DOMAIN cells |-> Expand(cells[j])])

InFile(i) == Take(Drop(file, Entries[i].at + 1), Entries[i].comp)

Plain(i) ==
    LET cells == InFile(i)
        fine == {j \in 0..Len(cells) : \A k \in 1..j : cells[k][3] # "junk"}
        n == CHOOSE j \in fine : \A k \in fine : k <= j
    IN  IF Entries[i].method = "store" THEN cells
        ELSE FlattenSeq([j \in 1..n |-> Expand(cells[j])])

-----------------------------------------------------------------------------
(* Sources.  s is the file source and the stack of one reader; layer 0 is  *)
(* the former, Len(s.st) the top of the latter.  s.io says how many cells  *)
(* the system will still deliver before a read fails.  Every operation     *)
(* yields the sources as they are after it, whether it succeeded, and data. *)

NoFault == 99

Layer(s, l) == IF l = 0 THEN s.base ELSE s.st[l]

With(s, l, f, v) ==
    IF l = 0 THEN [s EXCEPT !.base[f] = v] ELSE [s EXCEPT !.st[l][f] = v]

\* The same for what the callback keeps, its ctx.
Ctx(s, l) == Layer(s, l).c
WithCtx(s, l, c) == With(s, l, "c", c)

Fail(s) == [s |-> s, ok |-> FALSE, d |-> <<>>]
Done(s, d) == [s |-> s, ok |-> TRUE, d |-> d]

\* _zip_source_new
NewSource(kind, c) ==
    [kind |-> kind, count |-> 0, eof |-> FALSE, err |-> FALSE, closed |-> FALSE, c |-> c]

\* Whether there is a layer below: ZIP_SOURCE_IS_LAYERED.
Layered(s, l) == l > 0 /\ Layer(s, l).kind # "buffer"

\* supports & ZIP_SOURCE_SEEK: all but compression pass it on.
Seekable(s, l) == \A k \in 1..l : s.st[k].kind # "comp"

-----------------------------------------------------------------------------
(* The file: read_file.                                                    *)

\* fread stops at an error, which shows only when nothing was read.
FileRead(s, len) ==
    LET b == s.base
        there == Smaller(len, IF b.c.cur < Len(file) THEN Len(file) - b.c.cur ELSE 0)
        n == Smaller(there, s.io)
        ferr == b.c.ferr \/ n < there
        s1 == [s EXCEPT !.base.c = [cur |-> b.c.cur + n, ferr |-> ferr], !.io = @ - n]
    IN  IF n = 0 /\ ferr THEN Fail(s1) ELSE Done(s1, SubSeq(file, b.c.cur + 1, b.c.cur + n))

-----------------------------------------------------------------------------
(* Memory: zip_source_buffer.                                              *)

BufferNew(frags) == NewSource("buffer", [frags |-> frags, off |-> 0, cur |-> 1])

\* fragment_offsets
FragmentAt(frags, k) == Len(FlattenSeq(SubSeq(frags, 1, k - 1)))

\* buffer_find_fragment, a binary search.
FindFragment(frags, off) ==
    LET find[lo \in 1..Len(frags), hi \in 0..Len(frags)] ==
            LET mid == (hi - lo) \div 2 + lo
            IN  IF lo >= hi THEN lo
                ELSE IF FragmentAt(frags, mid) > off THEN find[lo, mid - 1]
                ELSE IF FragmentAt(frags, mid + 1) > off THEN mid
                ELSE find[mid + 1, hi]
    IN  find[1, Len(frags)]

\* buffer_read, from the current fragment on.
BufferRead(s, l, len) ==
    LET c == Ctx(s, l)
        size == FragmentAt(c.frags, Len(c.frags) + 1)
        n == Smaller(len, size - c.off)
        from == c.off - FragmentAt(c.frags, c.cur)
        rest == FlattenSeq(Drop(c.frags, c.cur - 1))
        over == {k \in c.cur..Len(c.frags) : FragmentAt(c.frags, k + 1) > c.off + n}
        next == IF over = {} THEN Len(c.frags) + 1 ELSE CHOOSE k \in over : \A j \in over : k <= j
    IN  IF n = 0 THEN Done(s, <<>>)
        ELSE Done(WithCtx(s, l, [c EXCEPT !.off = @ + n, !.cur = next]),
                  SubSeq(rest, from + 1, from + n))

-----------------------------------------------------------------------------
(* zlib, as zip_algorithm_deflate.c calls it, one cell of input at a time. *)
(* Inflating ends with the last cell of an entry.  Deflating makes a       *)
(* number of cells that does not depend on the input, the first of them    *)
(* perhaps early, the others when the input has ended.                     *)

ZStream(total, early) ==
    [inp |-> <<>>, out |-> <<>>, fin |-> FALSE, end |-> FALSE,
     made |-> 0, total |-> total, early |-> early]

ZCells(from, to) == [k \in 1..to - from |-> <<"z", from + k>>]

Emit(z, len) ==
    [z |-> [z EXCEPT !.out = Drop(@, len)], d |-> Take(z.out, len),
     st |-> IF z.end /\ Len(z.out) <= len THEN "end" ELSE "ok"]

Stuck(z, why) == [z |-> z, d |-> <<>>, st |-> why]

Inflate(z, len) ==
    IF z.out # <<>> THEN Emit(z, len)
    ELSE IF z.inp = <<>> THEN Stuck(z, "need")
    ELSE IF Head(z.inp)[3] = "junk" THEN Stuck(z, "error")
    ELSE Emit([z EXCEPT !.inp = Tail(@), !.out = Expand(Head(z.inp)),
                        !.end = Ends(Head(z.inp))], len)

Deflate(z, len) ==
    LET upto(n) == [z EXCEPT !.inp = <<>>, !.made = n, !.out = @ \o ZCells(z.made, n),
                             !.end = z.fin]
    IN  IF z.inp # <<>> THEN Emit(upto(IF z.early /\ z.made = 0 THEN 1 ELSE z.made), len)
        ELSE IF z.fin THEN Emit(upto(z.total), len)
        ELSE IF z.out # <<>> THEN Emit(z, len)
        ELSE Stuck(z, "need")

Process(c, len) == IF c.compress THEN Deflate(c.z, len) ELSE Inflate(c.z, len)

-----------------------------------------------------------------------------
(* The layers.  zip_source_read calls the callback of a layer until it has *)
(* enough, and the callback reads from the layer below in the same way.    *)

RECURSIVE SourceRead(_, _, _)
RECURSIVE SourceSeek(_, _, _)
RECURSIVE SourceTell(_, _)
RECURSIVE ReadLoop(_, _, _, _)
RECURSIVE CompressLoop(_, _, _, _)
RECURSIVE SourceStat(_, _)
RECURSIVE SourceOpen(_, _)
RECURSIVE SourceClose(_, _)
RECURSIVE ForceClose(_, _)

\* zip_source_seek_compute_offset; -1 is an error.
ComputeOffset(off, len, arg) ==
    LET new == CASE arg.whence = "cur" -> off + arg.offset
                 [] arg.whence = "end" -> len + arg.offset
                 [] arg.whence = "set" -> arg.offset
    IN  IF new < 0 \/ new > len THEN -1 ELSE new

SeekTo(n) == [whence |-> "set", offset |-> n]

\* What each layer makes of what is known below: the size of the data (-1
\* if it is not) and its CRC.
WindowStat(c, below) == IF c.stat = <<>> THEN below ELSE c.stat[1]

CompStat(c, below) ==
    IF c.compress THEN below ELSE [below EXCEPT !.size = IF c.eos THEN c.size ELSE -1]

CrcStat(c, below) ==
    IF c.complete THEN [size |-> c.size, crc |-> TRUE, of |-> c.crc] ELSE below

StatOver(y, below) ==
    CASE y.kind = "window" -> WindowStat(y.c, below)
      [] y.kind = "comp" -> CompStat(y.c, below)
      [] y.kind = "crc" -> CrcStat(y.c, below)

\* zip_source_stat
SourceStat(s, l) ==
    IF l = 0 THEN [size |-> Len(file), crc |-> FALSE, of |-> <<>>]
    ELSE IF Layered(s, l) THEN StatOver(Layer(s, l), SourceStat(s, l - 1))
    ELSE [size |-> Len(FlattenSeq(Ctx(s, l).frags)), crc |-> FALSE, of |-> <<>>]

\* A slip in WindowGot: data that ends too soon is no error.
WindowGotShort(r, l) ==
    IF ~r.ok THEN Fail(r.s)
    ELSE Done(WithCtx(r.s, l, [Ctx(r.s, l) EXCEPT !.off = @ + Len(r.d)]), r.d)

\* window_read, ZIP_SOURCE_READ, after its read r of the layer below.
WindowGot(r, l) ==
    IF ~r.ok \/ r.d = <<>> THEN Fail(r.s)
    ELSE Done(WithCtx(r.s, l, [Ctx(r.s, l) EXCEPT !.off = @ + Len(r.d)]), r.d)

\* The same, after its seek.
WindowSought(r, l, n) ==
    IF r.ok THEN WindowGot(SourceRead(r.s, l - 1, n), l) ELSE Fail(r.s)

WindowLeft(c, len) == Smaller(len, c.end - c.off)

\* A slip in WindowRead: the file is taken to be where it was left.
WindowReadOn(s, l, len) ==
    IF WindowLeft(Ctx(s, l), len) = 0 THEN Done(s, <<>>)
    ELSE WindowSought(Done(s, <<>>), l, WindowLeft(Ctx(s, l), len))

\* window_read, ZIP_SOURCE_READ
WindowRead(s, l, len) ==
    IF WindowLeft(Ctx(s, l), len) = 0 THEN Done(s, <<>>)
    ELSE WindowSought(IF Ctx(s, l).seek THEN SourceSeek(s, l - 1, SeekTo(Ctx(s, l).off))
                      ELSE Done(s, <<>>),
                      l, WindowLeft(Ctx(s, l), len))

\* A slip in CrcEnd: only data of the wrong size is refused.
CrcEndOfSize(s, l, st) ==
    LET c == Ctx(s, l)
        s1 == WithCtx(s, l, [c EXCEPT !.complete = TRUE, !.size = c.pos])
    IN  IF c.upto # c.pos THEN Done(s, <<>>)
        ELSE IF c.validate /\ st.size \notin {-1, c.pos} THEN Fail(s1)
        ELSE Done(s1, <<>>)

\* The end of the data, in crc_read: if all of it was added up, it is
\* compared with st, what the directory says.  A closed layer cannot tell.
CrcEnd(s, l, st) ==
    LET c == Ctx(s, l)
        s1 == WithCtx(s, l, [c EXCEPT !.complete = TRUE, !.size = c.pos])
        gone == \E k \in 1..l - 1 : s.st[k].closed
        wrong == (st.crc /\ st.of # c.crc) \/ st.size \notin {-1, c.pos}
    IN  IF c.upto # c.pos THEN Done(s, <<>>)
        ELSE IF c.validate /\ (gone \/ wrong) THEN Fail(s1)
        ELSE Done(s1, <<>>)

\* Data that follows what was added up already is added to it.
CrcAdd(c, d) ==
    LET new == IF ~c.complete /\ c.pos <= c.upto THEN Drop(d, c.upto - c.pos) ELSE <<>>
    IN  [c EXCEPT !.pos = @ + Len(d), !.upto = @ + Len(new), !.crc = @ \o new]

\* crc_read, ZIP_SOURCE_READ, after its read r of the layer below.
CrcGot(r, l) ==
    IF ~r.ok THEN Fail(r.s)
    ELSE IF r.d = <<>> THEN CrcEnd(r.s, l, SourceStat(r.s, l - 1))
    ELSE Done(WithCtx(r.s, l, CrcAdd(Ctx(r.s, l), r.d)), r.d)

\* The end of compress_read.
CompressDone(s, l, acc) ==
    LET c == Ctx(s, l)
    IN  IF acc # <<>> THEN Done(WithCtx(s, l, [c EXCEPT !.can = FALSE, !.size = @ + Len(acc)]), acc)
        ELSE IF c.failed THEN Fail(s) ELSE Done(s, <<>>)

\* ZIP_COMPRESSION_END.  Data that fits the buffer and has not become shorter
\* is given out as it was.
CompressEnd(s, l, acc) ==
    LET c == Ctx(s, l)
    IN  IF c.first < 0
        THEN CompressDone(WithCtx(s, l, [c EXCEPT !.eos = TRUE, !.failed = TRUE]), l, acc)
        ELSE IF c.can /\ c.first <= Len(acc)
        THEN Done(WithCtx(s, l, [c EXCEPT !.eos = TRUE, !.stored = TRUE, !.size = c.first]),
                  Take(c.buf, c.first))
        ELSE CompressDone(WithCtx(s, l, [c EXCEPT !.eos = TRUE]), l, acc)

\* A slip in TakeInput: what was overwritten is still thought to be there.
TakeInputKeeps(c, d) ==
    LET first == IF c.first < 0 THEN Len(d) ELSE c.first
    IN  IF d = <<>> THEN [c EXCEPT !.eoi = TRUE, !.z.fin = TRUE, !.first = first]
        ELSE [c EXCEPT !.buf = d, !.z.inp = d, !.first = first]

\* What data from below, or its end, changes.  Only the first of it can be
\* given out as it was.
TakeInput(c, d) ==
    LET first == IF c.first < 0 THEN Len(d) ELSE c.first
    IN  IF d = <<>> THEN [c EXCEPT !.eoi = TRUE, !.z.fin = TRUE, !.first = first]
        ELSE [c EXCEPT !.buf = d, !.z.inp = d, !.first = first, !.can = @ /\ c.first < 0]

\* ZIP_COMPRESSION_NEED_DATA, with what was read from the layer below.
CompressInput(r, l, len, acc) ==
    IF r.ok THEN CompressLoop(WithCtx(r.s, l, TakeInput(Ctx(r.s, l), r.d)), l, len, acc)
    ELSE CompressDone(WithCtx(r.s, l, [Ctx(r.s, l) EXCEPT !.failed = TRUE]), l, acc)

\* What follows a call of the algorithm; p is its result.
CompressStep(s, l, len, acc, p) ==
    CASE p.st = "end" -> CompressEnd(s, l, acc \o p.d)
      [] p.st = "ok" -> CompressLoop(s, l, len, acc \o p.d)
      [] p.st = "error" ->
            CompressDone(WithCtx(s, l, [Ctx(s, l) EXCEPT !.failed = TRUE]), l, acc)
      [] p.st = "need" ->
            IF Ctx(s, l).eoi THEN CompressDone(s, l, acc)
            ELSE CompressInput(SourceRead(s, l - 1, BufSize), l, len, acc)

Processed(s, l, len, acc, p) ==
    CompressStep(WithCtx(s, l, [Ctx(s, l) EXCEPT !.z = p.z]), l, len, acc, p)

CompressLoop(s, l, len, acc) ==
    IF Len(acc) = len THEN CompressDone(s, l, acc)
    ELSE Processed(s, l, len, acc, Process(Ctx(s, l), len - Len(acc)))

\* compress_read
CompressRead(s, l, len) ==
    IF Ctx(s, l).failed THEN Fail(s)
    ELSE IF Ctx(s, l).eos THEN Done(s, <<>>)
    ELSE CompressLoop(s, l, len, <<>>)

\* _zip_source_call, ZIP_SOURCE_READ
CallRead(s, l, len) ==
    CASE Layer(s, l).kind = "file" -> FileRead(s, len)
      [] Layer(s, l).kind = "buffer" -> BufferRead(s, l, len)
      [] Layer(s, l).kind = "window" -> WindowRead(s, l, len)
      [] Layer(s, l).kind = "crc" -> CrcGot(SourceRead(s, l - 1, len), l)
      [] Layer(s, l).kind = "comp" -> CompressRead(s, l, len)

\* The loop of zip_source_read; r is what the callback did.  An error after
\* some data is kept for later.
ReadGot(r, l, len, acc) ==
    IF ~r.ok THEN [s |-> With(r.s, l, "err", TRUE), ok |-> acc # <<>>, d |-> acc]
    ELSE IF r.d = <<>> THEN Done(With(r.s, l, "eof", TRUE), acc)
    ELSE IF Len(acc \o r.d) = len THEN Done(r.s, acc \o r.d)
    ELSE ReadLoop(r.s, l, len, acc \o r.d)

ReadLoop(s, l, len, acc) == ReadGot(CallRead(s, l, len - Len(acc)), l, len, acc)

SourceRead(s, l, len) ==
    IF Layer(s, l).closed \/ Layer(s, l).count = 0 \/ Layer(s, l).err THEN Fail(s)
    ELSE IF Layer(s, l).eof \/ len = 0 THEN Done(s, <<>>)
    ELSE ReadLoop(s, l, len, <<>>)

\* zip_source_tell; a CRC layer counts for itself.
SourceTell(s, l) ==
    CASE l = 0 -> Ctx(s, l).cur
      [] Layer(s, l).kind = "buffer" -> Ctx(s, l).off
      [] Layer(s, l).kind = "window" -> Ctx(s, l).off - Ctx(s, l).start
      [] Layer(s, l).kind = "crc" -> Ctx(s, l).pos

\* A slip in CrcSought: the layer does not notice that it was moved.
CrcSoughtUncounted(r, l) == IF r.ok THEN Done(r.s, <<>>) ELSE Fail(r.s)

\* crc_read, ZIP_SOURCE_SEEK, after the seek r of the layer below.
CrcSought(r, l) ==
    IF r.ok THEN Done(WithCtx(r.s, l, [Ctx(r.s, l) EXCEPT !.pos = SourceTell(r.s, l - 1)]), <<>>)
    ELSE Fail(r.s)

\* Where the other layers go, unless new is not in the data; archives seek
\* in their file from its start only.
BufferSeek(s, l, new) ==
    LET c == Ctx(s, l)
    IN  IF new < 0 THEN Fail(s)
        ELSE Done(WithCtx(s, l, [c EXCEPT !.off = new, !.cur = FindFragment(c.frags, new)]), <<>>)

WindowSeek(s, l, new) ==
    IF new < 0 THEN Fail(s)
    ELSE Done(WithCtx(s, l, [Ctx(s, l) EXCEPT !.off = new + Ctx(s, l).start]), <<>>)

FileSeek(s, arg) == Done([s EXCEPT !.base.c.cur = arg.offset], <<>>)

\* _zip_source_call, ZIP_SOURCE_SEEK
CallSeek(s, l, arg) ==
    LET c == Ctx(s, l)
    IN  CASE Layer(s, l).kind = "crc" -> CrcSought(SourceSeek(s, l - 1, arg), l)
          [] Layer(s, l).kind = "buffer" ->
                BufferSeek(s, l, ComputeOffset(c.off, Len(FlattenSeq(c.frags)), arg))
          [] Layer(s, l).kind = "window" ->
                WindowSeek(s, l, ComputeOffset(c.off - c.start, c.end - c.start, arg))
          [] Layer(s, l).kind = "file" -> FileSeek(s, arg)

\* zip_source_seek; it clears eof, but not had_read_error.
Sought(r, l) == IF r.ok THEN Done(With(r.s, l, "eof", FALSE), <<>>) ELSE r

SourceSeek(s, l, arg) ==
    IF Layer(s, l).closed \/ Layer(s, l).count = 0 \/ ~Seekable(s, l) THEN Fail(s)
    ELSE Sought(CallSeek(s, l, arg), l)

-----------------------------------------------------------------------------
(* Opening and closing.                                                    *)

\* zip_source_close: the last one closes the layer below as well.
SourceClose(s, l) ==
    LET n == Layer(s, l).count
        s1 == With(s, l, "count", n - 1)
    IN  IF n = 0 THEN s
        ELSE IF n = 1 /\ Layered(s, l) THEN SourceClose(s1, l - 1)
        ELSE s1

\* _zip_file_get_offset, on the archive's file: the local header is read
\* for its length.
HeaderGot(r) == IF r.ok /\ r.d = <<>> THEN Fail(r.s) ELSE r

HeaderRead(s, i) ==
    HeaderGot(SourceRead(SourceSeek(s, 0, SeekTo(Entries[i].at)).s, 0, 1))

\* The end of ZIP_SOURCE_OPEN, after the loop that reads what comes before a
\* window: too little is an error.
WindowSkipped(r, l) ==
    IF ~r.ok \/ Len(r.d) < Ctx(r.s, l).start THEN Fail(r.s)
    ELSE Done(WithCtx(r.s, l, [Ctx(r.s, l) EXCEPT !.off = Ctx(r.s, l).start]), <<>>)

WindowSkip(s, l) ==
    IF Ctx(s, l).seek \/ Ctx(s, l).start = 0
    THEN Done(WithCtx(s, l, [Ctx(s, l) EXCEPT !.off = Ctx(s, l).start]), <<>>)
    ELSE WindowSkipped(SourceRead(s, l - 1, Ctx(s, l).start), l)

\* Where the data of the entry is becomes known when it is first opened.
WindowMoved(c) ==
    LET by == Entries[c.src].at + 1
    IN  [c EXCEPT !.start = @ + by, !.end = @ + by, !.src = 0, !.off = c.start + by]

WindowHead(r, l) == IF r.ok THEN Done(WithCtx(r.s, l, WindowMoved(Ctx(r.s, l))), <<>>) ELSE Fail(r.s)

\* window_read, ZIP_SOURCE_OPEN; only a window of an entry can seek.
WindowOpen(s, l) ==
    IF Ctx(s, l).src = 0 THEN WindowSkip(s, l)
    ELSE WindowHead(HeaderRead(s, Ctx(s, l).src), l)

\* compress_callback, ZIP_SOURCE_OPEN; an earlier error stays.
CompOpened(c) ==
    [c EXCEPT !.size = 0, !.eoi = FALSE, !.eos = FALSE, !.stored = FALSE, !.first = -1,
              !.z = ZStream(c.z.total, c.z.early)]

\* _zip_source_call, ZIP_SOURCE_OPEN
LayerOpen(s, l) ==
    LET c == Ctx(s, l)
    IN  CASE Layer(s, l).kind = "file" -> Done(s, <<>>)
          [] Layer(s, l).kind = "buffer" -> Done(WithCtx(s, l, [c EXCEPT !.off = 0, !.cur = 1]), <<>>)
          [] Layer(s, l).kind = "window" -> WindowOpen(s, l)
          [] Layer(s, l).kind = "crc" -> Done(WithCtx(s, l, [c EXCEPT !.pos = 0]), <<>>)
          [] Layer(s, l).kind = "comp" -> Done(WithCtx(s, l, CompOpened(c)), <<>>)

\* The end of zip_source_open.
Opened(s, l) ==
    Done(With(With(With(s, l, "eof", FALSE), l, "err", FALSE), l, "count", Layer(s, l).count + 1),
         <<>>)

\* A slip in LayerOpened: after a failure the layer below stays open.
LayerOpenedLeaves(r, l) == IF r.ok THEN Opened(r.s, l) ELSE Fail(r.s)

\* zip_source_open, after the callback: a failure closes the layer below.
LayerOpened(r, l) ==
    IF r.ok THEN Opened(r.s, l)
    ELSE Fail(IF Layered(r.s, l) THEN SourceClose(r.s, l - 1) ELSE r.s)

\* And after opening the layer below.
BelowOpened(r, l) == IF r.ok THEN LayerOpened(LayerOpen(r.s, l), l) ELSE Fail(r.s)

SourceOpen(s, l) ==
    IF Layer(s, l).closed THEN Fail(s)
    ELSE IF Layer(s, l).count > 0 THEN IF Seekable(s, l) THEN Opened(s, l) ELSE Fail(s)
    ELSE BelowOpened(IF Layered(s, l) THEN SourceOpen(s, l - 1) ELSE Done(s, <<>>), l)

\* zip_source_free, from the top of a stack down to what is not its own.
ForceClose(s, l) ==
    IF l = 0 THEN s
    ELSE ForceClose(IF s.st[l].count = 0 THEN s ELSE SourceClose(With(s, l, "count", 1), l), l - 1)

\* Letting go of the file source; whoever is last closes it.
Release(b) == [b EXCEPT !.refs = @ - 1, !.count = IF b.refs = 1 THEN 0 ELSE @]

OnFile(st) == st[1].kind = "window"

\* The file source after a whole stack was freed.
Freed(s) ==
    LET leave(b) == IF OnFile(s.st) THEN Release(b) ELSE b
    IN  leave(ForceClose(s, Len(s.st)).base)

-----------------------------------------------------------------------------
(* Building stacks.                                                        *)

CrcLayer(validate) ==
    NewSource("crc", [validate |-> validate, complete |-> FALSE, size |-> 0, pos |-> 0,
                      upto |-> 0, crc |-> <<>>])

\* compression_source_new
CompLayer(compress, can, total, early) ==
    NewSource("comp", [compress |-> compress, eoi |-> FALSE, eos |-> FALSE, can |-> can,
                       stored |-> FALSE, size |-> 0, first |-> -1, failed |-> FALSE,
                       buf |-> <<>>, z |-> ZStream(total, early)])

\* _zip_source_window_new; i is the entry whose data is cut out, or 0.
WindowLayer(start, len, i, seek, stat) ==
    NewSource("window", [start |-> start, end |-> start + len, src |-> i, off |-> 0,
                         seek |-> seek, stat |-> stat])

\* zip_stat_index: what the directory says.
Stat(i) == [size |-> Entries[i].size, crc |-> TRUE, of |-> Sound(i)]

\* What len stands for, and whether that is less than the entry.
Length(i, start, len) == IF len = 0 THEN Entries[i].size - start ELSE len
Partial(i, start, len) == Length(i, start, len) < Entries[i].size

\* _zip_source_zip_new, past its checks
ZipNew(i, raw, start, len) ==
    LET e == Entries[i]
        n == Length(i, start, len)
        part == Partial(i, start, len)
        inflates == ~raw /\ e.method # "store"
    IN  IF e.comp = 0 THEN <<BufferNew(<<>>)>>
        ELSE IF part /\ ~inflates
        THEN <<WindowLayer(start, n, i, TRUE, <<[size |-> n, crc |-> FALSE, of |-> <<>>]>>)>>
        ELSE <<WindowLayer(0, e.comp, i, TRUE, <<Stat(i)>>)>>
             \o (IF inflates THEN <<CompLayer(FALSE, FALSE, 0, FALSE)>> ELSE <<>>)
             \o (IF (~raw \/ e.method = "store") /\ ~part THEN <<CrcLayer(TRUE)>> ELSE <<>>)
             \o (IF part THEN <<WindowLayer(start, n, 0, FALSE, <<>>)>> ELSE <<>>)

\* What add_data stacks on data in memory.
AddNew(in) ==
    <<BufferNew(in.frags)>>
    \o (IF in.comp THEN <<CrcLayer(FALSE), CompLayer(TRUE, in.can, in.total, in.early)>> ELSE <<>>)

-----------------------------------------------------------------------------
(* Operations of the library's users.                                      *)

Faults == {0, 1, NoFault}

\* What a call by r works on; a new stack keeps the file source.
Sources(r, f) == [base |-> base, st |-> rd[r].st, io |-> f]
Kept(st) == [base EXCEPT !.refs = IF OnFile(st) THEN @ + 1 ELSE @]

\* An answer, with the data or the number in it, and the position or the
\* entry it is about.
Answer(by, what, d, at) == [by |-> by, what |-> what, d |-> d, at |-> at]
Nothing == Answer(NoReader, "none", <<>>, 0)

NewReader(kind, i, raw, start, len, st) ==
    [kind |-> kind, of |-> i, raw |-> raw, start |-> start, len |-> len, zerr |-> FALSE,
     pos |-> 0, straight |-> TRUE, out |-> <<>>, st |-> st]

Fault(f) ==
    /\ f # NoFault => faults < MaxFaults
    /\ faults' = IF f = NoFault THEN faults ELSE faults + 1

Alive == crash = "no"
Quiet == told' = Nothing /\ UNCHANGED <<file, plan, crash>>

\* Reader r has made a call that left the sources as in s.
Called(r, s, reader, what, d) ==
    /\ base' = s.base
    /\ rd' = [rd EXCEPT ![r] = [reader EXCEPT !.st = s.st]]
    /\ told' = Answer(r, what, d, rd[r].pos)
    /\ UNCHANGED <<file, plan, za, reg, crash>>

OpenNew(st, f) == SourceOpen([base |-> Kept(st), st |-> st, io |-> f], Len(st))

\* zip_fopen_index: nothing remains of an attempt that fails.
Fopen(r, i, f) ==
    /\ Alive /\ za /\ rd[r] = NoReader /\ Fault(f)
    /\ \E o \in {OpenNew(ZipNew(i, FALSE, 0, 0), f)} :
        /\ base' = IF o.ok THEN o.s.base ELSE Freed(o.s)
        /\ rd' = IF o.ok THEN [rd EXCEPT ![r] = NewReader("file", i, FALSE, 0, 0, o.s.st)] ELSE rd
        /\ reg' = IF o.ok /\ OnFile(o.s.st) THEN reg \union {r} ELSE reg
    /\ UNCHANGED za /\ Quiet

\* zip_source_zip; the whole of an entry is taken as it is in the file.
SourceZip(r, i, start, len) ==
    LET raw == start = 0 /\ len = 0
        st == ZipNew(i, raw, start, len)
    IN  /\ Alive /\ za /\ rd[r] = NoReader
        /\ start + len <= Entries[i].size
        /\ base' = Kept(st)
        /\ rd' = [rd EXCEPT ![r] = NewReader("source", i, raw, start, len, st)]
        /\ reg' = IF OnFile(st) THEN reg \union {r} ELSE reg
        /\ UNCHANGED <<za, faults>> /\ Quiet

\* The sources for new data.
AddSource(r, k) ==
    /\ Alive /\ rd[r] = NoReader
    /\ rd' = [rd EXCEPT ![r] = NewReader("memory", k, FALSE, 0, 0, AddNew(Inputs[k]))]
    /\ UNCHANGED <<base, za, reg, faults>> /\ Quiet

\* zip_source_open, a second time only for what can seek.
Open(r, f) ==
    LET again == Last(rd[r].st).count > 0
    IN  /\ Alive /\ rd[r].kind # "file" /\ Last(rd[r].st).count < 2 /\ Fault(f)
        /\ Last(rd[r].st).kind = "comp" => Last(rd[r].st).c.first < 0
        /\ \E o \in {SourceOpen(Sources(r, f), Len(rd[r].st))} :
              Called(r, o.s, IF o.ok /\ ~again THEN [rd[r] EXCEPT !.pos = 0] ELSE rd[r],
                     IF o.ok THEN "none" ELSE IF again THEN "refused" ELSE "error", <<>>)

\* zip_source_close
Close(r) ==
    /\ Alive /\ rd[r].kind # "file" /\ Last(rd[r].st).count > 0
    /\ Called(r, SourceClose(Sources(r, NoFault), Len(rd[r].st)), rd[r], "none", <<>>)
    /\ UNCHANGED faults

\* zip_fread, or zip_source_read.  Compressors are read as zip_close does.
Read(r, n, f) ==
    LET q == rd[r]
    IN  /\ Alive /\ ~q.zerr /\ Last(q.st).count > 0 /\ Fault(f)
        /\ Last(q.st).kind = "comp" => n = BufSize
        /\ \E x \in {SourceRead(Sources(r, f), Len(q.st), n)} :
              Called(r, x.s,
                     [q EXCEPT !.pos = @ + Len(x.d), !.zerr = q.kind = "file" /\ ~x.ok,
                               !.out = IF Last(q.st).kind = "comp" THEN @ \o x.d ELSE @],
                     IF ~x.ok THEN "error" ELSE IF x.d = <<>> THEN "eof" ELSE "data", x.d)

\* How much a reader can reach by seeking.
Extent(q) ==
    IF q.kind = "memory" THEN Len(FlattenSeq(Inputs[q.of].frags))
    ELSE IF Partial(q.of, q.start, q.len) /\ Entries[q.of].comp > 0
    THEN Length(q.of, q.start, q.len)
    ELSE Entries[q.of].comp

\* An answer -1 to a seek or tell; a zip_file_t fails from then on.
Refuse(r, s) ==
    Called(r, s, [rd[r] EXCEPT !.zerr = rd[r].kind = "file"], "refused", <<>>)

\* zip_fseek, or zip_source_seek.  In memory with no data at all the search
\* for the fragment leaves the table.
Seek(r, arg) ==
    LET q == rd[r]
        new == ComputeOffset(q.pos, Extent(q), arg)
    IN  /\ Alive /\ ~q.zerr /\ Last(q.st).count > 0
        /\ IF q.st[1].kind = "buffer" /\ q.st[1].c.frags = <<>> /\ Len(q.st) = 1 /\ new = 0
           THEN crash' = "seek" /\ told' = Nothing /\ UNCHANGED <<file, plan, base, za, reg, rd>>
           ELSE \E x \in {SourceSeek(Sources(r, NoFault), Len(q.st), arg)} :
                  IF x.ok
                  THEN Called(r, x.s, [q EXCEPT !.pos = new, !.straight = FALSE], "none", <<>>)
                  ELSE Refuse(r, x.s)
        /\ UNCHANGED faults

\* zip_ftell, or zip_source_tell: a window answers even on what cannot seek.
Tell(r) ==
    LET q == rd[r]
        top == Len(q.st)
    IN  /\ Alive /\ ~q.zerr /\ Last(q.st).count > 0
        /\ IF ~Last(q.st).closed /\ (Seekable([st |-> q.st], top) \/ Last(q.st).kind = "window")
           THEN Called(r, Sources(r, NoFault), q, "tell", <<SourceTell(Sources(r, NoFault), top)>>)
           ELSE Refuse(r, Sources(r, NoFault))
        /\ UNCHANGED faults

\* zip_fclose, or zip_source_free.  A window of an archive that still exists
\* leaves its list.
Free(r) ==
    /\ Alive /\ rd[r] # NoReader
    /\ base' = Freed(Sources(r, NoFault))
    /\ rd' = [rd EXCEPT ![r] = NoReader]
    /\ reg' = reg \ {r}
    /\ UNCHANGED <<za, faults>> /\ Quiet

\* zip_discard; the readers that remain can no longer use the file.
Discard ==
    /\ Alive /\ za
    /\ za' = FALSE
    /\ base' = Release([base EXCEPT !.count = @ - 1])
    /\ rd' = [r \in Readers |-> IF r \in reg THEN [rd[r] EXCEPT !.st[1].closed = TRUE] ELSE rd[r]]
    /\ reg' = {}
    /\ UNCHANGED faults /\ Quiet

\* A slip in Fetch: the size in the file is read.
FetchCompressed(o, i) == IF o.ok THEN SourceRead(o.s, Len(o.s.st), Entries[i].comp) ELSE o

\* zip_fread of the size in the directory; on a null pointer it does nothing.
Fetch(o, i) == IF o.ok THEN SourceRead(o.s, Len(o.s.st), Stat(i).size) ELSE o

\* ZipArchive::getEntry: what zip_fread says is not looked at, and zip_fclose
\* is called even when there is nothing to close.
GetEntry(i, f) ==
    /\ Alive /\ za /\ Fault(f)
    /\ \E o \in {OpenNew(ZipNew(i, FALSE, 0, 0), f)} : \E x \in {Fetch(o, i)} :
        /\ base' = Freed(x.s)
        /\ crash' = IF o.ok THEN "no" ELSE "null"
        /\ told' = Answer(NoReader, "entry", x.d, i)
    /\ UNCHANGED <<file, plan, za, reg, rd>>

Init ==
    /\ plan \in Scenarios /\ file = plan.file
    /\ base = [kind |-> "file", count |-> 1, eof |-> FALSE, err |-> FALSE, closed |-> FALSE,
               refs |-> 1, c |-> [cur |-> 0, ferr |-> FALSE]]
    /\ za = TRUE /\ reg = {}
    /\ rd = [r \in Readers |-> NoReader]
    /\ told = Nothing
    /\ faults = 0 /\ crash = "no"

Next ==
    \/ \E r \in Readers, f \in Faults : \E i \in plan.uses[r].opens : Fopen(r, i, f)
    \/ \E r \in Readers : \E x \in plan.uses[r].ranges : SourceZip(r, x[1], x[2], x[3])
    \/ \E r \in Readers : \E k \in plan.uses[r].inputs : AddSource(r, k)
    \/ \E r \in Readers, f \in Faults : rd[r] # NoReader /\ Open(r, f)
    \/ \E r \in Readers : rd[r] # NoReader /\ Close(r)
    \/ \E r \in Readers, f \in Faults : \E n \in plan.uses[r].reads : rd[r] # NoReader /\ Read(r, n, f)
    \/ \E r \in Readers : \E arg \in plan.uses[r].seeks : rd[r] # NoReader /\ Seek(r, arg)
    \/ \E r \in Readers : rd[r] # NoReader /\ Tell(r)
    \/ \E r \in Readers : Free(r)
    \/ Discard
    \/ \E i \in plan.gets, f \in Faults : GetEntry(i, f)

Spec == Init /\ [][Next]_vars

-----------------------------------------------------------------------------
(* Properties.                                                             *)

\* What a reader ought to see, from the cells of the file or of memory.
Content(q) ==
    IF q.kind = "memory" THEN FlattenSeq(Inputs[q.of].frags)
    ELSE IF Entries[q.of].method = "store" \/ q.raw \/ Entries[q.of].comp = 0
    THEN Take(Drop(file, Entries[q.of].at + 1 + q.start), Extent(q))
    ELSE IF Partial(q.of, q.start, q.len)
    THEN Take(Drop(Plain(q.of), q.start), Length(q.of, q.start, q.len))
    ELSE Plain(q.of)

Opens == {r \in Readers : rd[r] # NoReader}

\* Whom the last answer is for, if it was this.
Heard(what) == {r \in Opens : told.by = r /\ told.what = what}
Compresses(q) == Last(q.st).kind = "comp"
Validates(q) == Last(q.st).kind = "crc" /\ Last(q.st).c.validate

\* The entry is in the file as the directory says.
Intact(i) == Plain(i) = Sound(i) /\ Len(Sound(i)) = Entries[i].size

\* No layer's position leaves what it has below it.
InBounds(y) ==
    /\ y.kind = "window" => y.c.off <= y.c.end
    /\ y.kind = "crc" => Len(y.c.crc) = y.c.upto
    /\ y.kind = "buffer" => y.c.cur \in 1..Len(y.c.frags) + 1

\* Whatever order readers take turns in, each gets the data at its own
\* position in its own entry, and hears that position when it asks: no step
\* of one moves another, and no seek takes a layer out of its data.  The
\* position in the file is shared; window_read seeks before each read.
ReadsInPlace ==
    /\ \A r \in Heard("data") :
          ~Compresses(rd[r]) =>
              told.d = SubSeq(Content(rd[r]), told.at + 1, told.at + Len(told.d))
    /\ Heard("tell") # {} => told.d = <<told.at>>
    /\ \A r \in Opens : \A k \in DOMAIN rd[r].st : InBounds(rd[r].st[k])

\* The end of the data is reported at the end of what was asked for and
\* nowhere else: a file or a deflated stream that stops early is an error.
EofIsEnd ==
    \A r \in Heard("eof") :
        LET q == rd[r]
        IN  ~Compresses(q) =>
            told.at = IF q.kind = "memory" \/ q.raw \/ Entries[q.of].method = "store"
                            \/ Partial(q.of, q.start, q.len)
                      THEN Extent(q) ELSE Len(Sound(q.of))

\* A reader of a whole entry that is told of the end without having sought,
\* or whose CRC layer has seen everything, has read what was archived:
\* damage never passes for the end of the data (crc_read).
EofIsIntact ==
    \A r \in Heard("eof") :
        LET q == rd[r]
        IN  Validates(q) /\ (q.straight \/ Last(q.st).c.complete) =>
                /\ Content(q) = Sound(q.of)
                /\ Entries[q.of].method = "store" => Len(Sound(q.of)) = Entries[q.of].size

\* All of what a reader asks for is there and sound.
Sane(q) ==
    IF q.kind = "memory" THEN TRUE
    ELSE IF ~Validates(q) THEN Len(Content(q)) = Extent(q)
    ELSE Intact(q.of)

\* Reading sound data of an archive that exists fails only when the system
\* fails: no seek, reopening or other reader makes an entry unreadable.
NoSpuriousErrors ==
    \A r \in Heard("error") : faults > 0 \/ ~za \/ ~Sane(rd[r])

Holding == {r \in Opens : OnFile(rd[r].st)}
One(b) == IF b THEN 1 ELSE 0

\* The file source is held once by the archive and once by each stack on it,
\* is open once for each that is open, and a layer is open just when the one
\* above is: failed opens and zip_discard before zip_fclose included, so
\* that the source is closed by the last to leave and never before.
Lifetimes ==
    /\ base.refs = One(za) + Cardinality(Holding)
    /\ base.count = One(za) + Cardinality({r \in Holding : rd[r].st[1].count > 0})
    /\ reg = IF za THEN Holding ELSE {}
    /\ ~za => \A r \in Holding : rd[r].st[1].closed
    /\ \A r \in Opens : \A k \in 1..Len(rd[r].st) - 1 :
          rd[r].st[k].count = One(rd[r].st[k + 1].count > 0)

\* What a compressor has given out when it ends is all of one encoding of
\* the input: the input itself if it is marked as stored, otherwise the
\* complete deflated stream; and the CRC and sizes zip_close then writes to
\* the header are those of the input and of the output (compress_read).
CompressorFaithful ==
    \A r \in Heard("eof") :
        LET q == rd[r]
            in == Inputs[q.of]
            c == Last(q.st).c
        IN  Compresses(q) /\ q.kind = "memory" =>
            /\ q.out = IF c.stored THEN FlattenSeq(in.frags) ELSE ZCells(0, in.total)
            /\ c.stored => in.can
            /\ c.size = Len(q.out)
            /\ q.st[2].c.complete /\ q.st[2].c.crc = FlattenSeq(in.frags)

\* ZipArchive::getEntry returns all of an entry that is sound, unless the
\* system failed to read, whatever other readers did to the file source.
GetEntryWhole ==
    told.what = "entry" /\ faults = 0 /\ Intact(told.at) =>
        told.d = Sound(told.at) /\ crash = "no"
=============================================================================
