------------------------------- MODULE Buffer -------------------------------
(***************************************************************************)
(* Buffer: a vector of bytes with a reader and a writer index,             *)
(*                                                                         *)
(*   prependable | readable (the content) | writable                       *)
(*   0 ........ reader ................ writer ........ size               *)
(*                                                                         *)
(* Its functions are operators on a record [mem, reader, writer]; mem[i+1] *)
(* is buffer_[i].  Byte k is the k-th one put in; 0 is a byte nobody put   *)
(* in.  A Buffer belongs to one thread, so every function is one step.     *)
(***************************************************************************)
EXTENDS Naturals, Sequences

CONSTANTS
    kCheapPrepend,  \* 8 in the code
    kInitialSize,   \* 1024 in the code
    ExtraBuf,       \* sizeof(extrabuf) in ReadFd, 65536 in the code
    MaxLen,         \* longest argument of Append and EnsureWritableBytes
    MaxBytes        \* bytes put in in all

ASSUME BufferAssumption ==
    /\ kCheapPrepend \in Nat /\ kInitialSize \in Nat /\ ExtraBuf \in Nat
    /\ MaxLen \in Nat /\ MaxBytes \in Nat

VARIABLES
    b,         \* the Buffer
    given,     \* history: bytes put in so far
    handed     \* the bytes the last call returned or wrote to the fd

vars == <<b, given, handed>>

BufferState ==
    {x \in [mem : Seq(Nat), reader : Nat, writer : Nat] :
        /\ kCheapPrepend <= x.reader
        /\ x.reader <= x.writer
        /\ x.writer <= Len(x.mem)}

ReadableBytes(x)    == x.writer - x.reader
WritableBytes(x)    == Len(x.mem) - x.writer
PrependableBytes(x) == x.reader

\* The content, from Peek() to BeginWrite().
Content(x) == [i \in 1..ReadableBytes(x) |-> x.mem[x.reader + i]]

At(mem, reader, writer) == [mem |-> mem, reader |-> reader, writer |-> writer]

RetrieveAll(x) == At(x.mem, kCheapPrepend, kCheapPrepend)

Retrieve(x, len) ==
    IF len < ReadableBytes(x) THEN At(x.mem, x.reader + len, x.writer)
    ELSE RetrieveAll(x)

\* buffer_.resize(n), n being larger than the size: zeros are added.
Resized(mem, n) == [i \in 1..n |-> IF i <= Len(mem) THEN mem[i] ELSE 0]

\* The data is copied to index at, that is over mem[at+1] and on.
Copied(mem, at, data) ==
    [i \in 1..Len(mem) |->
        IF at < i /\ i <= at + Len(data) THEN data[i - at] ELSE mem[i]]

\* Move the content down to kCheapPrepend.
Compact(x) ==
    At(Copied(x.mem, kCheapPrepend, Content(x)),
       kCheapPrepend, kCheapPrepend + ReadableBytes(x))

MakeSpaceIntoPrepend(x, len) ==
    IF PrependableBytes(x) + WritableBytes(x) < len
    THEN At(Resized(x.mem, x.writer + len), x.reader, x.writer)
    ELSE Compact(x)

MakeSpaceAlwaysGrows(x, len) == At(Resized(x.mem, x.writer + len), x.reader, x.writer)

MakeSpace(x, len) ==
    IF PrependableBytes(x) + WritableBytes(x) < len + kCheapPrepend
    THEN At(Resized(x.mem, x.writer + len), x.reader, x.writer)
    ELSE Compact(x)

EnsureWritableBytes(x, len) ==
    IF WritableBytes(x) < len THEN MakeSpace(x, len) ELSE x

\* Data stored at BeginWrite() becomes part of the content.
Filled(x, data) ==
    At(Copied(x.mem, x.writer, data), x.reader, x.writer + Len(data))

\* Append
AppendBytes(x, data) == Filled(EnsureWritableBytes(x, Len(data)), data)

\* ReadFd: readv fills the writable bytes and then extrabuf.
ReadFdForgetsWriter(x, data) ==
    LET n == WritableBytes(x)
    IN  IF Len(data) <= n
        THEN Filled(x, data)
        ELSE AppendBytes(At(Copied(x.mem, x.writer, SubSeq(data, 1, n)),
                            x.reader, x.writer),
                         SubSeq(data, n + 1, Len(data)))

ReadFd(x, data) ==
    LET n == WritableBytes(x)
    IN  IF Len(data) <= n
        THEN Filled(x, data)
        ELSE AppendBytes(Filled(x, SubSeq(data, 1, n)),
                         SubSeq(data, n + 1, Len(data)))

\* The most readv can return: two buffers unless the first is large enough.
ReadLimit(x) ==
    IF WritableBytes(x) < ExtraBuf THEN WritableBytes(x) + ExtraBuf
    ELSE WritableBytes(x)

-----------------------------------------------------------------------------
Init ==
    /\ b = [mem |-> [i \in 1..(kCheapPrepend + kInitialSize) |-> 0],
            reader |-> kCheapPrepend, writer |-> kCheapPrepend]
    /\ given = 0
    /\ handed = <<>>

\* The next n bytes.
Fresh(n) == [i \in 1..n |-> given + i]

AppendCall(n) ==
    /\ given + n <= MaxBytes
    /\ b' = AppendBytes(b, Fresh(n))
    /\ given' = given + n
    /\ handed' = <<>>

\* ReadFd returns n > 0; on 0 and on an error the Buffer stays as it is.
ReadFdCall(n) ==
    /\ given + n <= MaxBytes
    /\ n <= ReadLimit(b)
    /\ b' = ReadFd(b, Fresh(n))
    /\ given' = given + n
    /\ handed' = <<>>

EnsureWritableCall(n) ==
    /\ b' = EnsureWritableBytes(b, n)
    /\ handed' = <<>>
    /\ UNCHANGED given

\* Retrieve, RetrieveUntil and RetrieveAll; the length may exceed what is
\* readable.
RetrieveCall(n) ==
    /\ b' = Retrieve(b, n)
    /\ handed' = <<>>
    /\ UNCHANGED given

\* RetrieveAsString, RetrieveAllAsString, and WriteFd when write takes n
\* bytes.  The callers ask for what is readable at most.
TakeOut(n) ==
    /\ n <= ReadableBytes(b)
    /\ b' = Retrieve(b, n)
    /\ handed' = [i \in 1..n |-> b.mem[b.reader + i]]
    /\ UNCHANGED given

Next ==
    \/ \E n \in 0..MaxLen : AppendCall(n) \/ EnsureWritableCall(n)
    \/ \E n \in 1..MaxBytes : ReadFdCall(n)
    \/ \E n \in 0..MaxBytes : RetrieveCall(n) \/ TakeOut(n)

Spec == Init /\ [][Next]_vars

-----------------------------------------------------------------------------
(* Properties                                                              *)

\* The indices stay in order and the vector's bytes are bytes: the layout
\* that the header's picture shows, with kCheapPrepend bytes free in front.
TypeOK ==
    /\ b \in BufferState
    /\ given \in Nat
    /\ handed \in Seq(Nat)

\* A Buffer is a queue of bytes: nothing is lost, repeated, reordered or
\* overwritten, whichever way the vector is compacted or grown and wherever
\* ReadFd splits the data between the vector and its stack buffer.
Abstract == INSTANCE ByteQueue WITH content <- Content(b)
ImplementsByteQueue == Abstract!BQSpec

\* The vector grows only when the content and what is asked for do not fit
\* into it (MakeSpace): space freed by reads is used again first.
GrowsOnlyWhenFull ==
    [][Len(b'.mem) > Len(b.mem) =>
          ReadableBytes(b') + WritableBytes(b') > Len(b.mem) - kCheapPrepend]_vars

=============================================================================
