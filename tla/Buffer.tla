------------------------------- MODULE Buffer -------------------------------
(***************************************************************************)
(* One Buffer of v1.7: the vector data_ and the two indices into it.       *)
(*                                                                         *)
(*     0      <=    readIndex   <=   writeIndex   <=    Len(data)          *)
(*     |    pre     |    readable    |    writable    |                    *)
(*                                                                         *)
(* Bytes are copied in behind writeIndex and taken out at readIndex; only  *)
(* makeSpace() moves or grows anything.  An input buffer is filled by      *)
(* readFd() and emptied by the application, an output buffer is filled by  *)
(* append() and emptied by handleWrite(); here every call may follow every *)
(* other.  Indices count from 0 as in the code: cell i is data[i + 1].     *)
(***************************************************************************)
EXTENDS Integers, Sequences

CONSTANTS
    Byte,           \* the contents of a cell
    Zero,           \* what resize() puts into new cells
    Chunks,         \* the byte sequences that one call may bring
    Prepend,        \* Buffer::Prepend
    InitSize,       \* the constructor's argument
    ExtraBuf,       \* the size of readFd()'s second buffer
    MaxReadable     \* bound: how much the callers let pile up

ASSUME ByteAssumption == Zero \in Byte /\ Chunks \subseteq Seq(Byte)
ASSUME SizeAssumption ==
    /\ Prepend \in Nat /\ InitSize \in Nat /\ Prepend <= InitSize
    /\ ExtraBuf \in Nat /\ MaxReadable \in Nat

VARIABLES
    buf,            \* the object
    port            \* ghost: the bytes that came in or went out last

bufferVars == <<buf, port>>

BufType == [data : Seq(Byte), readIndex : Nat, writeIndex : Nat, ok : BOOLEAN]

WritableSize(b) == Len(b.data) - b.writeIndex
ReadableSize(b) == b.writeIndex - b.readIndex
PreSize(b) == b.readIndex

(* What a reader of the buffer sees. *)
Content(b) == SubSeq(b.data, b.readIndex + 1, b.writeIndex)

(* std::vector(n) and resize(n) to more: new cells are zero. *)
Resized(data, n) == [i \in 1..n |-> IF i <= Len(data) THEN data[i] ELSE Zero]

(* std::copy of the bytes to the cells from index `to' on; what falls beyond *)
(* the vector is out of its bounds.                                          *)
Copied(data, bytes, to) ==
    [i \in 1..Len(data) |-> IF i - to \in 1..Len(bytes) THEN bytes[i - to] ELSE data[i]]

NewBuffer ==
    [data |-> [i \in 1..InitSize |-> Zero],
     readIndex |-> Prepend, writeIndex |-> Prepend, ok |-> TRUE]

(* ok is the assertion that the length fits. *)
HasWritten(b, len) ==
    [b EXCEPT !.ok = b.ok /\ len <= WritableSize(b),
              !.writeIndex = b.writeIndex + len]

(* Mutant: the reserved cells are taken for room. *)
IsTightNoPrepend(b, len) == WritableSize(b) + PreSize(b) < len

(* Mutant: room in front is never used. *)
IsTightAlways(b, len) == TRUE

(* No room even with the cells in front, but for the reserved ones. *)
IsTight(b, len) == WritableSize(b) + PreSize(b) < len + Prepend

Grown(b, len) == [b EXCEPT !.data = Resized(b.data, b.writeIndex + len)]

(* The copy is defined only if its target does not lie within its source. *)
MovedToFront(b) ==
    [data |-> Copied(b.data, Content(b), Prepend),
     readIndex |-> Prepend,
     writeIndex |-> Prepend + ReadableSize(b),
     ok |-> b.ok /\ (ReadableSize(b) = 0 \/ Prepend < b.readIndex)]

MakeSpace(b, len) == IF IsTight(b, len) THEN Grown(b, len) ELSE MovedToFront(b)

EnsureWritableSize(b, len) ==
    IF WritableSize(b) < len THEN MakeSpace(b, len) ELSE b

Appended(b, bytes) ==
    LET room == EnsureWritableSize(b, Len(bytes))
    IN HasWritten([room EXCEPT !.data = Copied(room.data, bytes, room.writeIndex)],
                  Len(bytes))

(* Mutant: the bytes that the vector took are not counted. *)
ReadFdForgetsFull(b, bytes) ==
    LET writable == WritableSize(b)
        filled == [b EXCEPT !.data = Copied(b.data, bytes, b.writeIndex)]
    IN IF Len(bytes) <= writable
       THEN [filled EXCEPT !.writeIndex = b.writeIndex + Len(bytes)]
       ELSE Appended(filled, SubSeq(bytes, writable + 1, Len(bytes)))

(* readv() fills the vector first and then extrabuf, which is appended. *)
ReadFd(b, bytes) ==
    LET writable == WritableSize(b)
        filled == [b EXCEPT !.data = Copied(b.data, bytes, b.writeIndex)]
    IN IF Len(bytes) <= writable
       THEN [filled EXCEPT !.writeIndex = b.writeIndex + Len(bytes)]
       ELSE Appended([filled EXCEPT !.writeIndex = Len(b.data)],
                    SubSeq(bytes, writable + 1, Len(bytes)))

RetrieveAll(b) == [b EXCEPT !.readIndex = Prepend, !.writeIndex = Prepend]

(* Mutant: more than there is may be taken. *)
RetrieveUnchecked(b, len) == [b EXCEPT !.readIndex = b.readIndex + len]

Retrieve(b, len) ==
    IF len < ReadableSize(b)
    THEN [b EXCEPT !.readIndex = b.readIndex + len]
    ELSE RetrieveAll(b)

-----------------------------------------------------------------------------
(* The calls. *)

Init ==
    /\ buf = NewBuffer
    /\ port = <<>>

(* The kernel has these bytes; readv() takes all that both buffers hold. *)
ReadFdCall(bytes) ==
    /\ Len(bytes) <= WritableSize(buf) + ExtraBuf
    /\ ReadableSize(buf) + Len(bytes) <= MaxReadable
    /\ buf' = ReadFd(buf, bytes)
    /\ port' = bytes

AppendCall(bytes) ==
    /\ ReadableSize(buf) + Len(bytes) <= MaxReadable
    /\ buf' = Appended(buf, bytes)
    /\ port' = bytes

EnsureCall(len) ==
    /\ ReadableSize(buf) + len <= MaxReadable
    /\ buf' = EnsureWritableSize(buf, len)
    /\ UNCHANGED port

RetrieveCall(len) ==
    /\ buf' = Retrieve(buf, len)
    /\ port' = <<>>

RetrieveAsString(len) ==
    /\ len <= ReadableSize(buf)
    /\ port' = SubSeq(buf.data, buf.readIndex + 1, buf.readIndex + len)
    /\ buf' = Retrieve(buf, len)

Next ==
    \/ \E bytes \in Chunks : ReadFdCall(bytes) \/ AppendCall(bytes)
    \/ \E len \in 0..MaxReadable :
          EnsureCall(len) \/ RetrieveCall(len) \/ RetrieveAsString(len)

Spec == Init /\ [][Next]_bufferVars

-----------------------------------------------------------------------------
(* The properties. *)

(* The reserved cells stay in front, and the indices keep their order, so    *)
(* that no size_t difference wraps.  (Buffer.h:17-19)                        *)
TypeOK ==
    /\ buf \in BufType
    /\ Prepend <= buf.readIndex
    /\ buf.readIndex <= buf.writeIndex
    /\ buf.writeIndex <= Len(buf.data)
    /\ port \in Seq(Byte)

(* The assertion of hasWritten() and what std::copy asks of makeSpace() hold: *)
(* nothing is copied beyond the vector, and the cells are only ever moved     *)
(* towards the front.  (Buffer.cpp:46-51, 72-76, 83)                          *)
NoFault == buf.ok

(* An empty buffer has all its room again: nobody has to make space for as   *)
(* long as everything is taken out.  (Buffer.cpp:87-103)                     *)
EmptyIsReset == ReadableSize(buf) = 0 => buf.writeIndex = Prepend

(* The vector takes less than twice what the callers let pile up, however    *)
(* long the stream: cells in front are used again before more are asked for. *)
(* (Buffer.cpp:63-76)                                                        *)
SizeBound ==
    Len(buf.data) <= InitSize \/ Len(buf.data) < Prepend + 2 * MaxReadable

(* The buffer is a queue of bytes.  (Buffer.cpp:18-116)                      *)
Stream == INSTANCE ByteStream WITH queue <- Content(buf)
StreamSpec == Stream!Spec
=============================================================================
