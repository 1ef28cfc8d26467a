------------------------------ MODULE MsgBuffer ------------------------------
(***************************************************************************)
(* src/utils/msg_buffer.cpp: the bytes between head_ and tail_ of a vector *)
(* are what was written and not yet read.  The bytes written are numbered  *)
(* 1, 2, ... in the order of the writes, so that it shows which are where; *)
(* 0 is a byte of a fresh vector.                                          *)
(***************************************************************************)
EXTENDS Naturals, Sequences

CONSTANTS
  InitialSize,   (* of the vector                                          *)
  ExtraSize,     (* of the array ReadFile has beside the buffer            *)
  Chunks,        (* sizes in which callers write and read                  *)
  MaxBytes       (* bound: bytes written in all                            *)

ASSUME BufferAssumption ==
  /\ InitialSize \in Nat /\ ExtraSize \in Nat /\ MaxBytes \in Nat
  /\ Chunks \subseteq Nat

VARIABLES
  buf,       (* head_, tail_ and buffer_                                   *)
  written,   (* history: number of the last byte written                   *)
  taken      (* history: number of the last byte the reader was given      *)

vars == <<buf, written, taken>>

Fresh(size) == [head |-> 0, tail |-> 0, data |-> [i \in 1 .. size |-> 0]]

Init == buf = Fresh(InitialSize) /\ written = 0 /\ taken = 0

ReadableSize(b) == b.tail - b.head
WritableSize(b) == Len(b.data) - b.tail

(* Data(): the bytes from Peek() on. *)
Data(b) == SubSeq(b.data, b.head + 1, b.tail)

-----------------------------------------------------------------------------
(* std::copy of bytes over data, behind the first at elements. *)
CopyTo(data, at, bytes) ==
  [i \in 1 .. Len(data) |-> IF i - at \in 1 .. Len(bytes) THEN bytes[i - at] ELSE data[i]]

Clear(b) == [b EXCEPT !.head = 0, !.tail = 0]

(* Mutant of Compact: the bytes are not moved. *)
CompactInPlace(b) ==
  IF b.head = 0 THEN b
  ELSE IF b.tail = b.head THEN Clear(b)
  ELSE [b EXCEPT !.tail = @ - b.head, !.head = 0]

Compact(b) ==
  IF b.head = 0 THEN b
  ELSE IF b.tail = b.head THEN Clear(b)
  ELSE [b EXCEPT !.data = CopyTo(@, 0, Data(b)), !.tail = @ - b.head, !.head = 0]

(* Write(MsgBuffer const&), when there is room: the bytes are copied behind   *)
(* the readable ones, but tail_ stays.                                        *)
WriteOther(b, other) == [b EXCEPT !.data = CopyTo(@, b.tail, Data(other))]

NewSize(b, size) ==
  IF 2 * Len(b.data) > ReadableSize(b) + size THEN 2 * Len(b.data)
  ELSE ReadableSize(b) + size

(* Mutant of EnsureSize: what is in front of head_ counts as room at once. *)
EnsureSizeNoCompact(b, size) ==
  IF b.head + WritableSize(b) >= size THEN b
  ELSE WriteOther(Fresh(NewSize(b, size)), b)

EnsureSize(b, size) ==
  IF WritableSize(b) >= size THEN b
  ELSE IF b.head + WritableSize(b) >= size THEN Compact(b)
  ELSE WriteOther(Fresh(NewSize(b, size)), b)

(* Write(data, size). *)
Write(b, bytes) ==
  LET e == EnsureSize(b, Len(bytes))
  IN [e EXCEPT !.data = CopyTo(@, e.tail, bytes), !.tail = @ + Len(bytes)]

(* ReadFile when readv() brought bytes: into the buffer, then into the array, *)
(* whose part is written after it.                                            *)
ReadFile(b, bytes) ==
  LET room == WritableSize(b)
      full == [b EXCEPT !.data = CopyTo(@, b.tail, SubSeq(bytes, 1, room)), !.tail = Len(b.data)]
  IN IF Len(bytes) <= room
     THEN [b EXCEPT !.data = CopyTo(@, b.tail, bytes), !.tail = @ + Len(bytes)]
     ELSE Write(full, SubSeq(bytes, room + 1, Len(bytes)))

(* Read(size): a longer read is cut. *)
Given(b, size) == IF size > ReadableSize(b) THEN ReadableSize(b) ELSE size

Read(b, size) == [b EXCEPT !.head = @ + Given(b, size)]

(* Mutant of Retrieve: the boundary of RetrieveAll is moved by one. *)
RetrieveEarly(b, size) ==
  IF size + 1 >= ReadableSize(b) THEN Clear(b) ELSE [b EXCEPT !.head = @ + size]

Retrieve(b, size) ==
  IF size >= ReadableSize(b) THEN Clear(b) ELSE [b EXCEPT !.head = @ + size]

-----------------------------------------------------------------------------
(* The next size bytes of the stream. *)
Bytes(size) == [i \in 1 .. size |-> written + i]

WriteStep == \E size \in Chunks :
  /\ written + size <= MaxBytes
  /\ buf' = Write(buf, Bytes(size))
  /\ written' = written + size
  /\ UNCHANGED taken

ReadFileStep == \E size \in Chunks :
  /\ written + size <= MaxBytes
  /\ size <= WritableSize(buf) + (IF WritableSize(buf) < ExtraSize THEN ExtraSize ELSE 0)
  /\ buf' = ReadFile(buf, Bytes(size))
  /\ written' = written + size
  /\ UNCHANGED taken

(* The reader is given bytes by Read, or looks at them and retrieves them. *)
ReadStep == \E size \in Chunks :
  /\ taken' = IF Given(buf, size) = 0 THEN taken ELSE buf.data[buf.head + Given(buf, size)]
  /\ buf' = Read(buf, size) \/ buf' = Retrieve(buf, size)
  /\ UNCHANGED written

CompactStep == buf' = Compact(buf) /\ UNCHANGED <<written, taken>>

EnsureSizeStep == \E size \in Chunks :
  buf' = EnsureSize(buf, size) /\ UNCHANGED <<written, taken>>

(* A buffer with size readable bytes. *)
Filled(size) == [Fresh(size) EXCEPT !.tail = size]

(* A caller's Write of another buffer makes room, and nothing readable: it is *)
(* no write of the stream's bytes.                                            *)
WriteOtherStep == \E size \in Chunks :
  buf' = WriteOther(EnsureSize(buf, size), Filled(size)) /\ UNCHANGED <<written, taken>>

Next ==
  \/ WriteStep \/ ReadFileStep \/ ReadStep
  \/ CompactStep \/ EnsureSizeStep \/ WriteOtherStep

Spec == Init /\ [][Next]_vars

-----------------------------------------------------------------------------
TypeOK ==
  /\ Len(buf.data) >= InitialSize
  /\ buf.data \in [1 .. Len(buf.data) -> 0 .. MaxBytes]
  /\ buf.tail \in 0 .. Len(buf.data) /\ buf.head \in 0 .. buf.tail
  /\ written \in 0 .. MaxBytes /\ taken \in 0 .. MaxBytes

(* What can be read is the end of what was written, in order: compaction,     *)
(* growth and the two parts of a ReadFile neither shift nor mix bytes.        *)
ReadableIsSuffix ==
  \A i \in 1 .. ReadableSize(buf) : Data(buf)[i] = written - ReadableSize(buf) + i

(* A byte that nobody read disappears only when the vector grows.             *)
LostOnlyByGrowth ==
  [][taken' = written' - ReadableSize(buf)' \/ taken # written - ReadableSize(buf)
     \/ Len(buf.data)' > Len(buf.data)]_vars

(* What is written is what is read, as test/msg_buffer_test.cpp checks of one *)
(* string.                                                                    *)
ReadsBack == taken = written - ReadableSize(buf)
=============================================================================
