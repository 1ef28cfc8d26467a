--------------------------- MODULE MsgBufferProofs ---------------------------
(***************************************************************************)
(* MsgBuffer.tla for a vector of any size and any sizes of writes and      *)
(* reads: the indices stay in the vector, the readable bytes are the last  *)
(* ones written, and bytes are lost by growth only.                        *)
(***************************************************************************)
EXTENDS MsgBuffer, SequenceTheorems, TLAPS

Byte == 0 .. MaxBytes

Buffer == [head : Nat, tail : Nat, data : Seq(Byte)]

(* A buffer whose indices are in order. *)
Shape(b) ==
  /\ b \in Buffer
  /\ b.head <= b.tail /\ b.tail <= Len(b.data) /\ Len(b.data) >= InitialSize

(* What is readable ends with the byte numbered last. *)
EndsWith(b, last) ==
  \A i \in Nat : b.head < i /\ i <= b.tail => b.data[i] = last - b.tail + i

(* Bytes that follow the one numbered last. *)
Follow(bytes, last) == \A i \in 1 .. Len(bytes) : bytes[i] = last + i

IInv ==
  /\ Shape(buf) /\ EndsWith(buf, written)
  /\ written \in Byte /\ taken \in Byte

LEMMA FunctionIsSeq ==
  ASSUME NEW S, NEW n \in Nat, NEW f \in [1 .. n -> S]
  PROVE  f \in Seq(S) /\ Len(f) = n /\ DOMAIN f = 1 .. n
<1>1. f \in Seq(S)
  BY SeqDef
<1>2. DOMAIN f = 1 .. n /\ DOMAIN f = 1 .. Len(f) /\ Len(f) \in Nat
  BY <1>1, LenProperties
<1>. QED
  BY <1>1, <1>2

(* CopyTo keeps the size, and changes what it says it changes. *)
LEMMA Copied ==
  ASSUME NEW data \in Seq(Byte), NEW bytes \in Seq(Byte), NEW at \in Nat
  PROVE  /\ CopyTo(data, at, bytes) \in Seq(Byte)
         /\ Len(CopyTo(data, at, bytes)) = Len(data)
         /\ \A i \in 1 .. Len(data) : CopyTo(data, at, bytes)[i] =
              IF at < i /\ i <= at + Len(bytes) THEN bytes[i - at] ELSE data[i]
<1>. DEFINE copy == CopyTo(data, at, bytes)
<1>1. /\ Len(data) \in Nat /\ data \in [1 .. Len(data) -> Byte]
      /\ Len(bytes) \in Nat /\ bytes \in [1 .. Len(bytes) -> Byte]
  BY LenProperties
<1>2. \A i \in 1 .. Len(data) :
        (i - at \in 1 .. Len(bytes)) <=> (at < i /\ i <= at + Len(bytes))
  BY <1>1
<1>3. copy \in [1 .. Len(data) -> Byte]
  BY <1>1 DEF CopyTo
<1>4. copy \in Seq(Byte) /\ Len(copy) = Len(data)
  <2>. HIDE DEF copy
  <2>. QED BY <1>1, <1>3, FunctionIsSeq
<1>5. \A i \in 1 .. Len(data) : copy[i] =
        IF at < i /\ i <= at + Len(bytes) THEN bytes[i - at] ELSE data[i]
  BY <1>2 DEF CopyTo
<1>. QED
  BY <1>4, <1>5

(* Data gives the readable bytes. *)
LEMMA Readable ==
  ASSUME NEW b, Shape(b)
  PROVE  /\ Data(b) \in Seq(Byte)
         /\ Len(Data(b)) = ReadableSize(b)
         /\ ReadableSize(b) \in Nat /\ WritableSize(b) \in Nat
         /\ \A i \in 1 .. ReadableSize(b) : Data(b)[i] = b.data[b.head + i]
<1>1. /\ b.head \in Nat /\ b.tail \in Nat /\ b.data \in Seq(Byte) /\ Len(b.data) \in Nat
      /\ b.data \in [1 .. Len(b.data) -> Byte]
      /\ b.head <= b.tail /\ b.tail <= Len(b.data)
  BY LenProperties DEF Shape, Buffer
<1>2. \A i \in b.head + 1 .. b.tail : b.data[i] \in Byte
  BY <1>1
<1>3. /\ Data(b) \in Seq(Byte)
      /\ Len(Data(b)) = IF b.head + 1 <= b.tail THEN b.tail - (b.head + 1) + 1 ELSE 0
      /\ \A i \in 1 .. b.tail - (b.head + 1) + 1 : Data(b)[i] = b.data[b.head + 1 + i - 1]
  <2>1. b.head + 1 \in Int /\ b.tail \in Int
    BY <1>1
  <2>. QED BY <1>2, <2>1, SubSeqProperties DEF Data
<1>4. \A i \in 1 .. b.tail - b.head : b.head + 1 + i - 1 = b.head + i
  BY <1>1
<1>5. b.tail - (b.head + 1) + 1 = b.tail - b.head
  BY <1>1
<1>6. ReadableSize(b) = b.tail - b.head /\ ReadableSize(b) \in Nat /\ WritableSize(b) \in Nat
  BY <1>1 DEF ReadableSize, WritableSize
<1>7. Len(Data(b)) = b.tail - b.head
  BY <1>1, <1>3, <1>5
<1>8. \A i \in 1 .. b.tail - b.head : Data(b)[i] = b.data[b.head + i]
  BY <1>3, <1>4, <1>5
<1>. QED
  BY <1>3, <1>6, <1>7, <1>8

(* Compact moves the readable bytes to the front. *)
LEMMA Compacted ==
  ASSUME NEW b, Shape(b), NEW last \in Byte, EndsWith(b, last)
  PROVE  /\ Shape(Compact(b)) /\ EndsWith(Compact(b), last)
         /\ ReadableSize(Compact(b)) = ReadableSize(b)
         /\ Len(Compact(b).data) = Len(b.data)
         /\ WritableSize(Compact(b)) = b.head + WritableSize(b)
<1>1. /\ b.head \in Nat /\ b.tail \in Nat /\ b.data \in Seq(Byte) /\ Len(b.data) \in Nat
      /\ b.head <= b.tail /\ b.tail <= Len(b.data) /\ Len(b.data) >= InitialSize
      /\ b = [head |-> b.head, tail |-> b.tail, data |-> b.data]
  BY LenProperties DEF Shape, Buffer
<1>2. CASE b.head = 0
  BY <1>1, <1>2 DEF Compact, ReadableSize, WritableSize
<1>3. CASE b.head # 0 /\ b.tail = b.head
  <2>1. Compact(b) = [head |-> 0, tail |-> 0, data |-> b.data]
    BY <1>1, <1>3 DEF Compact, Clear
  <2>. QED
    BY <1>1, <1>3, <2>1, BufferAssumption
    DEF Shape, Buffer, EndsWith, ReadableSize, WritableSize
<1>4. CASE b.head # 0 /\ b.tail # b.head
  <2>. DEFINE d == CopyTo(b.data, 0, Data(b))
  <2>1. Compact(b) = [head |-> 0, tail |-> b.tail - b.head, data |-> d]
    BY <1>1, <1>4 DEF Compact
  <2>2. /\ Data(b) \in Seq(Byte) /\ Len(Data(b)) = b.tail - b.head
        /\ \A i \in 1 .. b.tail - b.head : Data(b)[i] = b.data[b.head + i]
    BY Readable DEF ReadableSize
  <2>3. /\ d \in Seq(Byte) /\ Len(d) = Len(b.data)
        /\ \A i \in 1 .. Len(b.data) :
             d[i] = IF 0 < i /\ i <= 0 + Len(Data(b)) THEN Data(b)[i - 0] ELSE b.data[i]
    <3>1. b.data \in Seq(Byte) /\ Data(b) \in Seq(Byte) /\ 0 \in Nat
      BY <1>1, <2>2
    <3>. QED BY ONLY <3>1, Copied, Zenon DEF d
  <2>. HIDE DEF d
  <2>4. Shape(Compact(b))
    BY <1>1, <2>1, <2>3 DEF Shape, Buffer
  <2>5. ASSUME NEW i \in Nat, 0 < i, i <= b.tail - b.head
        PROVE  d[i] = last - (b.tail - b.head) + i
    <3>1. d[i] = b.data[b.head + i]
      <4>1. i \in 1 .. Len(b.data) /\ i \in 1 .. b.tail - b.head /\ i - 0 = i
        BY <1>1, <2>5
      <4>2. 0 < i /\ i <= 0 + Len(Data(b))
        BY <1>1, <2>2, <2>5
      <4>. QED BY <2>2, <2>3, <4>1, <4>2
    <3>2. b.head + i \in Nat /\ b.head < b.head + i /\ b.head + i <= b.tail
      BY <1>1, <2>5
    <3>3. b.data[b.head + i] = last - b.tail + (b.head + i)
      BY <3>2 DEF EndsWith
    <3>. QED BY <1>1, <3>1, <3>3 DEF Byte
  <2>6. EndsWith(Compact(b), last)
    BY <2>1, <2>5 DEF EndsWith
  <2>. QED
    BY <1>1, <2>1, <2>3, <2>4, <2>6 DEF ReadableSize, WritableSize
<1>. QED
  BY <1>2, <1>3, <1>4

(* A fresh vector is a buffer with nothing in it, and so it stays when bytes *)
(* are copied into it: growth drops what was readable.                       *)
LEMMA Grown ==
  ASSUME NEW b, Shape(b), NEW size \in Nat, ~(b.head + WritableSize(b) >= size)
  PROVE  LET g == WriteOther(Fresh(NewSize(b, size)), b)
         IN /\ Shape(g) /\ g.head = 0 /\ g.tail = 0
            /\ WritableSize(g) >= size /\ Len(g.data) > Len(b.data)
<1>. DEFINE n == NewSize(b, size)
            zeros == [i \in 1 .. n |-> 0]
            d == CopyTo(zeros, 0, Data(b))
            g == WriteOther(Fresh(n), b)
<1>1. /\ b.head \in Nat /\ b.tail \in Nat /\ Len(b.data) \in Nat
      /\ b.head <= b.tail /\ b.tail <= Len(b.data) /\ Len(b.data) >= InitialSize
      /\ InitialSize \in Nat
  BY LenProperties, BufferAssumption DEF Shape, Buffer
<1>2. n \in Nat /\ n >= size /\ n > Len(b.data)
  BY <1>1 DEF NewSize, ReadableSize, WritableSize
<1>3. zeros \in Seq(Byte) /\ Len(zeros) = n
  <2>1. zeros \in [1 .. n -> Byte]
    BY BufferAssumption DEF Byte
  <2>. HIDE DEF zeros, n
  <2>. QED BY <1>2, <2>1, FunctionIsSeq
<1>4. d \in Seq(Byte) /\ Len(d) = n
  <2>1. Data(b) \in Seq(Byte) /\ 0 \in Nat
    BY Readable
  <2>. HIDE DEF zeros, n
  <2>2. CopyTo(zeros, 0, Data(b)) \in Seq(Byte) /\ Len(CopyTo(zeros, 0, Data(b))) = Len(zeros)
    BY ONLY <1>3, <2>1, Copied, Zenon
  <2>. QED BY <1>3, <2>2
<1>5. g = [head |-> 0, tail |-> 0, data |-> d]
  BY DEF WriteOther, Fresh
<1>6. Shape(g) /\ g.head = 0 /\ g.tail = 0 /\ WritableSize(g) >= size /\ Len(g.data) > Len(b.data)
  <2>. HIDE DEF d, n, g
  <2>. QED BY <1>1, <1>2, <1>4, <1>5 DEF Shape, Buffer, WritableSize
<1>. QED
  BY <1>6

(* EnsureSize makes room, and keeps what is readable or grows. *)
LEMMA Ensured ==
  ASSUME NEW b, Shape(b), NEW last \in Byte, EndsWith(b, last), NEW size \in Nat
  PROVE  LET e == EnsureSize(b, size)
         IN /\ Shape(e) /\ EndsWith(e, last) /\ WritableSize(e) >= size
            /\ Len(e.data) >= Len(b.data)
            /\ ReadableSize(e) = ReadableSize(b) \/ Len(e.data) > Len(b.data)
<1>. DEFINE e == EnsureSize(b, size)
<1>1. /\ b.head \in Nat /\ b.tail \in Nat /\ Len(b.data) \in Nat /\ WritableSize(b) \in Nat
  BY LenProperties, Readable DEF Shape, Buffer
<1>2. CASE WritableSize(b) >= size
  BY <1>1, <1>2 DEF EnsureSize
<1>3. CASE ~(WritableSize(b) >= size) /\ b.head + WritableSize(b) >= size
  BY <1>1, <1>3, Compacted DEF EnsureSize
<1>4. CASE ~(WritableSize(b) >= size) /\ ~(b.head + WritableSize(b) >= size)
  <2>1. e = WriteOther(Fresh(NewSize(b, size)), b)
    BY <1>4 DEF EnsureSize
  <2>2. Shape(e) /\ e.head = 0 /\ e.tail = 0 /\ WritableSize(e) >= size /\ Len(e.data) > Len(b.data)
    BY <1>4, <2>1, Grown
  <2>. HIDE DEF e
  <2>3. EndsWith(e, last)
    BY <2>2 DEF EndsWith
  <2>4. Len(e.data) \in Nat
    BY <2>2, LenProperties DEF Shape, Buffer
  <2>. QED BY <1>1, <2>2, <2>3, <2>4 DEF e
<1>. QED
  BY <1>2, <1>3, <1>4

(* Bytes stored behind tail_ follow those that are readable. *)
LEMMA Stored ==
  ASSUME NEW b, Shape(b), NEW last \in Byte, EndsWith(b, last),
         NEW bytes \in Seq(Byte), Follow(bytes, last), Len(bytes) <= WritableSize(b)
  PROVE  LET s == [b EXCEPT !.data = CopyTo(@, b.tail, bytes), !.tail = @ + Len(bytes)]
         IN /\ Shape(s) /\ EndsWith(s, last + Len(bytes))
            /\ ReadableSize(s) = ReadableSize(b) + Len(bytes)
            /\ Len(s.data) = Len(b.data)
<1>. DEFINE d == CopyTo(b.data, b.tail, bytes)
            s == [b EXCEPT !.data = CopyTo(@, b.tail, bytes), !.tail = @ + Len(bytes)]
<1>1. /\ b.head \in Nat /\ b.tail \in Nat /\ b.data \in Seq(Byte) /\ Len(b.data) \in Nat
      /\ b.head <= b.tail /\ b.tail <= Len(b.data) /\ Len(b.data) >= InitialSize
      /\ b = [head |-> b.head, tail |-> b.tail, data |-> b.data]
      /\ Len(bytes) \in Nat /\ last \in Nat /\ b.tail + Len(bytes) <= Len(b.data)
  BY LenProperties DEF Shape, Buffer, Byte, WritableSize
<1>2. s = [head |-> b.head, tail |-> b.tail + Len(bytes), data |-> d]
  <2>. HIDE DEF d
  <2>1. b \in Buffer
    BY DEF Shape
  <2>2. s = [b EXCEPT !.data = d, !.tail = @ + Len(bytes)]
    BY DEF d
  <2>. HIDE DEF s
  <2>. QED BY ONLY <2>1, <2>2 DEF Buffer
<1>3. /\ d \in Seq(Byte) /\ Len(d) = Len(b.data)
      /\ \A i \in 1 .. Len(b.data) :
           d[i] = IF b.tail < i /\ i <= b.tail + Len(bytes) THEN bytes[i - b.tail] ELSE b.data[i]
  BY ONLY <1>1, bytes \in Seq(Byte), Copied, Zenon DEF d
<1>. HIDE DEF d, s
<1>4. Shape(s)
  BY <1>1, <1>2, <1>3 DEF Shape, Buffer
<1>5. ASSUME NEW i \in Nat, b.head < i, i <= b.tail + Len(bytes)
      PROVE  d[i] = (last + Len(bytes)) - (b.tail + Len(bytes)) + i
  <2>1. i \in 1 .. Len(b.data)
    BY <1>1, <1>5
  <2>2. CASE b.tail < i
    <3>1. d[i] = bytes[i - b.tail]
      BY <1>3, <1>5, <2>1, <2>2
    <3>2. i - b.tail \in 1 .. Len(bytes)
      BY <1>1, <1>5, <2>2
    <3>3. bytes[i - b.tail] = last + (i - b.tail)
      BY <3>2 DEF Follow
    <3>. QED BY <1>1, <3>1, <3>3
  <2>3. CASE ~(b.tail < i)
    <3>1. d[i] = b.data[i] /\ i <= b.tail
      BY <1>1, <1>3, <2>1, <2>3
    <3>2. b.data[i] = last - b.tail + i
      BY <1>5, <3>1 DEF EndsWith
    <3>. QED BY <1>1, <3>1, <3>2
  <2>. QED BY <2>2, <2>3
<1>6. EndsWith(s, last + Len(bytes))
  BY <1>2, <1>5 DEF EndsWith
<1>7. ReadableSize(s) = ReadableSize(b) + Len(bytes) /\ Len(s.data) = Len(b.data)
  BY <1>1, <1>2, <1>3 DEF ReadableSize
<1>. QED
  BY <1>4, <1>6, <1>7 DEF s

(* Bytes copied behind tail_, which stays, are not readable. *)
LEMMA Overwritten ==
  ASSUME NEW b, Shape(b), NEW last \in Byte, EndsWith(b, last),
         NEW other, Data(other) \in Seq(Byte)
  PROVE  LET o == WriteOther(b, other)
         IN /\ Shape(o) /\ EndsWith(o, last)
            /\ ReadableSize(o) = ReadableSize(b) /\ Len(o.data) = Len(b.data)
<1>. DEFINE d == CopyTo(b.data, b.tail, Data(other))
            o == WriteOther(b, other)
<1>1. /\ b.head \in Nat /\ b.tail \in Nat /\ b.data \in Seq(Byte) /\ Len(b.data) \in Nat
      /\ b.head <= b.tail /\ b.tail <= Len(b.data) /\ Len(b.data) >= InitialSize
  BY LenProperties DEF Shape, Buffer
<1>2. o = [head |-> b.head, tail |-> b.tail, data |-> d]
  <2>1. b \in Buffer
    BY DEF Shape
  <2>2. o = [b EXCEPT !.data = d]
    BY DEF WriteOther
  <2>. HIDE DEF d, o
  <2>. QED BY ONLY <2>1, <2>2 DEF Buffer
<1>3. /\ d \in Seq(Byte) /\ Len(d) = Len(b.data)
      /\ \A i \in 1 .. Len(b.data) :
           d[i] = IF b.tail < i /\ i <= b.tail + Len(Data(other)) THEN Data(other)[i - b.tail]
                  ELSE b.data[i]
  BY ONLY <1>1, Data(other) \in Seq(Byte), Copied, Zenon DEF d
<1>. HIDE DEF d, o
<1>4. \A i \in Nat : b.head < i /\ i <= b.tail => d[i] = b.data[i]
  <2>1. \A i \in Nat : b.head < i /\ i <= b.tail => i \in 1 .. Len(b.data) /\ ~(b.tail < i)
    BY <1>1
  <2>. QED BY <1>3, <2>1
<1>5. EndsWith(o, last)
  BY <1>2, <1>4 DEF EndsWith
<1>6. Shape(o) /\ ReadableSize(o) = ReadableSize(b) /\ Len(o.data) = Len(b.data)
  BY <1>1, <1>2, <1>3 DEF Shape, Buffer, ReadableSize
<1>. QED
  BY <1>5, <1>6 DEF o

LEMMA FilledData ==
  ASSUME NEW size \in Nat
  PROVE  Data(Filled(size)) \in Seq(Byte)
<1>. DEFINE zeros == [i \in 1 .. size |-> 0]
<1>1. zeros \in Seq(Byte) /\ Len(zeros) = size
  <2>1. zeros \in [1 .. size -> Byte]
    BY BufferAssumption DEF Byte
  <2>. HIDE DEF zeros
  <2>. QED BY <2>1, FunctionIsSeq
<1>2. Data(Filled(size)) = SubSeq(zeros, 1, size)
  BY DEF Data, Filled, Fresh
<1>. HIDE DEF zeros
<1>3. \A i \in 1 .. size : zeros[i] \in Byte
  BY <1>1, LenProperties
<1>4. SubSeq(zeros, 1, size) \in Seq(Byte)
  BY <1>3, SubSeqProperties
<1>. QED
  BY <1>2, <1>4

LEMMA Wrote ==
  ASSUME NEW b, Shape(b), NEW last \in Byte, EndsWith(b, last),
         NEW bytes \in Seq(Byte), Follow(bytes, last)
  PROVE  LET w == Write(b, bytes)
         IN /\ Shape(w) /\ EndsWith(w, last + Len(bytes))
            /\ Len(w.data) >= Len(b.data)
            /\ ReadableSize(w) = ReadableSize(b) + Len(bytes) \/ Len(w.data) > Len(b.data)
<1>. DEFINE e == EnsureSize(b, Len(bytes))
            w == Write(b, bytes)
<1>1. Len(bytes) \in Nat
  BY LenProperties
<1>2. /\ Shape(e) /\ EndsWith(e, last) /\ WritableSize(e) >= Len(bytes)
      /\ Len(e.data) >= Len(b.data)
      /\ ReadableSize(e) = ReadableSize(b) \/ Len(e.data) > Len(b.data)
  BY <1>1, Ensured
<1>3. w = [e EXCEPT !.data = CopyTo(@, e.tail, bytes), !.tail = @ + Len(bytes)]
  BY DEF Write
<1>4. WritableSize(e) \in Nat
  BY <1>2, Readable
<1>. HIDE DEF e, w
<1>5. Len(bytes) <= WritableSize(e)
  BY <1>1, <1>2, <1>4
<1>6. /\ Shape(w) /\ EndsWith(w, last + Len(bytes))
      /\ ReadableSize(w) = ReadableSize(e) + Len(bytes) /\ Len(w.data) = Len(e.data)
  BY <1>2, <1>3, <1>5, Stored
<1>7. ReadableSize(w) = ReadableSize(b) + Len(bytes) \/ Len(w.data) > Len(b.data)
  BY <1>2, <1>6
<1>. QED
  BY <1>2, <1>6, <1>7 DEF w

(* The two parts of a ReadFile are one write. *)
LEMMA FileRead ==
  ASSUME NEW b, Shape(b), NEW last \in Byte, EndsWith(b, last),
         NEW bytes \in Seq(Byte), Follow(bytes, last), last + Len(bytes) \in Byte
  PROVE  LET w == ReadFile(b, bytes)
         IN /\ Shape(w) /\ EndsWith(w, last + Len(bytes))
            /\ Len(w.data) >= Len(b.data)
            /\ ReadableSize(w) = ReadableSize(b) + Len(bytes) \/ Len(w.data) > Len(b.data)
<1>. DEFINE room == WritableSize(b)
            first == SubSeq(bytes, 1, room)
            rest == SubSeq(bytes, room + 1, Len(bytes))
            full == [b EXCEPT !.data = CopyTo(@, b.tail, first), !.tail = Len(b.data)]
            w == ReadFile(b, bytes)
<1>1. /\ Len(bytes) \in Nat /\ bytes \in [1 .. Len(bytes) -> Byte]
      /\ room \in Nat /\ ReadableSize(b) \in Nat /\ Len(b.data) \in Nat /\ last \in Nat
  <2>1. Len(bytes) \in Nat /\ bytes \in [1 .. Len(bytes) -> Byte]
    BY LenProperties
  <2>2. room \in Nat /\ ReadableSize(b) \in Nat
    BY Readable
  <2>3. Len(b.data) \in Nat
    BY LenProperties DEF Shape, Buffer
  <2>4. last \in Nat
    BY DEF Byte
  <2>. QED BY <2>1, <2>2, <2>3, <2>4
<1>2. CASE Len(bytes) <= room
  <2>1. w = [b EXCEPT !.data = CopyTo(@, b.tail, bytes), !.tail = @ + Len(bytes)]
    BY <1>2 DEF ReadFile
  <2>2. /\ Shape(w) /\ EndsWith(w, last + Len(bytes))
        /\ ReadableSize(w) = ReadableSize(b) + Len(bytes) /\ Len(w.data) = Len(b.data)
    <3>1. Len(bytes) <= WritableSize(b)
      BY <1>2
    <3>. HIDE DEF w
    <3>. QED BY <2>1, <3>1, Stored
  <2>. HIDE DEF w
  <2>3. Len(w.data) >= Len(b.data)
    BY <1>1, <2>2
  <2>. QED BY <2>2, <2>3 DEF w
<1>3. CASE ~(Len(bytes) <= room)
  <2>1. /\ first \in Seq(Byte) /\ Len(first) = room
        /\ \A i \in 1 .. room : first[i] = bytes[i]
    <3>1. \A i \in 1 .. room : bytes[i] \in Byte
      BY <1>1, <1>3
    <3>2. 1 \in Int /\ room \in Int
      BY <1>1
    <3>. HIDE DEF room
    <3>3. /\ first \in Seq(Byte) /\ Len(first) = IF 1 <= room THEN room - 1 + 1 ELSE 0
          /\ \A i \in 1 .. room - 1 + 1 : first[i] = bytes[1 + i - 1]
      BY <3>1, <3>2, SubSeqProperties
    <3>. HIDE DEF first
    <3>4. \A i \in 1 .. room : i \in 1 .. room - 1 + 1 /\ 1 + i - 1 = i
      BY <1>1
    <3>5. Len(first) = room
      BY <1>1, <3>3
    <3>. QED BY <3>3, <3>4, <3>5
  <2>2. /\ rest \in Seq(Byte) /\ Len(rest) = Len(bytes) - room
        /\ \A i \in 1 .. Len(bytes) - room : rest[i] = bytes[room + i]
    <3>1. \A i \in room + 1 .. Len(bytes) : bytes[i] \in Byte
      BY <1>1, <1>3
    <3>2. room + 1 \in Int /\ Len(bytes) \in Int
      BY <1>1
    <3>. HIDE DEF room
    <3>3. /\ rest \in Seq(Byte)
          /\ Len(rest) = IF room + 1 <= Len(bytes) THEN Len(bytes) - (room + 1) + 1 ELSE 0
          /\ \A i \in 1 .. Len(bytes) - (room + 1) + 1 : rest[i] = bytes[room + 1 + i - 1]
      BY <3>1, <3>2, SubSeqProperties
    <3>. HIDE DEF rest
    <3>4. \A i \in 1 .. Len(bytes) - room :
            i \in 1 .. Len(bytes) - (room + 1) + 1 /\ room + 1 + i - 1 = room + i
      BY <1>1
    <3>5. room + 1 <= Len(bytes) /\ Len(bytes) - (room + 1) + 1 = Len(bytes) - room
      <4>1. Len(bytes) \in Nat /\ room \in Nat /\ ~(Len(bytes) <= room)
        BY <1>1, <1>3
      <4>. QED BY ONLY <4>1
    <3>6. Len(rest) = Len(bytes) - room
      BY <3>3, <3>5
    <3>. QED BY <3>3, <3>4, <3>6
  <2>3. Follow(first, last)
    <3>1. \A i \in 1 .. room : i \in 1 .. Len(bytes)
      BY <1>1, <1>3
    <3>. HIDE DEF first, room
    <3>. QED BY <2>1, <3>1 DEF Follow
  <2>4. Follow(rest, last + room)
    <3>1. \A i \in 1 .. Len(bytes) - room :
            room + i \in 1 .. Len(bytes) /\ last + (room + i) = (last + room) + i
      BY <1>1, <1>3
    <3>. HIDE DEF rest, room
    <3>. QED BY <2>2, <3>1 DEF Follow
  <2>5. last + room \in Byte
    BY <1>1, <1>3, BufferAssumption DEF Byte
  <2>6. full = [b EXCEPT !.data = CopyTo(@, b.tail, first), !.tail = @ + Len(first)]
    <3>1. b.tail \in Nat /\ room = Len(b.data) - b.tail
      BY DEF Shape, Buffer, WritableSize
    <3>. HIDE DEF first, room
    <3>2. b.tail + Len(first) = Len(b.data)
      BY <1>1, <2>1, <3>1
    <3>. QED BY <3>2
  <2>7. /\ Shape(full) /\ EndsWith(full, last + room)
        /\ ReadableSize(full) = ReadableSize(b) + room /\ Len(full.data) = Len(b.data)
    <3>1. Len(first) <= WritableSize(b)
      BY <1>1, <2>1
    <3>. HIDE DEF first, full
    <3>2. /\ Shape(full) /\ EndsWith(full, last + Len(first))
          /\ ReadableSize(full) = ReadableSize(b) + Len(first) /\ Len(full.data) = Len(b.data)
      BY <2>1, <2>3, <2>6, <3>1, Stored
    <3>. QED BY <2>1, <3>2
  <2>8. w = Write(full, rest)
    BY <1>3 DEF ReadFile
  <2>. HIDE DEF first, rest, full, w, room
  <2>9. /\ Shape(w) /\ EndsWith(w, (last + room) + Len(rest))
        /\ Len(w.data) >= Len(full.data)
        /\ ReadableSize(w) = ReadableSize(full) + Len(rest) \/ Len(w.data) > Len(full.data)
    BY <2>2, <2>4, <2>5, <2>7, <2>8, Wrote
  <2>10. (last + room) + Len(rest) = last + Len(bytes)
    BY <1>1, <2>2
  <2>11. ReadableSize(full) + Len(rest) = ReadableSize(b) + Len(bytes)
    BY <1>1, <2>2, <2>7
  <2>. QED BY <2>7, <2>9, <2>10, <2>11 DEF w
<1>. QED
  BY <1>2, <1>3

(* What a read is given is readable, and the byte it ends with is known. *)
LEMMA GivenIsReadable ==
  ASSUME NEW b, Shape(b), NEW last \in Byte, EndsWith(b, last), NEW size \in Nat
  PROVE  /\ Given(b, size) \in Nat /\ Given(b, size) <= ReadableSize(b)
         /\ Given(b, size) # 0 =>
              /\ b.data[b.head + Given(b, size)] \in Byte
              /\ b.data[b.head + Given(b, size)] = last - ReadableSize(b) + Given(b, size)
<1>. DEFINE g == Given(b, size)
<1>1. /\ b.head \in Nat /\ b.tail \in Nat /\ Len(b.data) \in Nat
      /\ b.data \in [1 .. Len(b.data) -> Byte]
      /\ b.head <= b.tail /\ b.tail <= Len(b.data)
  BY LenProperties DEF Shape, Buffer
<1>2. ReadableSize(b) \in Nat /\ ReadableSize(b) = b.tail - b.head /\ last \in Nat
  BY <1>1 DEF ReadableSize, Byte
<1>3. g \in Nat /\ g <= ReadableSize(b)
  BY <1>2 DEF Given
<1>4. ASSUME g # 0
      PROVE  b.data[b.head + g] \in Byte /\ b.data[b.head + g] = last - ReadableSize(b) + g
  <2>. HIDE DEF g
  <2>1. /\ b.head + g \in Nat /\ b.head < b.head + g /\ b.head + g <= b.tail
        /\ b.head + g \in 1 .. Len(b.data)
    BY <1>1, <1>2, <1>3, <1>4
  <2>2. b.data[b.head + g] = last - b.tail + (b.head + g)
    BY <2>1 DEF EndsWith
  <2>3. last - b.tail + (b.head + g) = last - (b.tail - b.head) + g
    BY <1>1, <1>2, <1>3
  <2>. QED BY <1>1, <1>2, <2>1, <2>2, <2>3
<1>. QED
  BY <1>3, <1>4

(* Reading, or looking and retrieving, leaves the rest. *)
LEMMA ReadLeaves ==
  ASSUME NEW b, Shape(b), NEW last \in Byte, EndsWith(b, last), NEW size \in Nat,
         NEW r, r = Read(b, size) \/ r = Retrieve(b, size)
  PROVE  /\ Shape(r) /\ EndsWith(r, last) /\ Len(r.data) = Len(b.data)
         /\ ReadableSize(r) = ReadableSize(b) - Given(b, size)
<1>1. /\ b.head \in Nat /\ b.tail \in Nat /\ b.data \in Seq(Byte) /\ Len(b.data) \in Nat
      /\ b.head <= b.tail /\ b.tail <= Len(b.data) /\ Len(b.data) >= InitialSize
      /\ ReadableSize(b) = b.tail - b.head
  BY LenProperties DEF Shape, Buffer, ReadableSize
<1>2. Given(b, size) \in Nat /\ Given(b, size) <= b.tail - b.head
  BY <1>1, GivenIsReadable
<1>3. CASE r = [b EXCEPT !.head = @ + Given(b, size)]
  <2>1. r = [head |-> b.head + Given(b, size), tail |-> b.tail, data |-> b.data]
    <3>1. b \in Buffer
      BY DEF Shape
    <3>. QED BY ONLY <1>3, <3>1 DEF Buffer
  <2>. QED BY <1>1, <1>2, <2>1 DEF Shape, Buffer, EndsWith, ReadableSize
<1>4. CASE r = Clear(b) /\ size >= ReadableSize(b)
  <2>1. r = [head |-> 0, tail |-> 0, data |-> b.data]
    <3>1. b \in Buffer
      BY DEF Shape
    <3>. QED BY ONLY <1>4, <3>1 DEF Buffer, Clear
  <2>2. Given(b, size) = b.tail - b.head
    BY <1>1, <1>4 DEF Given
  <2>. QED BY <1>1, <2>1, <2>2 DEF Shape, Buffer, EndsWith, ReadableSize
<1>5. r = [b EXCEPT !.head = @ + Given(b, size)] \/ (r = Clear(b) /\ size >= ReadableSize(b))
  <2>1. CASE r = Read(b, size)
    BY <2>1 DEF Read
  <2>2. CASE r = Retrieve(b, size) /\ size >= ReadableSize(b)
    BY <2>2 DEF Retrieve
  <2>3. CASE r = Retrieve(b, size) /\ ~(size >= ReadableSize(b))
    <3>1. Given(b, size) = size
      BY <1>1, <2>3 DEF Given
    <3>. QED BY <2>3, <3>1 DEF Retrieve
  <2>. QED BY <2>1, <2>2, <2>3
<1>. QED
  BY <1>3, <1>4, <1>5

(* The next bytes of the stream follow the last one written. *)
LEMMA BytesFollow ==
  ASSUME NEW size \in Nat, written \in Byte, written + size <= MaxBytes
  PROVE  /\ Bytes(size) \in Seq(Byte) /\ Len(Bytes(size)) = size
         /\ Follow(Bytes(size), written) /\ written + size \in Byte
<1>1. Bytes(size) \in [1 .. size -> Byte] /\ written + size \in Byte
  BY BufferAssumption DEF Bytes, Byte
<1>2. \A i \in 1 .. size : Bytes(size)[i] = written + i
  BY DEF Bytes
<1>. HIDE DEF Bytes
<1>3. Bytes(size) \in Seq(Byte) /\ Len(Bytes(size)) = size
  BY <1>1, FunctionIsSeq
<1>. QED
  BY <1>1, <1>2, <1>3 DEF Follow

-----------------------------------------------------------------------------
LEMMA InitInvariant == Init => IInv
<1>. SUFFICES ASSUME Init PROVE IInv
  OBVIOUS
<1>. DEFINE zeros == [i \in 1 .. InitialSize |-> 0]
<1>1. buf = [head |-> 0, tail |-> 0, data |-> zeros] /\ written = 0 /\ taken = 0
  BY DEF Init, Fresh
<1>2. zeros \in [1 .. InitialSize -> Byte] /\ InitialSize \in Nat /\ 0 \in Byte
  BY BufferAssumption DEF Byte
<1>. HIDE DEF zeros
<1>3. zeros \in Seq(Byte) /\ Len(zeros) = InitialSize
  BY <1>2, FunctionIsSeq
<1>4. Shape(buf) /\ EndsWith(buf, written)
  BY <1>1, <1>2, <1>3 DEF Shape, Buffer, EndsWith
<1>. QED
  BY <1>1, <1>2, <1>4 DEF IInv

(* One step: the invariant, and what became of the bytes nobody read. *)
LEMMA StepInvariant ==
  ASSUME IInv, [Next]_vars
  PROVE  /\ IInv'
         /\ taken = written - ReadableSize(buf) =>
              taken' = written' - ReadableSize(buf)' \/ Len(buf.data)' > Len(buf.data)
<1>1. /\ Shape(buf) /\ EndsWith(buf, written) /\ written \in Byte /\ taken \in Byte
      /\ ReadableSize(buf) \in Nat /\ written \in Nat /\ taken \in Nat
  BY Readable DEF IInv, Byte
<1>2. Chunks \subseteq Nat
  BY BufferAssumption
<1>3. ASSUME NEW size \in Chunks, written + size <= MaxBytes,
             buf' = Write(buf, Bytes(size)) \/ buf' = ReadFile(buf, Bytes(size)),
             written' = written + size, taken' = taken
      PROVE  /\ IInv'
             /\ taken = written - ReadableSize(buf) =>
                  taken' = written' - ReadableSize(buf)' \/ Len(buf.data)' > Len(buf.data)
  <2>1. /\ size \in Nat /\ Bytes(size) \in Seq(Byte) /\ Len(Bytes(size)) = size
        /\ Follow(Bytes(size), written) /\ written + size \in Byte
    BY <1>1, <1>2, <1>3, BytesFollow
  <2>. HIDE DEF Bytes
  <2>2. /\ Shape(buf') /\ EndsWith(buf', written + size)
        /\ ReadableSize(buf') = ReadableSize(buf) + size \/ Len(buf'.data) > Len(buf.data)
    <3>1. CASE buf' = Write(buf, Bytes(size))
      BY <1>1, <2>1, <3>1, Wrote
    <3>2. CASE buf' = ReadFile(buf, Bytes(size))
      BY <1>1, <2>1, <3>2, FileRead
    <3>. QED BY <1>3, <3>1, <3>2
  <2>3. IInv'
    BY <1>1, <1>3, <2>1, <2>2 DEF IInv, Shape, EndsWith
  <2>4. ReadableSize(buf)' = ReadableSize(buf') /\ Len(buf.data)' = Len(buf'.data)
    BY DEF ReadableSize
  <2>. QED BY <1>1, <1>3, <2>1, <2>2, <2>3, <2>4
<1>4. CASE WriteStep
  BY <1>3, <1>4 DEF WriteStep
<1>5. CASE ReadFileStep
  BY <1>3, <1>5 DEF ReadFileStep
<1>6. CASE ReadStep
  <2>1. PICK size \in Chunks :
          /\ taken' = IF Given(buf, size) = 0 THEN taken ELSE buf.data[buf.head + Given(buf, size)]
          /\ buf' = Read(buf, size) \/ buf' = Retrieve(buf, size)
          /\ written' = written
    BY <1>6 DEF ReadStep
  <2>2. size \in Nat
    BY <1>2
  <2>3. /\ Given(buf, size) \in Nat
        /\ Given(buf, size) # 0 =>
             /\ buf.data[buf.head + Given(buf, size)] \in Byte
             /\ buf.data[buf.head + Given(buf, size)]
                  = written - ReadableSize(buf) + Given(buf, size)
    BY <1>1, <2>2, GivenIsReadable
  <2>4. /\ Shape(buf') /\ EndsWith(buf', written)
        /\ ReadableSize(buf') = ReadableSize(buf) - Given(buf, size)
    BY <1>1, <2>1, <2>2, ReadLeaves
  <2>5. taken' \in Byte
    BY <1>1, <2>1, <2>3
  <2>6. IInv'
    BY <1>1, <2>1, <2>4, <2>5 DEF IInv, Shape, EndsWith
  <2>7. ReadableSize(buf)' = ReadableSize(buf')
    BY DEF ReadableSize
  <2>8. taken = written - ReadableSize(buf) => taken' = written' - ReadableSize(buf')
    <3>1. CASE Given(buf, size) = 0
      <4>1. taken' = taken /\ written' = written
        BY <2>1, <3>1
      <4>2. ReadableSize(buf') = ReadableSize(buf)
        BY <1>1, <2>4, <3>1
      <4>. QED BY <4>1, <4>2
    <3>2. CASE Given(buf, size) # 0
      <4>1. taken' = written - ReadableSize(buf) + Given(buf, size) /\ written' = written
        BY <2>1, <2>3, <3>2
      <4>2. written - (ReadableSize(buf) - Given(buf, size))
              = written - ReadableSize(buf) + Given(buf, size)
        BY <1>1, <2>3
      <4>. QED BY <2>4, <4>1, <4>2
    <3>. QED BY <3>1, <3>2
  <2>. QED BY <2>6, <2>7, <2>8
<1>7. ASSUME Shape(buf'), EndsWith(buf', written), written' = written, taken' = taken,
             ReadableSize(buf') = ReadableSize(buf) \/ Len(buf'.data) > Len(buf.data)
      PROVE  /\ IInv'
             /\ taken = written - ReadableSize(buf) =>
                  taken' = written' - ReadableSize(buf)' \/ Len(buf.data)' > Len(buf.data)
  <2>1. IInv'
    BY <1>1, <1>7 DEF IInv, Shape, EndsWith
  <2>2. ReadableSize(buf)' = ReadableSize(buf') /\ Len(buf.data)' = Len(buf'.data)
    BY DEF ReadableSize
  <2>. QED BY <1>7, <2>1, <2>2
<1>9. CASE CompactStep
  <2>1. buf' = Compact(buf) /\ written' = written /\ taken' = taken
    BY <1>9 DEF CompactStep
  <2>2. Shape(buf') /\ EndsWith(buf', written) /\ ReadableSize(buf') = ReadableSize(buf)
    BY <1>1, <2>1, Compacted
  <2>. QED BY <1>7, <2>1, <2>2
<1>10. ASSUME NEW size \in Chunks
       PROVE  LET e == EnsureSize(buf, size)
              IN /\ Shape(e) /\ EndsWith(e, written)
                 /\ ReadableSize(e) = ReadableSize(buf) \/ Len(e.data) > Len(buf.data)
  <2>1. size \in Nat
    BY <1>2
  <2>. QED BY <1>1, <2>1, Ensured
<1>11. CASE EnsureSizeStep
  <2>1. PICK size \in Chunks :
          buf' = EnsureSize(buf, size) /\ written' = written /\ taken' = taken
    BY <1>11 DEF EnsureSizeStep
  <2>. QED BY <1>7, <1>10, <2>1
<1>12. CASE WriteOtherStep
  <2>1. PICK size \in Chunks : /\ buf' = WriteOther(EnsureSize(buf, size), Filled(size))
                               /\ written' = written /\ taken' = taken
    BY <1>12 DEF WriteOtherStep
  <2>. DEFINE e == EnsureSize(buf, size)
  <2>2. /\ Shape(e) /\ EndsWith(e, written)
        /\ ReadableSize(e) = ReadableSize(buf) \/ Len(e.data) > Len(buf.data)
    BY <1>10
  <2>3. Data(Filled(size)) \in Seq(Byte)
    BY <1>2, FilledData
  <2>4. buf' = WriteOther(e, Filled(size))
    BY <2>1
  <2>. HIDE DEF e
  <2>5. /\ Shape(buf') /\ EndsWith(buf', written)
        /\ ReadableSize(buf') = ReadableSize(e) /\ Len(buf'.data) = Len(e.data)
    BY <1>1, <2>2, <2>3, <2>4, Overwritten
  <2>. QED BY <1>7, <2>1, <2>2, <2>5
<1>8. CASE UNCHANGED vars
  <2>1. buf' = buf /\ written' = written /\ taken' = taken
    BY <1>8 DEF vars
  <2>. QED BY <2>1 DEF IInv, Shape, EndsWith, ReadableSize
<1>. QED
  BY <1>4, <1>5, <1>6, <1>8, <1>9, <1>11, <1>12 DEF Next

(* Whatever sizes a vector and its uses have, the indices stay in the vector  *)
(* (EnsureSize, Compact, ReadFile, Retrieve).                                 *)
THEOREM BufferTypeCorrect == Spec => []TypeOK
<1>1. IInv => TypeOK
  <2>. SUFFICES ASSUME IInv PROVE TypeOK
    OBVIOUS
  <2>1. /\ buf.head \in Nat /\ buf.tail \in Nat /\ Len(buf.data) \in Nat
        /\ buf.data \in [1 .. Len(buf.data) -> Byte]
        /\ buf.head <= buf.tail /\ buf.tail <= Len(buf.data) /\ Len(buf.data) >= InitialSize
    BY LenProperties DEF IInv, Shape, Buffer
  <2>. QED BY <2>1 DEF IInv, TypeOK, Byte
<1>. QED
  BY <1>1, InitInvariant, StepInvariant, PTL DEF Spec

(* What can be read is the end of what was written: no Compact, growth or     *)
(* ReadFile in two parts shifts or mixes bytes.                               *)
THEOREM ReadableAlwaysSuffix == Spec => []ReadableIsSuffix
<1>1. IInv => ReadableIsSuffix
  <2>. SUFFICES ASSUME IInv, NEW i \in 1 .. ReadableSize(buf)
                PROVE  Data(buf)[i] = written - ReadableSize(buf) + i
    BY DEF ReadableIsSuffix
  <2>1. /\ Data(buf)[i] = buf.data[buf.head + i] /\ ReadableSize(buf) \in Nat
        /\ ReadableSize(buf) = buf.tail - buf.head
    BY Readable DEF IInv, ReadableSize
  <2>2. buf.head \in Nat /\ buf.tail \in Nat /\ written \in Nat
    BY DEF IInv, Shape, Buffer, Byte
  <2>3. buf.head + i \in Nat /\ buf.head < buf.head + i /\ buf.head + i <= buf.tail
    BY <2>1, <2>2
  <2>4. buf.data[buf.head + i] = written - buf.tail + (buf.head + i)
    BY <2>3 DEF IInv, EndsWith
  <2>5. written - buf.tail + (buf.head + i) = written - (buf.tail - buf.head) + i
    BY <2>1, <2>2
  <2>. QED BY <2>1, <2>4, <2>5
<1>. QED
  BY <1>1, InitInvariant, StepInvariant, PTL DEF Spec

(* A byte that nobody read disappears only when the vector grows. *)
THEOREM AlwaysLostByGrowth == Spec => LostOnlyByGrowth
<1>1. IInv /\ [Next]_vars =>
        [taken' = written' - ReadableSize(buf)' \/ taken # written - ReadableSize(buf)
         \/ Len(buf.data)' > Len(buf.data)]_vars
  BY StepInvariant
<1>. QED
  BY <1>1, InitInvariant, StepInvariant, PTL DEF Spec, LostOnlyByGrowth
=============================================================================
