-------------------------- MODULE ByteStreamProofs --------------------------
(***************************************************************************)
(* The byte stream keeps its bytes in order and counts them, for every     *)
(* capacity and every set of strings written.                              *)
(***************************************************************************)
EXTENDS ByteStream, SequenceTheorems, TLAPS

\* What write() takes is a length of data, and fits.
LEMMA WriteSizeFits ==
  ASSUME TypeOK, NEW data \in Data
  PROVE  /\ WriteSize(data) \in Nat
         /\ WriteSize(data) <= Len(data)
         /\ endOfBuffer + WriteSize(data) <= Capacity
         /\ data \in Seq(Byte)
  <1>1. data \in Seq(Byte) /\ Len(data) \in Nat
    BY StreamAssumption
  <1> QED BY <1>1, StreamAssumption DEF WriteSize, TypeOK

\* The part of data that write() takes.
LEMMA WrittenPart ==
  ASSUME TypeOK, NEW data \in Data
  PROVE  /\ SubSeq(data, 1, WriteSize(data)) \in Seq(Byte)
         /\ Len(SubSeq(data, 1, WriteSize(data))) = WriteSize(data)
         /\ \A i \in 1 .. WriteSize(data) :
              data[i] \in Byte /\ SubSeq(data, 1, WriteSize(data))[i] = data[i]
  <1> DEFINE k == WriteSize(data)
  <1>1. k \in Nat /\ k <= Len(data) /\ data \in Seq(Byte)
    BY WriteSizeFits
  <1> HIDE DEF k
  <1>2. \A i \in 1 .. k : data[i] \in Byte
    BY <1>1, ElementOfSeq
  <1>3. /\ SubSeq(data, 1, k) \in Seq(Byte)
        /\ Len(SubSeq(data, 1, k)) = IF 1 <= k THEN k - 1 + 1 ELSE 0
        /\ \A i \in 1 .. (k - 1 + 1) : SubSeq(data, 1, k)[i] = data[1 + i - 1]
    BY <1>1, <1>2, SubSeqProperties
  <1>4. /\ SubSeq(data, 1, k) \in Seq(Byte)
        /\ Len(SubSeq(data, 1, k)) = k
        /\ \A i \in 1 .. k : SubSeq(data, 1, k)[i] = data[i]
    BY <1>1, <1>3
  <1> QED BY <1>2, <1>4 DEF k

\* What the reader sees of the first len live bytes.
LEMMA PeekedBytes ==
  ASSUME TypeOK, NEW len \in Nat, len <= endOfBuffer
  PROVE  /\ Peek(len) \in Seq(Byte)
         /\ Len(Peek(len)) = len
         /\ \A i \in 1 .. len : Peek(len)[i] = buffer[i - 1]
  <1>1. \A i \in 1 .. len : buffer[i - 1] \in Byte
    BY StreamAssumption DEF TypeOK
  <1> QED BY <1>1 DEF Peek

\* A remainder is an unsigned int.
LEMMA CounterRange ==
  ASSUME NEW a \in Int
  PROVE  a % Modulus \in WrappingInt
  BY ModulusAssumption DEF WrappingInt

\* What differs by whole turns has the same remainder.
LEMMA SameRemainder ==
  ASSUME NEW a \in Int, NEW b \in Int, NEW k \in Int, a = b + Modulus * k
  PROVE  a % Modulus = b % Modulus
  <1> DEFINE q == a \div Modulus
             s == a % Modulus
             u == b \div Modulus
             v == b % Modulus
             m == u + k
  <1>1. Modulus \in Nat /\ Modulus > 0
    BY ModulusAssumption
  <1>2. /\ q \in Int /\ s \in 0 .. (Modulus - 1) /\ a = Modulus * q + s
        /\ u \in Int /\ v \in 0 .. (Modulus - 1) /\ b = Modulus * u + v
    BY <1>1
  <1> HIDE DEF q, s, u, v
  <1>3. m \in Int /\ Modulus * q + s = Modulus * m + v
    BY <1>1, <1>2
  <1> HIDE DEF m
  <1>4. s = v
    BY <1>1, <1>2, <1>3
  <1> QED BY <1>4 DEF s, v

\* Counting on, and the difference of two counts.
LEMMA ModSum ==
  ASSUME NEW x \in Int, NEW y \in Int
  PROVE  ((x % Modulus) + y) % Modulus = (x + y) % Modulus
  <1> DEFINE p == x \div Modulus
             r == x % Modulus
  <1>1. p \in Int /\ r \in Int /\ x = Modulus * p + r
    BY ModulusAssumption
  <1> HIDE DEF p, r
  <1>2. x + y = (r + y) + Modulus * p /\ x + y \in Int /\ r + y \in Int
    BY <1>1, ModulusAssumption
  <1>3. (x + y) % Modulus = (r + y) % Modulus
    BY <1>1, <1>2, SameRemainder, Zenon
  <1> QED BY <1>3, Zenon DEF r

LEMMA ModDifference ==
  ASSUME NEW a \in Int, NEW b \in Int
  PROVE  ((a % Modulus) - (b % Modulus)) % Modulus = (a - b) % Modulus
  <1> DEFINE p == a \div Modulus
             q == b \div Modulus
             r == a % Modulus
             s == b % Modulus
             k == p - q
  <1>1. p \in Int /\ r \in Int /\ a = Modulus * p + r
    BY ModulusAssumption
  <1>2. q \in Int /\ s \in Int /\ b = Modulus * q + s
    BY ModulusAssumption
  <1> HIDE DEF p, q, r, s
  <1>3. a - b = (r - s) + Modulus * k /\ a - b \in Int /\ r - s \in Int /\ k \in Int
    BY <1>1, <1>2, ModulusAssumption
  <1> HIDE DEF k
  <1>4. (a - b) % Modulus = (r - s) % Modulus
    BY <1>3, SameRemainder, Zenon
  <1> QED BY <1>4, Zenon DEF r, s

\* read() is a Consume of at most what is there.
LEMMA ReadConsumes ==
  ASSUME TypeOK, NEW len \in 0 .. (Capacity + 1), Read(len)
  PROVE  \E n \in 0 .. Capacity : Consume(n)
  <1> DEFINE n == IF len < endOfBuffer THEN len ELSE endOfBuffer
  <1>1. n \in 0 .. Capacity
    BY StreamAssumption DEF TypeOK
  <1>2. Consume(n)
    BY DEF Read
  <1> QED BY <1>1, <1>2

\* Every step but the reader's and the writer's leaves the bytes alone.
LEMMA NextCases ==
  ASSUME TypeOK, [Next]_vars
  PROVE  \/ \E data \in Data : Write(data)
         \/ \E len \in 0 .. Capacity : Consume(len)
         \/ EndInput \/ SetError \/ UNCHANGED vars
  BY ReadConsumes DEF Next

\* Every step keeps the variables in their types: in particular endOfBuffer
\* never passes the end of the string it indexes.
LEMMA TypeStep ==
  ASSUME TypeOK, [Next]_vars
  PROVE  TypeOK'
  <1>1. ASSUME NEW data \in Data, Write(data)
        PROVE  TypeOK'
    <2> DEFINE k == WriteSize(data)
    <2>1. k \in Nat /\ endOfBuffer + k <= Capacity /\ endOfBuffer \in Nat
      BY WriteSizeFits DEF TypeOK
    <2>2. buffer' \in [0 .. (Capacity - 1) -> Byte]
      <3>1. \A i \in 0 .. (Capacity - 1) :
               (endOfBuffer <= i /\ i < endOfBuffer + k) => data[i - endOfBuffer + 1] \in Byte
        BY <2>1, WrittenPart
      <3> QED BY <1>1, <3>1 DEF Write, TypeOK
    <2>3. endOfBuffer' \in 0 .. Capacity
      BY <1>1, <2>1 DEF Write, TypeOK
    <2>4. bytesWritten' \in WrappingInt
      <3>1. bytesWritten + k \in Int
        BY <2>1, ModulusAssumption DEF TypeOK, WrappingInt
      <3> QED BY <1>1, <3>1, CounterRange DEF Write
    <2>5. accepted' \in Seq(Byte)
      BY <1>1, WrittenPart, ConcatProperties DEF Write, TypeOK
    <2> QED BY <1>1, <2>2, <2>3, <2>4, <2>5 DEF Write, TypeOK
  <1>2. ASSUME NEW len \in 0 .. Capacity, Consume(len)
        PROVE  TypeOK'
    <2>1. len \in Nat /\ len <= endOfBuffer /\ endOfBuffer \in 0 .. Capacity
      BY <1>2, StreamAssumption DEF Consume, TypeOK
    <2>2. buffer' \in [0 .. (Capacity - 1) -> Byte]
      <3>1. \A i \in 0 .. (Capacity - 1) : i + len < endOfBuffer => i + len \in 0 .. (Capacity - 1)
        BY <2>1, StreamAssumption
      <3> QED BY <1>2, <3>1 DEF Consume, Shifted, TypeOK
    <2>3. endOfBuffer' \in 0 .. Capacity
      BY <1>2, <2>1, StreamAssumption DEF Consume
    <2>4. bytesRead' \in WrappingInt
      <3>1. bytesRead + len \in Int
        BY <2>1, ModulusAssumption DEF TypeOK, WrappingInt
      <3> QED BY <1>2, <3>1, CounterRange DEF Consume
    <2>5. delivered' \in Seq(Byte)
      BY <1>2, <2>1, PeekedBytes, ConcatProperties DEF Consume, TypeOK
    <2> QED BY <1>2, <2>2, <2>3, <2>4, <2>5 DEF Consume, TypeOK
  <1>3. CASE EndInput
    BY <1>3 DEF EndInput, TypeOK
  <1>4. CASE SetError
    BY <1>4 DEF SetError, TypeOK
  <1>5. CASE UNCHANGED vars
    BY <1>5 DEF vars, TypeOK
  <1> QED BY <1>1, <1>2, <1>3, <1>4, <1>5, NextCases

\* The variables of the stream keep their types.
THEOREM TypeCorrect == Spec => []TypeOK
  <1>1. ASSUME Init PROVE TypeOK
    <2>1. buffer \in [0 .. (Capacity - 1) -> Byte]
      BY <1>1, StreamAssumption DEF Init
    <2>2. endOfBuffer \in 0 .. Capacity
      BY <1>1, StreamAssumption DEF Init
    <2>3. bytesRead \in WrappingInt /\ bytesWritten \in WrappingInt
      BY <1>1, ModulusAssumption DEF Init, WrappingInt
    <2>4. accepted \in Seq(Byte) /\ delivered \in Seq(Byte)
      BY <1>1, EmptySeq DEF Init
    <2> QED BY <1>1, <2>1, <2>2, <2>3, <2>4, Zenon DEF Init, TypeOK
  <1>2. TypeOK /\ [Next]_vars => TypeOK'
    BY TypeStep
  <1> QED BY <1>1, <1>2, PTL DEF Spec

\* A write appends behind the live bytes and a read moves the first live bytes
\* to the delivered ones, so the order of the bytes is kept.
LEMMA FIFOStep ==
  ASSUME TypeOK, FIFOOrder, [Next]_vars
  PROVE  FIFOOrder'
  <1>0. /\ accepted \in Seq(Byte) /\ delivered \in Seq(Byte)
        /\ Len(accepted) \in Nat /\ Len(delivered) \in Nat /\ endOfBuffer \in 0 .. Capacity
        /\ Len(accepted) = Len(delivered) + endOfBuffer
    BY DEF TypeOK, FIFOOrder
  <1>1. ASSUME NEW data \in Data, Write(data)
        PROVE  FIFOOrder'
    <2> DEFINE k == WriteSize(data)
               new == SubSeq(data, 1, k)
    <2>1. k \in Nat /\ endOfBuffer + k <= Capacity
      BY WriteSizeFits
    <2>2. new \in Seq(Byte) /\ Len(new) = k /\ \A i \in 1 .. k : new[i] = data[i]
      BY WrittenPart
    <2>3. /\ accepted' = accepted \o new /\ delivered' = delivered
          /\ endOfBuffer' = endOfBuffer + k
          /\ \A i \in 0 .. (Capacity - 1) :
               buffer'[i] = IF endOfBuffer <= i /\ i < endOfBuffer + k
                            THEN data[i - endOfBuffer + 1] ELSE buffer[i]
      BY <1>1 DEF Write
    <2> HIDE DEF k, new
    <2>4. /\ Len(accepted') = Len(accepted) + k
          /\ \A i \in 1 .. (Len(accepted) + k) :
               accepted'[i] = IF i <= Len(accepted) THEN accepted[i] ELSE new[i - Len(accepted)]
      <3>1. /\ Len(accepted \o new) = Len(accepted) + k
            /\ \A i \in 1 .. (Len(accepted) + k) :
                 (accepted \o new)[i] = IF i <= Len(accepted) THEN accepted[i] ELSE new[i - Len(accepted)]
        BY <1>0, <2>2, ConcatProperties, Zenon
      <3>2. accepted' = accepted \o new
        BY <2>3
      <3> QED BY <3>1, <3>2
    <2>5. Len(accepted') = Len(delivered') + endOfBuffer'
      BY <1>0, <2>1, <2>3, <2>4 DEF FIFOOrder
    <2>6. \A i \in 1 .. Len(delivered') : accepted'[i] = delivered'[i]
      BY <1>0, <2>1, <2>3, <2>4 DEF FIFOOrder
    <2>7. ASSUME NEW i \in 0 .. (endOfBuffer' - 1)
          PROVE  accepted'[Len(delivered') + i + 1] = buffer'[i]
      <3>1. CASE i < endOfBuffer
        <4>1. i \in 0 .. (endOfBuffer - 1) /\ i \in 0 .. (Capacity - 1)
          BY <3>1, <1>0, <2>1, <2>3, StreamAssumption
        <4>2. buffer'[i] = buffer[i]
          BY <3>1, <4>1, <1>0, <2>3
        <4>3. accepted[Len(delivered) + i + 1] = buffer[i]
          BY <4>1 DEF FIFOOrder
        <4>4. Len(delivered) + i + 1 \in 1 .. Len(accepted)
          BY <4>1, <1>0 DEF FIFOOrder
        <4>5. accepted'[Len(delivered) + i + 1] = accepted[Len(delivered) + i + 1]
          BY <4>4, <1>0, <2>1, <2>4
        <4> QED BY <4>2, <4>3, <4>5, <2>3, Zenon
      <3>2. CASE i >= endOfBuffer
        <4>0. i \in 0 .. (Capacity - 1) /\ i < endOfBuffer + k
          BY <1>0, <2>1, <2>3, StreamAssumption
        <4>1. buffer'[i] = data[i - endOfBuffer + 1]
          BY <3>2, <4>0, <2>3
        <4>2. accepted'[Len(delivered) + i + 1] = new[Len(delivered) + i + 1 - Len(accepted)]
          <5>1. Len(accepted) = Len(delivered) + endOfBuffer
            BY DEF FIFOOrder
          <5>2. /\ Len(delivered) + i + 1 \in 1 .. (Len(accepted) + k)
                /\ ~ (Len(delivered) + i + 1 <= Len(accepted))
            BY <5>1, <3>2, <4>0, <1>0, <2>1
          <5> QED BY <5>2, <2>4
        <4>3. Len(delivered) + i + 1 - Len(accepted) = i - endOfBuffer + 1
          BY <1>0, <2>1, <2>3 DEF FIFOOrder
        <4>4. new[i - endOfBuffer + 1] = data[i - endOfBuffer + 1]
          BY <3>2, <1>0, <2>1, <2>2, <2>3, SMTT(30)
        <4>5. delivered' = delivered
          BY <2>3
        <4>6. accepted'[Len(delivered) + i + 1] = new[i - endOfBuffer + 1]
          BY <4>2, <4>3
        <4>7. accepted'[Len(delivered) + i + 1] = buffer'[i]
          BY <4>1, <4>4, <4>6
        <4>8. Len(delivered') + i + 1 = Len(delivered) + i + 1
          BY <4>5
        <4> QED BY <4>7, <4>8
      <3>3. i < endOfBuffer \/ i >= endOfBuffer
        BY <1>0, <2>1
      <3> QED BY <3>1, <3>2, <3>3
    <2> QED BY <2>5, <2>6, <2>7 DEF FIFOOrder
  <1>2. ASSUME NEW len \in 0 .. Capacity, Consume(len)
        PROVE  FIFOOrder'
    <2> DEFINE got == Peek(len)
    <2>1. len \in Nat /\ len <= endOfBuffer
      BY <1>2, StreamAssumption DEF Consume
    <2>2. /\ got \in Seq(Byte) /\ Len(got) = len
          /\ \A i \in 1 .. len : got[i] = buffer[i - 1]
      BY <2>1, PeekedBytes
    <2>3. /\ accepted' = accepted /\ delivered' = delivered \o got
          /\ endOfBuffer' = endOfBuffer - len
          /\ \A i \in 0 .. (Capacity - 1) :
               buffer'[i] = IF i + len < endOfBuffer THEN buffer[i + len] ELSE buffer[i]
      BY <1>2 DEF Consume, Shifted
    <2> HIDE DEF got
    <2>4. /\ Len(delivered') = Len(delivered) + len
          /\ \A i \in 1 .. (Len(delivered) + len) :
               delivered'[i] = IF i <= Len(delivered) THEN delivered[i]
                               ELSE got[i - Len(delivered)]
      <3>1. /\ Len(delivered \o got) = Len(delivered) + len
            /\ \A i \in 1 .. (Len(delivered) + len) :
                 (delivered \o got)[i] = IF i <= Len(delivered) THEN delivered[i]
                                         ELSE got[i - Len(delivered)]
        BY <1>0, <2>2, ConcatProperties, Zenon
      <3>2. delivered' = delivered \o got
        BY <2>3
      <3> QED BY <3>1, <3>2
    <2>5. Len(accepted') = Len(delivered') + endOfBuffer'
      <3>1. /\ accepted' = accepted /\ endOfBuffer' = endOfBuffer - len
            /\ Len(delivered') = Len(delivered) + len
        BY <2>3, <2>4
      <3> QED BY <3>1, <1>0, <2>1
    <2>6. ASSUME NEW i \in 1 .. Len(delivered')
          PROVE  accepted'[i] = delivered'[i]
      <3>1. CASE i <= Len(delivered)
        BY <3>1, <1>0, <2>1, <2>3, <2>4 DEF FIFOOrder
      <3>2. CASE i > Len(delivered)
        <4> DEFINE j == i - Len(delivered)
        <4>1. j \in 1 .. len /\ delivered'[i] = got[j]
          BY <3>2, <1>0, <2>1, <2>4
        <4>2. got[j] = buffer[j - 1]
          BY <4>1, <2>2
        <4>3. j - 1 \in 0 .. (endOfBuffer - 1)
          BY <4>1, <2>1, <1>0
        <4>4. accepted[Len(delivered) + (j - 1) + 1] = buffer[j - 1]
          BY <4>3 DEF FIFOOrder
        <4>5. Len(delivered) + (j - 1) + 1 = i
          BY <1>0, <2>4
        <4> QED BY <4>1, <4>2, <4>4, <4>5, <2>3
      <3> QED BY <3>1, <3>2, <1>0, <2>4
    <2>7. ASSUME NEW i \in 0 .. (endOfBuffer' - 1)
          PROVE  accepted'[Len(delivered') + i + 1] = buffer'[i]
      <3>1. i + len \in 0 .. (endOfBuffer - 1) /\ i \in 0 .. (Capacity - 1)
        BY <1>0, <2>1, <2>3, StreamAssumption
      <3>2. buffer'[i] = buffer[i + len]
        BY <3>1, <2>3, <1>0
      <3>3. accepted[Len(delivered) + (i + len) + 1] = buffer[i + len]
        BY <3>1 DEF FIFOOrder
      <3>4. Len(delivered') + i + 1 = Len(delivered) + (i + len) + 1
        BY <3>1, <1>0, <2>1, <2>4
      <3> QED BY <3>2, <3>3, <3>4, <2>3
    <2> QED BY <2>5, <2>6, <2>7 DEF FIFOOrder
  <1>3. CASE EndInput
    BY <1>3 DEF EndInput, FIFOOrder
  <1>4. CASE SetError
    BY <1>4 DEF SetError, FIFOOrder
  <1>5. CASE UNCHANGED vars
    BY <1>5 DEF vars, FIFOOrder
  <1> QED BY <1>1, <1>2, <1>3, <1>4, <1>5, NextCases

\* Nothing is lost, duplicated or reordered between write() and the reader.
THEOREM FIFO == Spec => []FIFOOrder
  <1>1. Init => FIFOOrder
    BY EmptySeq DEF Init, FIFOOrder
  <1>2. TypeOK /\ FIFOOrder /\ [Next]_vars => FIFOOrder'
    BY FIFOStep
  <1> QED BY <1>1, <1>2, TypeCorrect, PTL DEF Spec

\* Both counters count what passed their end, modulo 2^32.
Counted == bytesWritten = Len(accepted) % Modulus /\ bytesRead = Len(delivered) % Modulus

LEMMA CountedStep ==
  ASSUME TypeOK, Counted, [Next]_vars
  PROVE  Counted'
  <1>0. /\ accepted \in Seq(Byte) /\ delivered \in Seq(Byte)
        /\ Len(accepted) \in Int /\ Len(delivered) \in Int
        /\ bytesWritten = Len(accepted) % Modulus /\ bytesRead = Len(delivered) % Modulus
    BY DEF TypeOK, Counted
  <1>1. ASSUME NEW data \in Data, Write(data)
        PROVE  Counted'
    <2> DEFINE k == WriteSize(data)
               new == SubSeq(data, 1, k)
    <2>1. k \in Int /\ new \in Seq(Byte) /\ Len(new) = k
      BY WriteSizeFits, WrittenPart
    <2>2. /\ bytesWritten' = (bytesWritten + k) % Modulus /\ accepted' = accepted \o new
          /\ bytesRead' = bytesRead /\ delivered' = delivered
      BY <1>1 DEF Write
    <2> HIDE DEF k, new
    <2>3. Len(accepted') = Len(accepted) + k
      BY <1>0, <2>1, <2>2, ConcatProperties, Zenon
    <2>4. ((Len(accepted) % Modulus) + k) % Modulus = (Len(accepted) + k) % Modulus
      BY <1>0, <2>1, ModSum
    <2> QED BY <1>0, <2>2, <2>3, <2>4, Zenon DEF Counted
  <1>2. ASSUME NEW len \in 0 .. Capacity, Consume(len)
        PROVE  Counted'
    <2> DEFINE got == Peek(len)
    <2>1. len \in Int /\ len \in Nat /\ len <= endOfBuffer
      BY <1>2, StreamAssumption DEF Consume
    <2>2. got \in Seq(Byte) /\ Len(got) = len
      BY <2>1, PeekedBytes
    <2>3. /\ bytesRead' = (bytesRead + len) % Modulus /\ delivered' = delivered \o got
          /\ bytesWritten' = bytesWritten /\ accepted' = accepted
      BY <1>2 DEF Consume
    <2> HIDE DEF got
    <2>4. Len(delivered') = Len(delivered) + len
      BY <1>0, <2>1, <2>2, <2>3, ConcatProperties, Zenon
    <2>5. ((Len(delivered) % Modulus) + len) % Modulus = (Len(delivered) + len) % Modulus
      BY <1>0, <2>1, ModSum
    <2> QED BY <1>0, <2>3, <2>4, <2>5, Zenon DEF Counted
  <1>3. CASE EndInput
    BY <1>3 DEF EndInput, Counted
  <1>4. CASE SetError
    BY <1>4 DEF SetError, Counted
  <1>5. CASE UNCHANGED vars
    BY <1>5 DEF vars, Counted
  <1> QED BY <1>1, <1>2, <1>3, <1>4, <1>5, NextCases

\* The counters are the true totals modulo 2^32, and their difference tells
\* what is in the buffer, also when only one of them has wrapped around
\* (bytes_written() and bytes_read(), byte_stream.cc:52-54).
THEOREM CountersTogether == Spec => []CountersWrapTogether
  <1>1. Init => Counted
    BY EmptySeq, ModulusAssumption DEF Init, Counted
  <1>2. TypeOK /\ Counted /\ [Next]_vars => Counted'
    BY CountedStep
  <1>3. TypeOK /\ FIFOOrder /\ Counted => CountersWrapTogether
    <2> SUFFICES ASSUME TypeOK, FIFOOrder, Counted
                 PROVE  (bytesWritten - bytesRead) % Modulus = endOfBuffer
      BY DEF Counted, CountersWrapTogether
    <2>1. /\ Len(accepted) \in Int /\ Len(delivered) \in Int /\ endOfBuffer \in 0 .. Capacity
          /\ Len(accepted) = Len(delivered) + endOfBuffer
      BY DEF TypeOK, FIFOOrder
    <2>2. (bytesWritten - bytesRead) % Modulus = (Len(accepted) - Len(delivered)) % Modulus
      BY <2>1, ModDifference DEF Counted
    <2>3. Len(accepted) - Len(delivered) = endOfBuffer /\ endOfBuffer \in 0 .. (Modulus - 1)
      BY <2>1, StreamAssumption, ModulusAssumption
    <2>4. endOfBuffer % Modulus = endOfBuffer
      BY <2>3, ModulusAssumption
    <2> QED BY <2>2, <2>3, <2>4, Zenon
  <1> QED BY <1>1, <1>2, <1>3, TypeCorrect, FIFO, PTL DEF Spec

\* A write to the array is a write to the queue of live bytes.
LEMMA WriteImplements ==
  ASSUME TypeOK, NEW data \in Data, Write(data)
  PROVE  Abstract!AWrite
  <1> DEFINE k == WriteSize(data)
             new == SubSeq(data, 1, k)
             live == Peek(endOfBuffer)
  <1>1. k \in Nat /\ endOfBuffer \in Nat /\ endOfBuffer + k <= Capacity
    BY WriteSizeFits DEF TypeOK
  <1>2. new \in Seq(Byte) /\ Len(new) = k /\ \A i \in 1 .. k : new[i] = data[i]
    BY WrittenPart
  <1>3. live \in Seq(Byte) /\ Len(live) = endOfBuffer
        /\ \A i \in 1 .. endOfBuffer : live[i] = buffer[i - 1]
    BY <1>1, PeekedBytes
  <1>4. Abstract!Minimum(Len(data), Abstract!RemainingCapacity(StreamValue)) = k
    <2>1. Abstract!RemainingCapacity(StreamValue) = Capacity - endOfBuffer
      BY <1>3 DEF Abstract!RemainingCapacity, StreamValue
    <2> QED BY <2>1 DEF Abstract!Minimum, WriteSize
  <1>5. Peek(endOfBuffer)' = live \o new
    <2>1. /\ endOfBuffer' = endOfBuffer + k
          /\ \A i \in 0 .. (Capacity - 1) :
               buffer'[i] = IF endOfBuffer <= i /\ i < endOfBuffer + k
                            THEN data[i - endOfBuffer + 1] ELSE buffer[i]
      BY DEF Write
    <2>2. TypeOK'
      BY TypeStep DEF Next
    <2>3. endOfBuffer' \in Nat
      BY <2>2 DEF TypeOK
    <2>4. /\ Peek(endOfBuffer)' \in Seq(Byte)
          /\ Len(Peek(endOfBuffer)') = endOfBuffer'
          /\ \A i \in 1 .. endOfBuffer' : Peek(endOfBuffer)'[i] = buffer'[i - 1]
      <3>1. \A i \in 1 .. endOfBuffer' : buffer'[i - 1] \in Byte
        BY <2>2, StreamAssumption DEF TypeOK
      <3> QED BY <3>1, <2>3 DEF Peek
    <2>5. /\ live \o new \in Seq(Byte)
          /\ Len(live \o new) = endOfBuffer + k
          /\ \A i \in 1 .. (endOfBuffer + k) :
               (live \o new)[i] = IF i <= endOfBuffer THEN live[i] ELSE new[i - endOfBuffer]
      <3> HIDE DEF live, new, k
      <3> QED BY <1>2, <1>3, ConcatProperties, Zenon
    <2> DEFINE after == Peek(endOfBuffer)'
    <2> HIDE DEF live, new, k, after
    <2>6. ASSUME NEW i \in 1 .. (endOfBuffer + k)
          PROVE  after[i] = (live \o new)[i]
      <3>1. after[i] = buffer'[i - 1] /\ i - 1 \in 0 .. (Capacity - 1)
        BY <2>1, <2>4, <1>1, StreamAssumption DEF after
      <3>2. CASE i <= endOfBuffer
        <4>1. i \in 1 .. endOfBuffer /\ ~ (endOfBuffer <= i - 1)
          BY <3>2, <1>1
        <4>2. buffer'[i - 1] = buffer[i - 1]
          BY <4>1, <3>1, <2>1
        <4>3. live[i] = buffer[i - 1]
          BY <4>1, <1>3
        <4> QED BY <3>1, <3>2, <4>2, <4>3, <2>5
      <3>3. CASE ~ (i <= endOfBuffer)
        <4>1. /\ endOfBuffer <= i - 1 /\ i - 1 < endOfBuffer + k
              /\ i - 1 - endOfBuffer + 1 = i - endOfBuffer /\ i - endOfBuffer \in 1 .. k
          BY <3>3, <1>1
        <4>2. buffer'[i - 1] = data[i - endOfBuffer]
          BY <4>1, <3>1, <2>1
        <4>3. new[i - endOfBuffer] = data[i - endOfBuffer]
          BY <4>1, <1>2
        <4> QED BY <3>1, <3>3, <4>2, <4>3, <2>5
      <3> QED BY <3>2, <3>3, Zenon
    <2>7. after \in Seq(Byte) /\ Len(after) = endOfBuffer + k
      BY <2>1, <2>4 DEF after
    <2>8. after = live \o new
      BY <2>5, <2>6, <2>7, SeqEqual
    <2> QED BY <2>8 DEF after
  <1>6. StreamValue' = Abstract!StreamWrite(StreamValue, data)
    <2>1. /\ bytesWritten' = (bytesWritten + k) % Modulus
          /\ UNCHANGED <<bytesRead, isInputEnded, error>>
      BY DEF Write
    <2> HIDE DEF k
    <2>2. Abstract!StreamWrite(StreamValue, data)
            = [StreamValue EXCEPT !.buffer = @ \o new, !.bytesWritten = (@ + k) % Modulus]
      BY <1>4 DEF Abstract!StreamWrite
    <2> HIDE DEF new, live
    <2>3. StreamValue =
            [capacity |-> Capacity, buffer |-> live, bytesWritten |-> bytesWritten,
             bytesRead |-> bytesRead, isInputEnded |-> isInputEnded, error |-> error]
      BY DEF StreamValue, live
    <2>4. StreamValue' =
            [capacity |-> Capacity, buffer |-> live \o new,
             bytesWritten |-> (bytesWritten + k) % Modulus,
             bytesRead |-> bytesRead, isInputEnded |-> isInputEnded, error |-> error]
      BY <1>5, <2>1 DEF StreamValue
    <2> QED BY <2>2, <2>3, <2>4, Zenon
  <1>7. UNCHANGED delivered
    BY DEF Write
  <1> QED BY <1>6, <1>7 DEF Abstract!AWrite

\* Taking bytes from the front of the array is taking them from the queue.
LEMMA ConsumeImplements ==
  ASSUME TypeOK, NEW len \in 0 .. Capacity, Consume(len)
  PROVE  Abstract!AConsume
  <1> DEFINE live == Peek(endOfBuffer)
             rest == SubSeq(live, len + 1, endOfBuffer)
  <1>1. len \in Nat /\ len <= endOfBuffer /\ endOfBuffer \in 0 .. Capacity
    BY StreamAssumption DEF Consume, TypeOK
  <1>2. live \in Seq(Byte) /\ Len(live) = endOfBuffer
        /\ \A i \in 1 .. endOfBuffer : live[i] = buffer[i - 1]
    BY <1>1, PeekedBytes
  <1>3. /\ rest \in Seq(Byte) /\ Len(rest) = endOfBuffer - len
        /\ \A i \in 1 .. (endOfBuffer - len) : rest[i] = live[len + i]
    <2> HIDE DEF live
    <2>1. \A i \in (len + 1) .. endOfBuffer : live[i] \in Byte
      BY <1>1, <1>2, ElementOfSeq
    <2>2. /\ SubSeq(live, len + 1, endOfBuffer) \in Seq(Byte)
          /\ Len(SubSeq(live, len + 1, endOfBuffer))
               = IF len + 1 <= endOfBuffer THEN endOfBuffer - (len + 1) + 1 ELSE 0
          /\ \A i \in 1 .. (endOfBuffer - (len + 1) + 1) :
               SubSeq(live, len + 1, endOfBuffer)[i] = live[len + 1 + i - 1]
      BY <1>1, <2>1, SubSeqProperties
    <2> QED BY <1>1, <2>2
  <1>4. Abstract!PeekOutput(StreamValue, len) = Peek(len)
    <2>1. Abstract!PeekOutput(StreamValue, len) = SubSeq(live, 1, len)
      BY DEF Abstract!PeekOutput, StreamValue
    <2>2. /\ Peek(len) \in Seq(Byte) /\ Len(Peek(len)) = len
          /\ \A i \in 1 .. len : Peek(len)[i] = buffer[i - 1]
      BY <1>1, PeekedBytes, Zenon
    <2> DEFINE got == Peek(len)
               first == SubSeq(live, 1, len)
    <2>3. first \in Seq(Byte) /\ Len(first) = len /\ \A i \in 1 .. len : first[i] = live[i]
      <3> HIDE DEF live
      <3>1. \A i \in 1 .. len : live[i] \in Byte
        BY <1>1, <1>2, ElementOfSeq
      <3>2. /\ SubSeq(live, 1, len) \in Seq(Byte)
            /\ Len(SubSeq(live, 1, len)) = IF 1 <= len THEN len - 1 + 1 ELSE 0
            /\ \A i \in 1 .. (len - 1 + 1) : SubSeq(live, 1, len)[i] = live[1 + i - 1]
        BY <1>1, <3>1, SubSeqProperties
      <3> QED BY <1>1, <3>2
    <2> HIDE DEF live, got, first
    <2>4. \A i \in 1 .. len : got[i] = first[i]
      BY <1>1, <1>2, <2>2, <2>3 DEF got
    <2>5. got = first
      BY <2>2, <2>3, <2>4, SeqEqual DEF got
    <2> QED BY <2>1, <2>5 DEF got, first
  <1>5. Peek(endOfBuffer)' = rest
    <2>1. /\ endOfBuffer' = endOfBuffer - len
          /\ \A i \in 0 .. (Capacity - 1) :
               buffer'[i] = IF i + len < endOfBuffer THEN buffer[i + len] ELSE buffer[i]
      BY DEF Consume, Shifted
    <2>2. TypeOK'
      BY TypeStep DEF Next
    <2> DEFINE after == Peek(endOfBuffer)'
    <2>3. /\ after \in Seq(Byte) /\ Len(after) = endOfBuffer'
          /\ \A i \in 1 .. endOfBuffer' : after[i] = buffer'[i - 1]
      <3>1. \A i \in 1 .. endOfBuffer' : buffer'[i - 1] \in Byte
        BY <2>2, StreamAssumption DEF TypeOK
      <3>2. endOfBuffer' \in Nat
        BY <2>1, <1>1
      <3> QED BY <3>1, <3>2 DEF Peek
    <2> HIDE DEF after, rest, live
    <2>4. ASSUME NEW i \in 1 .. (endOfBuffer - len)
          PROVE  after[i] = rest[i]
      <3>1. after[i] = buffer'[i - 1]
        BY <2>1, <2>3
      <3>2. i - 1 \in 0 .. (Capacity - 1) /\ (i - 1) + len < endOfBuffer
        BY <1>1, StreamAssumption
      <3>3. buffer'[i - 1] = buffer[(i - 1) + len]
        BY <3>2, <2>1
      <3>4. len + i \in 1 .. endOfBuffer /\ len + i - 1 = (i - 1) + len
        BY <1>1
      <3>5. live[len + i] = buffer[(i - 1) + len]
        BY <3>4, <1>2
      <3> QED BY <3>1, <3>3, <3>5, <1>3
    <2>5. Len(after) = endOfBuffer - len
      BY <2>1, <2>3
    <2>6. after = rest
      BY <1>3, <2>3, <2>4, <2>5, SeqEqual
    <2> QED BY <2>6 DEF after
  <1>6. StreamValue' = Abstract!PopOutput(StreamValue, len)
    <2>1. /\ bytesRead' = (bytesRead + len) % Modulus
          /\ UNCHANGED <<bytesWritten, isInputEnded, error>>
      BY DEF Consume
    <2>2. StreamValue =
            [capacity |-> Capacity, buffer |-> live, bytesWritten |-> bytesWritten,
             bytesRead |-> bytesRead, isInputEnded |-> isInputEnded, error |-> error]
      BY DEF StreamValue
    <2> HIDE DEF live, rest
    <2>3. StreamValue.buffer = live /\ Len(live) = endOfBuffer
      BY <2>2, <1>2
    <2>4. Abstract!PopOutput(StreamValue, len)
            = [StreamValue EXCEPT !.buffer = rest, !.bytesRead = (@ + len) % Modulus]
      BY <2>3 DEF Abstract!PopOutput, rest
    <2>5. StreamValue' =
            [capacity |-> Capacity, buffer |-> rest, bytesWritten |-> bytesWritten,
             bytesRead |-> (bytesRead + len) % Modulus, isInputEnded |-> isInputEnded,
             error |-> error]
      BY <1>5, <2>1 DEF StreamValue
    <2> QED BY <2>2, <2>4, <2>5, Zenon
  <1>7. delivered' = delivered \o Abstract!PeekOutput(StreamValue, len)
    BY <1>4 DEF Consume
  <1>8. len \in 0 .. Abstract!BufferSize(StreamValue)
    BY <1>1, <1>2 DEF Abstract!BufferSize, StreamValue
  <1> QED BY <1>6, <1>7, <1>8 DEF Abstract!AConsume

\* The class, with its array that is shifted in place and its leftover bytes,
\* implements the queue of module Stream.
THEOREM Refinement == Spec => ImplementsStream
  <1>1. ASSUME Init PROVE Abstract!AInit
    <2>1. Peek(endOfBuffer) = <<>>
      BY <1>1 DEF Init, Peek
    <2> QED BY <1>1, <2>1, Zenon DEF Init, StreamValue, Abstract!AInit, Abstract!StreamNew
  <1>2. ASSUME TypeOK, [Next]_vars PROVE [Abstract!ANext]_<<StreamValue, delivered>>
    <2>1. ASSUME NEW data \in Data, Write(data) PROVE Abstract!ANext
      BY <1>2, <2>1, WriteImplements DEF Abstract!ANext
    <2>2. ASSUME NEW len \in 0 .. Capacity, Consume(len) PROVE Abstract!ANext
      BY <1>2, <2>2, ConsumeImplements DEF Abstract!ANext
    <2>3. CASE EndInput
      <3> DEFINE live == Peek(endOfBuffer)
      <3>1. live' = live /\ UNCHANGED delivered
        BY <2>3 DEF EndInput, Peek
      <3>2. StreamValue = [capacity |-> Capacity, buffer |-> live, bytesWritten |-> bytesWritten,
                 bytesRead |-> bytesRead, isInputEnded |-> isInputEnded, error |-> error]
        BY DEF StreamValue
      <3>3. StreamValue' = [capacity |-> Capacity, buffer |-> live, bytesWritten |-> bytesWritten,
                 bytesRead |-> bytesRead, isInputEnded |-> TRUE, error |-> error]
        BY <2>3, <3>1 DEF StreamValue, EndInput
      <3> HIDE DEF live
      <3>4. StreamValue' = Abstract!EndInput(StreamValue)
        <4>1. \A t : [StreamValue EXCEPT !.isInputEnded = t] =
                    [capacity |-> Capacity, buffer |-> live, bytesWritten |-> bytesWritten,
                     bytesRead |-> bytesRead, isInputEnded |-> t, error |-> error]
          BY <3>2
        <4> QED BY <3>3, <4>1, Zenon DEF Abstract!EndInput
      <3> QED BY <3>1, <3>4 DEF Abstract!AEndInput, Abstract!ANext
    <2>4. CASE SetError
      <3> DEFINE live == Peek(endOfBuffer)
      <3>1. live' = live /\ UNCHANGED delivered
        BY <2>4 DEF SetError, Peek
      <3>2. StreamValue = [capacity |-> Capacity, buffer |-> live, bytesWritten |-> bytesWritten,
                 bytesRead |-> bytesRead, isInputEnded |-> isInputEnded, error |-> error]
        BY DEF StreamValue
      <3>3. StreamValue' = [capacity |-> Capacity, buffer |-> live, bytesWritten |-> bytesWritten,
                 bytesRead |-> bytesRead, isInputEnded |-> isInputEnded, error |-> TRUE]
        BY <2>4, <3>1 DEF StreamValue, SetError
      <3> HIDE DEF live
      <3>4. StreamValue' = Abstract!SetError(StreamValue)
        <4>1. \A t : [StreamValue EXCEPT !.error = t] =
                    [capacity |-> Capacity, buffer |-> live, bytesWritten |-> bytesWritten,
                     bytesRead |-> bytesRead, isInputEnded |-> isInputEnded, error |-> t]
          BY <3>2
        <4> QED BY <3>3, <4>1, Zenon DEF Abstract!SetError
      <3> QED BY <3>1, <3>4 DEF Abstract!ASetError, Abstract!ANext
    <2>5. CASE UNCHANGED vars
      BY <2>5 DEF vars, StreamValue, Peek
    <2> QED BY <1>2, <2>1, <2>2, <2>3, <2>4, <2>5, NextCases
  <1>3. QED
    BY <1>1, <1>2, TypeCorrect, PTL DEF Spec, ImplementsStream, Abstract!ASpec, Abstract!absVars
=============================================================================
