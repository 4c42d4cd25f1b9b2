---------------------------- MODULE Wire_proofs -----------------------------
(***************************************************************************)
(* Proofs about Wire for any nodes, drafts, keys and lengths of messages.  *)
(***************************************************************************)
EXTENDS Wire, SequenceTheorems, TLAPS

-----------------------------------------------------------------------------
(* Slices of byte strings *)

\* A slice has the bytes that it is cut from.
LEMMA Slice ==
  ASSUME NEW s \in Seq(Byte), NEW m \in 1 .. Len(s) + 1, NEW n \in m - 1 .. Len(s)
  PROVE  /\ SubSeq(s, m, n) \in Seq(Byte)
         /\ Len(SubSeq(s, m, n)) = n - m + 1
         /\ \A i \in 1 .. n - m + 1 : SubSeq(s, m, n)[i] = s[m + i - 1]
<1>1. m \in Int /\ n \in Int /\ \A i \in m .. n : s[i] \in Byte
  BY ElementOfSeq, LenProperties
<1> QED
  BY <1>1, SubSeqProperties, LenProperties

\* Two adjacent slices make one.
LEMMA Adjacent ==
  ASSUME NEW s \in Seq(Byte), NEW m \in 1 .. Len(s) + 1,
         NEW k \in m - 1 .. Len(s), NEW n \in k .. Len(s)
  PROVE  SubSeq(s, m, k) \o SubSeq(s, k + 1, n) = SubSeq(s, m, n)
BY ConcatAdjacentSubSeq

-----------------------------------------------------------------------------
(* An alert that is read and written again *)

\* The fields that ReadRaw cuts out of an alert make its data again.
LEMMA DataReread ==
  ASSUME NEW raw \in Seq(Byte), CanReadRaw(raw)
  PROVE  SerializeData(ReadRaw(raw)) = SubSeq(raw, 1, MessageEnd(raw))
<1> DEFINE end == MessageEnd(raw)
<1>1. end \in 22 .. Len(raw)
  BY LenProperties DEF CanReadRaw, MessageEnd, SigLen
<1>2. SubSeq(raw, 1, 4) \o SubSeq(raw, 5, 8) = SubSeq(raw, 1, 8)
  BY <1>1, Adjacent, LenProperties
<1>3. SubSeq(raw, 1, 8) \o SubSeq(raw, 9, 16) = SubSeq(raw, 1, 16)
  BY <1>1, Adjacent, LenProperties
<1>4. SubSeq(raw, 1, 16) \o SubSeq(raw, 17, 20) = SubSeq(raw, 1, 20)
  BY <1>1, Adjacent, LenProperties
<1>5. SubSeq(raw, 1, 20) \o SubSeq(raw, 21, end) = SubSeq(raw, 1, end)
  BY <1>1, Adjacent, LenProperties
<1> HIDE DEF end
<1> QED
  BY <1>2, <1>3, <1>4, <1>5 DEF SerializeData, ReadRaw, TypeField, end

\* The three signatures that it cuts out make what follows the data.
LEMMA SignaturesReread ==
  ASSUME NEW raw \in Seq(Byte), CanReadRaw(raw), TypeField(raw) # Word(99)
  PROVE  Joined(ReadRaw(raw).signatures) = SubSeq(raw, MessageEnd(raw) + 1, Len(raw))
<1> DEFINE end == MessageEnd(raw)
           sigs == ReadRaw(raw).signatures
           tail == SubSeq(raw, end + 1, Len(raw))
<1>1. /\ end \in 22 .. Len(raw)
      /\ Len(raw) = end + 195
  BY LenProperties DEF CanReadRaw, MessageEnd, SigLen
<1>2. sigs = [i \in 1 .. 3 |-> SubSeq(raw, end + 65 * (i - 1) + 1, end + 65 * i)]
  BY DEF ReadRaw, SigLen, SigSize
<1>3. Len(sigs) = 3
  BY <1>2
<1> HIDE DEF end, sigs
<1> DEFINE from == end + 1
           to == Len(raw)
           size == to - from + 1
<1>4. from \in 1 .. Len(raw) + 1 /\ to \in from - 1 .. Len(raw) /\ size = 195
  BY <1>1
<1>5. \A i \in 1 .. 195 : from + i - 1 = end + i
  BY <1>1
<1>6. tail \in Seq(Byte) /\ Len(tail) = 195 /\ \A i \in 1 .. 195 : tail[i] = raw[end + i]
  <2> HIDE DEF from, to
  <2>1. /\ SubSeq(raw, from, to) \in Seq(Byte)
        /\ Len(SubSeq(raw, from, to)) = size
        /\ \A i \in 1 .. size : SubSeq(raw, from, to)[i] = raw[from + i - 1]
    BY <1>4, Slice
  <2>2. tail = SubSeq(raw, from, to)
    BY DEF from, to
  <2> HIDE DEF tail, size
  <2>3. ASSUME NEW i \in 1 .. 195 PROVE tail[i] = raw[end + i]
    <3>1. i \in 1 .. size
      BY <1>4
    <3>2. tail[i] = raw[from + i - 1]
      BY <2>1, <2>2, <3>1
    <3> QED
      BY <1>5, <3>2
  <2> QED
    BY <1>4, <2>1, <2>2, <2>3
<1> HIDE DEF tail, from, to, size
<1> DEFINE part(i) == sigs[1 + ((i - 1) \div 65)][1 + ((i - 1) % 65)]
<1>7. ASSUME NEW i \in 1 .. 195 PROVE part(i) = raw[end + i]
  <2> DEFINE k == 1 + ((i - 1) \div 65)
             j == 1 + ((i - 1) % 65)
             first == end + 65 * (k - 1) + 1
             last == end + 65 * k
  <2>1. k \in 1 .. 3 /\ j \in 1 .. 65 /\ 65 * (k - 1) + j = i
    OBVIOUS
  <2>2. sigs[k] = SubSeq(raw, first, last)
    BY <1>2, <2>1
  <2> HIDE DEF k, j
  <2>3. /\ first \in Int /\ last \in Int
        /\ first >= 1 /\ last <= Len(raw) /\ last - first + 1 = 65
        /\ first + j - 1 = end + i
    BY <1>1, <2>1
  <2> HIDE DEF first, last
  <2>4. first \in 1 .. Len(raw) + 1 /\ last \in first - 1 .. Len(raw) /\ j \in 1 .. last - first + 1
    BY <1>1, <2>1, <2>3
  <2>5. SubSeq(raw, first, last)[j] = raw[first + j - 1]
    BY <2>4, Slice
  <2> QED
    BY <2>2, <2>3, <2>5 DEF k, j
<1>8. Joined(sigs) = [i \in 1 .. 195 |-> part(i)]
  BY <1>3 DEF Joined, SigSize
<1> HIDE DEF part
<1>9. tail = [i \in 1 .. 195 |-> tail[i]]
  BY <1>6, LenProperties
<1>10. Joined(sigs) = [i \in 1 .. 195 |-> tail[i]]
  <2>1. ASSUME NEW i \in 1 .. 195 PROVE part(i) = tail[i]
    <3>1. part(i) = raw[end + i]
      BY <1>7
    <3>2. tail[i] = raw[end + i]
      BY <1>6
    <3> QED
      BY <3>1, <3>2, Zenon
  <2> QED
    BY <1>8, <2>1, Zenon
<1> QED
  BY <1>9, <1>10 DEF end, sigs, tail

\* Whatever a node can read, but for type 99, it writes as it was.
THEOREM RoundTrip ==
  ASSUME NEW raw \in Seq(Byte), CanReadRaw(raw), TypeField(raw) # Word(99)
  PROVE  Serialize(ReadRaw(raw)) = raw
<1>1. MessageEnd(raw) \in 22 .. Len(raw)
  BY LenProperties DEF CanReadRaw, MessageEnd, SigLen
<1>2. SubSeq(raw, 1, MessageEnd(raw)) \o SubSeq(raw, MessageEnd(raw) + 1, Len(raw))
        = SubSeq(raw, 1, Len(raw))
  <2>1. /\ 1 \in 1 .. Len(raw) + 1 /\ MessageEnd(raw) \in 1 - 1 .. Len(raw)
        /\ Len(raw) \in MessageEnd(raw) .. Len(raw)
    BY <1>1, LenProperties
  <2> QED
    BY <2>1, Adjacent
<1> QED
  BY <1>2, DataReread, SignaturesReread, SubSeqFull DEF Serialize

-----------------------------------------------------------------------------
(* A message that is framed and read from the stream *)

\* Of three strings in a row, the second and the third are found again.
LEMMA Middle ==
  ASSUME NEW u \in Seq(Byte), NEW v \in Seq(Byte), NEW w \in Seq(Byte)
  PROVE  LET s == u \o v \o w IN
         /\ s \in Seq(Byte)
         /\ Len(s) = Len(u) + Len(v) + Len(w)
         /\ SubSeq(s, Len(u) + 1, Len(u) + Len(v)) = v
         /\ SubSeq(s, Len(u) + Len(v) + 1, Len(s)) = w
<1> DEFINE s == u \o v \o w
           p == Len(u)
           q == Len(u) + Len(v)
<1>1. /\ s \in Seq(Byte)
      /\ Len(s) = q + Len(w)
      /\ \A i \in 1 .. Len(v) : s[p + i] = v[i]
      /\ \A i \in 1 .. Len(w) : s[q + i] = w[i]
  <2>1. u \o v \in Seq(Byte) /\ Len(u \o v) = q
        /\ \A i \in 1 .. q : (u \o v)[i] = IF i <= p THEN u[i] ELSE v[i - p]
    BY ConcatProperties
  <2> DEFINE x == u \o v
  <2> HIDE DEF x
  <2>2. x \o w \in Seq(Byte) /\ Len(x \o w) = Len(x) + Len(w)
        /\ \A i \in 1 .. Len(x) + Len(w) :
              (x \o w)[i] = IF i <= Len(x) THEN x[i] ELSE w[i - Len(x)]
    BY <2>1, ConcatProperties DEF x
  <2>3. p \in Nat /\ q \in Nat /\ Len(v) \in Nat /\ Len(w) \in Nat /\ q = p + Len(v)
    BY LenProperties
  <2>4. s = x \o w /\ Len(x) = q
    BY <2>1 DEF x
  <2> HIDE DEF s, p, q
  <2>5. ASSUME NEW i \in 1 .. Len(v) PROVE s[p + i] = v[i]
    <3>1. p + i \in 1 .. q /\ ~(p + i <= p) /\ (p + i) - p = i /\ p + i \in 1 .. q + Len(w)
      BY <2>3
    <3>2. s[p + i] = x[p + i]
      BY <2>2, <2>4, <3>1
    <3> QED
      BY <2>1, <3>1, <3>2 DEF x
  <2>6. ASSUME NEW i \in 1 .. Len(w) PROVE s[q + i] = w[i]
    <3>1. q + i \in 1 .. q + Len(w) /\ ~(q + i <= q) /\ (q + i) - q = i
      BY <2>3
    <3> QED
      BY <2>2, <2>4, <3>1
  <2> QED
    BY <2>2, <2>4, <2>5, <2>6
<1>2. p \in Nat /\ q \in Nat /\ Len(v) \in Nat /\ Len(w) \in Nat /\ q = p + Len(v)
  BY LenProperties
<1> HIDE DEF s, p, q
<1>3. SubSeq(s, p + 1, q) = v
  <2> DEFINE from == p + 1
             size == q - from + 1
             t == SubSeq(s, from, q)
  <2>1. from \in 1 .. Len(s) + 1 /\ q \in from - 1 .. Len(s) /\ size = Len(v)
    BY <1>1, <1>2
  <2>2. \A i \in 1 .. Len(v) : from + i - 1 = p + i
    BY <1>2
  <2> HIDE DEF from
  <2>3. t \in Seq(Byte) /\ Len(t) = size /\ \A i \in 1 .. size : t[i] = s[from + i - 1]
    BY <1>1, <2>1, Slice
  <2> HIDE DEF t, size
  <2>4. t = v
    BY <1>1, <2>1, <2>2, <2>3, SeqEqual
  <2> QED
    BY <2>4 DEF t, from
<1>4. SubSeq(s, q + 1, Len(s)) = w
  <2> DEFINE from == q + 1
             to == Len(s)
             size == to - from + 1
             t == SubSeq(s, from, to)
  <2>1. from \in 1 .. Len(s) + 1 /\ to \in from - 1 .. Len(s) /\ size = Len(w)
    BY <1>1, <1>2
  <2>2. \A i \in 1 .. Len(w) : from + i - 1 = q + i
    BY <1>2
  <2> HIDE DEF from, to
  <2>3. t \in Seq(Byte) /\ Len(t) = size /\ \A i \in 1 .. size : t[i] = s[from + i - 1]
    BY <1>1, <2>1, Slice
  <2> HIDE DEF t, size
  <2>4. t = w
    BY <1>1, <2>1, <2>2, <2>3, SeqEqual
  <2> QED
    BY <2>4 DEF t, from, to
<1> QED
  BY <1>1, <1>3, <1>4 DEF s, p, q

LEMMA Front ==
  ASSUME NEW h \in Seq(Byte), h # <<>>, NEW s \in Seq(Byte)
  PROVE  h \o s # <<>> /\ \A i \in 1 .. Len(h) : (h \o s)[i] = h[i]
<1>1. Len(h) \in Nat /\ Len(s) \in Nat /\ Len(h) # 0
  BY EmptySeq, LenProperties
<1>2. /\ h \o s \in Seq(Byte) /\ Len(h \o s) = Len(h) + Len(s)
      /\ \A i \in 1 .. Len(h) + Len(s) :
            (h \o s)[i] = IF i <= Len(h) THEN h[i] ELSE s[i - Len(h)]
  BY ConcatProperties
<1> DEFINE t == h \o s
<1> HIDE DEF t
<1>3. t # <<>>
  BY <1>1, <1>2, EmptySeq DEF t
<1>4. ASSUME NEW i \in 1 .. Len(h) PROVE t[i] = h[i]
  BY <1>1, <1>2 DEF t
<1> QED
  BY <1>3, <1>4 DEF t

LEMMA HugeNat == Huge \in Nat
BY DEF Huge

LEMMA HighByte ==
  ASSUME NEW n \in Nat, n < Huge
  PROVE  n \div 256 \in Byte
<1>1. n \div 256 \in Nat /\ n \div 256 < 256
  BY DEF Huge
<1> QED
  BY <1>1 DEF Byte

\* The length in front of a frame is read as it was written.
LEMMA VarIntReread ==
  ASSUME NEW n \in Nat, n < Huge, NEW s \in Seq(Byte)
  PROVE  LET t == VarIntBytes(n) \o s IN
         /\ VarIntBytes(n) \in Seq(Byte)
         /\ t # <<>> /\ From(t) = Len(VarIntBytes(n)) /\ VarInt(t) = n
<1> DEFINE h == VarIntBytes(n)
           t == h \o s
<1>1. CASE n < 253
  <2>0. n \in Byte
    BY <1>1 DEF Byte
  <2>1. h = <<n>>
    BY <1>1 DEF VarIntBytes
  <2> HIDE DEF h
  <2>2. h \in Seq(Byte) /\ h # <<>> /\ Len(h) = 1 /\ h[1] = n
    BY <2>0, <2>1
  <2>3. t[1] = n /\ t # <<>>
    BY <2>2, Front
  <2> HIDE DEF t
  <2>4. From(t) = 1 /\ VarInt(t) = n
    BY <1>1, <2>3 DEF From, Width, VarInt
  <2> QED
    BY <2>2, <2>3, <2>4 DEF t, h
<1>2. CASE n >= 253
  <2> DEFINE lo == n % 256
             hi == n \div 256
  <2>1. lo \in Byte /\ hi \in Byte /\ lo + 256 * hi = n
    BY HighByte DEF Byte
  <2>2. h = <<253, lo, hi>>
    BY <1>2 DEF VarIntBytes
  <2> HIDE DEF h, lo, hi
  <2>3. h \in Seq(Byte) /\ h # <<>>
    BY <2>1, <2>2 DEF Byte
  <2>4. Len(h) = 3 /\ h[1] = 253 /\ h[2] = lo /\ h[3] = hi
    BY <2>2
  <2>6. t # <<>> /\ \A i \in 1 .. Len(h) : t[i] = h[i]
    BY <2>3, Front
  <2> HIDE DEF t
  <2>7. t[1] = h[1] /\ t[2] = h[2] /\ t[3] = h[3]
    BY <2>4, <2>6
  <2>5. From(t) = 3 /\ VarInt(t) = n
    BY <2>1, <2>4, <2>6, <2>7 DEF From, Width, VarInt
  <2> QED
    BY <2>3, <2>4, <2>5, <2>6 DEF t, h
<1> QED
  BY <1>1, <1>2

\* Whatever follows a frame on the stream, the message is read as it was
\* written, and what follows is left.
LEMMA FrameReread ==
  ASSUME NEW msg \in Seq(Byte), Len(msg) < Huge, NEW next \in Seq(Byte)
  PROVE  LET s == Frame(msg) \o next IN
         HasVarBytes(s) /\ Text(s) = msg /\ Rest(s) = next
<1> DEFINE h == VarIntBytes(Len(msg))
           s == h \o msg \o next
<1>1. Len(msg) \in Nat /\ Len(h) \in Nat /\ Len(next) \in Nat /\ h \in Seq(Byte)
  BY VarIntReread, LenProperties
<1>2. msg \o next \in Seq(Byte) /\ s = h \o (msg \o next)
  BY <1>1, ConcatProperties, ConcatAssociative
<1>3. s # <<>> /\ From(s) = Len(h) /\ VarInt(s) = Len(msg)
  <2> DEFINE n == Len(msg)
             rest == msg \o next
  <2>1. n \in Nat /\ n < Huge /\ rest \in Seq(Byte)
    BY <1>1, <1>2
  <2> HIDE DEF n, rest
  <2>2. LET t == VarIntBytes(n) \o rest IN
        t # <<>> /\ From(t) = Len(VarIntBytes(n)) /\ VarInt(t) = n
    BY <2>1, VarIntReread
  <2>3. s = VarIntBytes(n) \o rest /\ h = VarIntBytes(n) /\ n = Len(msg)
    BY <1>2 DEF n, rest
  <2> HIDE DEF s, h
  <2> QED
    BY <2>2, <2>3
<1> HIDE DEF h
<1>4. /\ Len(s) = Len(h) + Len(msg) + Len(next)
      /\ SubSeq(s, Len(h) + 1, Len(h) + Len(msg)) = msg
      /\ SubSeq(s, Len(h) + Len(msg) + 1, Len(s)) = next
  BY <1>1, Middle
<1> HIDE DEF s
<1>5. HasVarInt(s)
  BY <1>1, <1>3, <1>4 DEF HasVarInt, From
<1>6. HasVarBytes(s) /\ Text(s) = msg /\ Rest(s) = next
  BY <1>1, <1>3, <1>4, <1>5 DEF HasVarBytes, Text, Rest, After
<1> QED
  BY <1>6 DEF s, h, Frame

\* The data of a message of a session is what was put into it.
LEMMA DataOfMessage ==
  ASSUME NEW raw \in Raws, Len(raw) >= 20
  PROVE  LET msg == SyncMessage(IGotSequenceNumber, raw) IN
         msg \in Seq(Byte) /\ Len(msg) < Huge /\ MessageData(msg) = raw
<1> DEFINE h == <<IGotSequenceNumber>>
           number == SubSeq(raw, 5, 8)
           msg == h \o number \o raw
<1>1. raw \in Seq(Byte) /\ Len(raw) \in Nat /\ Len(raw) + 5 < Huge
  BY LenProperties DEF Raws
<1>2. number \in Seq(Byte) /\ Len(number) = 4
  BY <1>1, Slice
<1>3. h \in Seq(Byte) /\ Len(h) = 1
  BY DEF IGotSequenceNumber, Byte
<1> HIDE DEF h, number
<1>4. /\ msg \in Seq(Byte) /\ Len(msg) = Len(h) + Len(number) + Len(raw)
      /\ SubSeq(msg, Len(h) + Len(number) + 1, Len(msg)) = raw
  <2>1. h \in Seq(Byte) /\ number \in Seq(Byte) /\ raw \in Seq(Byte)
    BY <1>1, <1>2, <1>3
  <2> QED
    BY <2>1, Middle
<1> HIDE DEF msg
<1>5. msg \in Seq(Byte) /\ Len(msg) < Huge /\ MessageData(msg) = raw
  BY <1>1, <1>2, <1>3, <1>4, HugeNat DEF MessageData, After
<1> QED
  BY <1>5 DEF msg, h, number, SyncMessage

\* What a session sends is what the other side receives.
THEOREM SessionCarries ==
  ASSUME NEW raw \in Raws, Len(raw) >= 20, NEW next \in Seq(Byte)
  PROVE  LET s == Frame(SyncMessage(IGotSequenceNumber, raw)) \o next IN
         HasVarBytes(s) /\ Received(s) = raw /\ Rest(s) = next
<1> DEFINE msg == SyncMessage(IGotSequenceNumber, raw)
<1>1. msg \in Seq(Byte) /\ Len(msg) < Huge /\ MessageData(msg) = raw
  BY DataOfMessage
<1> HIDE DEF msg
<1> QED
  BY <1>1, FrameReread DEF Received, msg

-----------------------------------------------------------------------------
(* The readers and the format *)

LEMMA ByteBounds == \A b \in Byte : b \in Nat /\ b < 256
BY DEF Byte

LEMMA Digits ==
  ASSUME NEW n \in Nat, NEW lo \in Nat, lo < 256, NEW hi \in Nat
  PROVE  lo + 256 * hi = n <=> n % 256 = lo /\ n \div 256 = hi
OBVIOUS

\* The encodings of a number, byte by byte.
NumberIs(t, n, lo, hi) ==
  \/ Len(t) = 1 /\ t[1] = n /\ n < 253
  \/ Len(t) = 3 /\ t[1] = 253 /\ t[2] = lo /\ t[3] = hi
  \/ /\ Len(t) = 5 /\ t[1] = 254 /\ t[2] = lo /\ t[3] = hi
     /\ t[4] = 0 /\ t[5] = 0
  \/ /\ Len(t) = 9 /\ t[1] = 255 /\ t[2] = lo /\ t[3] = hi
     /\ t[4] = 0 /\ t[5] = 0 /\ t[6] = 0 /\ t[7] = 0 /\ t[8] = 0 /\ t[9] = 0

LEMMA NumberBytes ==
  ASSUME NEW n \in Nat, NEW t \in Seq(Nat)
  PROVE  t \in VarInts(n) <=> NumberIs(t, n, n % 256, n \div 256)
<1> DEFINE lo == n % 256
           hi == n \div 256
<1>0. lo \in Nat /\ hi \in Nat
  OBVIOUS
<1> DEFINE u1 == <<n>>
           u3 == <<253, lo, hi>>
           u5 == <<254, lo, hi, 0, 0>>
           u9 == <<255, lo, hi, 0, 0, 0, 0, 0, 0>>
<1>1. t \in VarInts(n) <=> (t = u1 /\ n < 253) \/ t = u3 \/ t = u5 \/ t = u9
  BY DEF VarInts
<1> HIDE DEF lo, hi
<1>2. t = u1 <=> Len(t) = 1 /\ t[1] = n
  <2>1. u1 \in Seq(Nat) /\ Len(u1) = 1 /\ u1[1] = n
    BY <1>0
  <2> HIDE DEF u1
  <2>2. ASSUME Len(t) = 1, t[1] = n PROVE t = u1
    <3>1. \A i \in 1 .. Len(t) : t[i] = u1[i]
      BY <2>1, <2>2
    <3>2. u1 \in Seq(Nat) /\ Len(t) = Len(u1)
      BY <2>1, <2>2
    <3> QED
      BY <3>1, <3>2, SeqEqual
  <2> QED
    BY <2>1, <2>2
<1>3. t = u3 <=> Len(t) = 3 /\ t[1] = 253 /\ t[2] = lo /\ t[3] = hi
  <2>1. u3 \in Seq(Nat) /\ Len(u3) = 3 /\ u3[1] = 253 /\ u3[2] = lo /\ u3[3] = hi
    BY <1>0
  <2> HIDE DEF u3
  <2>2. ASSUME Len(t) = 3, t[1] = 253, t[2] = lo, t[3] = hi PROVE t = u3
    <3>1. \A i \in 1 .. Len(t) : t[i] = u3[i]
      BY <2>1, <2>2
    <3>2. u3 \in Seq(Nat) /\ Len(t) = Len(u3)
      BY <2>1, <2>2
    <3> QED
      BY <3>1, <3>2, SeqEqual
  <2> QED
    BY <2>1, <2>2
<1>4. t = u5 <=> /\ Len(t) = 5 /\ t[1] = 254 /\ t[2] = lo /\ t[3] = hi
                 /\ t[4] = 0 /\ t[5] = 0
  <2>1. u5 \in Seq(Nat) /\ Len(u5) = 5 /\ u5[1] = 254 /\ u5[2] = lo /\ u5[3] = hi
        /\ u5[4] = 0 /\ u5[5] = 0
    BY <1>0
  <2> HIDE DEF u5
  <2>2. ASSUME Len(t) = 5, t[1] = 254, t[2] = lo, t[3] = hi, t[4] = 0, t[5] = 0 PROVE t = u5
    <3>1. \A i \in 1 .. Len(t) : t[i] = u5[i]
      BY <2>1, <2>2
    <3>2. u5 \in Seq(Nat) /\ Len(t) = Len(u5)
      BY <2>1, <2>2
    <3> QED
      BY <3>1, <3>2, SeqEqual
  <2> QED
    BY <2>1, <2>2
<1>5. t = u9 <=> /\ Len(t) = 9 /\ t[1] = 255 /\ t[2] = lo /\ t[3] = hi
                 /\ t[4] = 0 /\ t[5] = 0 /\ t[6] = 0 /\ t[7] = 0 /\ t[8] = 0 /\ t[9] = 0
  <2>1. u9 \in Seq(Nat) /\ Len(u9) = 9 /\ u9[1] = 255 /\ u9[2] = lo /\ u9[3] = hi
        /\ u9[4] = 0 /\ u9[5] = 0 /\ u9[6] = 0 /\ u9[7] = 0 /\ u9[8] = 0 /\ u9[9] = 0
    BY <1>0
  <2> HIDE DEF u9
  <2>2. ASSUME Len(t) = 9, t[1] = 255, t[2] = lo, t[3] = hi, t[4] = 0, t[5] = 0,
               t[6] = 0, t[7] = 0, t[8] = 0, t[9] = 0
        PROVE  t = u9
    <3>1. \A i \in 1 .. Len(t) : t[i] = u9[i]
      BY <2>1, <2>2
    <3>2. u9 \in Seq(Nat) /\ Len(t) = Len(u9)
      BY <2>1, <2>2
    <3> QED
      BY <3>1, <3>2, SeqEqual
  <2> QED
    BY <2>1, <2>2
<1> HIDE DEF u1, u3, u5, u9
<1> QED
  BY <1>1, <1>2, <1>3, <1>4, <1>5 DEF NumberIs, lo, hi

\* A number in front of a string has the format exactly if it is what VarInt
\* reads there.
LEMMA NumberFormat ==
  ASSUME NEW s \in Seq(Byte), NEW n \in Nat, n < Huge,
         NEW i \in {1, 3, 5, 9}, i <= Len(s)
  PROVE  SubSeq(s, 1, i) \in VarInts(n) <=> From(s) = i /\ VarInt(s) = n
<1> DEFINE lo == n % 256
           hi == n \div 256
           t == SubSeq(s, 1, i)
<1>1. Len(s) \in Nat /\ \A k \in 1 .. Len(s) : s[k] \in Nat /\ s[k] < 256
  BY ByteBounds, ElementOfSeq, LenProperties
<1>2. t \in Seq(Nat) /\ Len(t) = i /\ \A k \in 1 .. i : t[k] = s[k] /\ s[k] \in Nat /\ s[k] < 256
  <2>1. \A k \in 1 .. i : s[k] \in Nat /\ s[k] < 256
    BY <1>1
  <2> QED
    BY <1>1, <2>1, SubSeqProperties
<1>3. lo \in Nat /\ hi \in Nat /\ lo = n % 256 /\ hi = n \div 256
  OBVIOUS
<1> HIDE DEF lo, hi
<1>4. i >= 3 => (s[2] + 256 * s[3] = n <=> lo = s[2] /\ hi = s[3])
  <2>1. ASSUME i >= 3 PROVE s[2] \in Nat /\ s[3] \in Nat /\ s[2] < 256 /\ s[3] < 256
    BY <1>2, <2>1
  <2>2. ASSUME NEW a \in Nat, a < 256, NEW b \in Nat, b < 256
        PROVE  a + 256 * b = n <=> lo = a /\ hi = b
    BY <1>3, <2>2, Digits
  <2> QED
    BY <2>1, <2>2
<1>5. t \in VarInts(n) <=> NumberIs(t, n, lo, hi)
  <2> HIDE DEF t
  <2>1. t \in Seq(Nat)
    BY <1>2
  <2> QED
    <3>1. t \in VarInts(n) <=> NumberIs(t, n, n % 256, n \div 256)
      BY <2>1, NumberBytes
    <3> QED
      BY <1>3, <3>1
<1> HIDE DEF t
<1>6. s[1] \in Nat /\ s[1] < 256 /\ t[1] = s[1]
  BY <1>2
<1>7. CASE i = 1
  <2>1. From(s) = 1 /\ VarInt(s) = n <=> s[1] = n /\ n < 253
    BY <1>6 DEF From, Width, VarInt
  <2> QED
    BY <1>2, <1>5, <1>6, <1>7, <2>1 DEF t, NumberIs
<1>8. CASE i = 3
  <2>1. From(s) = 3 /\ VarInt(s) = n <=> s[1] = 253 /\ s[2] + 256 * s[3] = n
    BY <1>6 DEF From, Width, VarInt
  <2>2. t[2] = s[2] /\ t[3] = s[3]
    BY <1>2, <1>8
  <2> QED
    BY <1>2, <1>4, <1>5, <1>6, <1>8, <2>1, <2>2 DEF t, NumberIs
<1>9. CASE i = 5
  <2>1. From(s) = 5 /\ VarInt(s) = n
          <=> s[1] = 254 /\ s[2] + 256 * s[3] = n /\ s[4] = 0 /\ s[5] = 0
    <3>1. From(s) = 5 <=> s[1] = 254
      BY <1>6 DEF From, Width
    <3>2. ASSUME s[1] = 254
          PROVE  (\A k \in 4 .. 1 + Width(s[1]) : s[k] = 0) <=> s[4] = 0 /\ s[5] = 0
      BY <3>2 DEF Width
    <3>3. n # Huge
      BY HugeNat
    <3>4. ASSUME s[1] = 254
          PROVE  VarInt(s) = n <=> s[2] + 256 * s[3] = n /\ s[4] = 0 /\ s[5] = 0
      BY <3>2, <3>3, <3>4 DEF VarInt
    <3> QED
      BY <3>1, <3>4
  <2>2. t[2] = s[2] /\ t[3] = s[3] /\ t[4] = s[4] /\ t[5] = s[5]
    BY <1>2, <1>9
  <2> QED
    BY <1>2, <1>4, <1>5, <1>6, <1>9, <2>1, <2>2 DEF t, NumberIs
<1>10. CASE i = 9
  <2>1. From(s) = 9 /\ VarInt(s) = n
          <=> /\ s[1] = 255 /\ s[2] + 256 * s[3] = n
              /\ s[4] = 0 /\ s[5] = 0 /\ s[6] = 0 /\ s[7] = 0 /\ s[8] = 0 /\ s[9] = 0
    <3> DEFINE zeros == /\ s[4] = 0 /\ s[5] = 0 /\ s[6] = 0
                        /\ s[7] = 0 /\ s[8] = 0 /\ s[9] = 0
    <3>1. From(s) = 9 <=> s[1] = 255
      BY <1>6 DEF From, Width
    <3>2. ASSUME s[1] = 255
          PROVE  (\A k \in 4 .. 1 + Width(s[1]) : s[k] = 0) <=> zeros
      BY <3>2 DEF Width
    <3>3. n # Huge
      BY HugeNat
    <3> HIDE DEF zeros
    <3>4. ASSUME s[1] = 255
          PROVE  VarInt(s) = n <=> s[2] + 256 * s[3] = n /\ zeros
      BY <3>2, <3>3, <3>4 DEF VarInt
    <3> QED
      BY <3>1, <3>4 DEF zeros
  <2>2. /\ t[2] = s[2] /\ t[3] = s[3] /\ t[4] = s[4] /\ t[5] = s[5]
        /\ t[6] = s[6] /\ t[7] = s[7] /\ t[8] = s[8] /\ t[9] = s[9]
    BY <1>2, <1>10
  <2>3. t \in VarInts(n)
          <=> /\ s[1] = 255 /\ lo = s[2] /\ hi = s[3]
              /\ s[4] = 0 /\ s[5] = 0 /\ s[6] = 0 /\ s[7] = 0 /\ s[8] = 0 /\ s[9] = 0
    <3>1. Len(t) = 9
      BY <1>2, <1>10
    <3> QED
      BY <1>5, <1>6, <2>2, <3>1 DEF NumberIs
  <2> QED
    BY <1>4, <1>10, <2>1, <2>3 DEF t
<1> QED
  BY <1>7, <1>8, <1>9, <1>10

LEMMA NumberBounds ==
  ASSUME NEW s \in Seq(Byte), HasVarInt(s)
  PROVE  From(s) \in {1, 3, 5, 9} /\ From(s) <= Len(s) /\ VarInt(s) \in Nat
<1>1. Len(s) \in Nat /\ \A k \in 1 .. Len(s) : s[k] \in Nat /\ s[k] < 256
  BY ByteBounds, ElementOfSeq, LenProperties
<1>2. Len(s) >= 1 /\ From(s) <= Len(s)
  BY <1>1, EmptySeq DEF HasVarInt, From
<1>3. s[1] \in Nat /\ s[1] < 256
  BY <1>1, <1>2
<1>4. From(s) \in {1, 3, 5, 9}
  BY <1>3 DEF From, Width
<1>5. s[1] >= 253 => Len(s) >= 3
  BY <1>1, <1>2, <1>3 DEF From, Width
<1>6. VarInt(s) \in Nat
  BY <1>1, <1>3, <1>5, HugeNat DEF VarInt
<1> QED
  BY <1>2, <1>4, <1>6

\* A string begins with bytes of a stated length exactly up to where Text ends.
LEMMA VarBytesFormat ==
  ASSUME NEW s \in Seq(Byte), Len(s) < Huge, NEW j \in 1 .. Len(s)
  PROVE  IsVarBytes(SubSeq(s, 1, j)) <=> HasVarBytes(s) /\ From(s) + VarInt(s) = j
<1> DEFINE t == SubSeq(s, 1, j)
<1>1. Len(s) \in Nat /\ Len(s) >= 1
  BY LenProperties
<1>2. t \in Seq(Byte) /\ Len(t) = j
  BY <1>1, Slice
<1>3. ASSUME NEW i \in {1, 3, 5, 9}, i <= j
      PROVE  SubSeq(t, 1, i) = SubSeq(s, 1, i)
  <2>1. 1 \in 1 .. Len(s) /\ 1 \in 1 .. j - 1 + 1 /\ i \in 1 .. j - 1 + 1
    BY <1>1, <1>3
  <2> DEFINE from == 1 + 1 - 1
             to == 1 + i - 1
  <2>2. from = 1 /\ to = i
    OBVIOUS
  <2>3. SubSeq(t, 1, i) = SubSeq(s, from, to)
    BY <2>1, SubSeqOfSubSeq
  <2> HIDE DEF t, from, to
  <2> QED
    BY <2>2, <2>3
<1>4. ASSUME NEW i \in {1, 3, 5, 9}, i <= j
      PROVE  SubSeq(t, 1, i) \in VarInts(Len(t) - i) <=> From(s) = i /\ VarInt(s) = j - i
  <2>1. j - i \in Nat /\ j - i < Huge /\ i <= Len(s) /\ Len(t) - i = j - i
    BY <1>1, <1>2, <1>4, HugeNat
  <2> DEFINE n == j - i
  <2> HIDE DEF n
  <2>2. SubSeq(s, 1, i) \in VarInts(n) <=> From(s) = i /\ VarInt(s) = n
    BY <2>1, NumberFormat DEF n
  <2> HIDE DEF t
  <2>3. SubSeq(t, 1, i) = SubSeq(s, 1, i)
    BY <1>3, <1>4
  <2>4. SubSeq(t, 1, i) \in VarInts(Len(t) - i) <=> From(s) = i /\ VarInt(s) = n
    <3>1. Len(t) - i = n
      BY <2>1 DEF n
    <3>2. VarInts(Len(t) - i) = VarInts(n)
      BY <3>1
    <3> QED
      BY <2>2, <2>3, <3>2
  <2> QED
    BY <2>4 DEF n
<1> HIDE DEF t
<1>5. ASSUME IsVarBytes(t) PROVE HasVarBytes(s) /\ From(s) + VarInt(s) = j
  <2>1. PICK i \in {1, 3, 5, 9} : i <= j /\ SubSeq(t, 1, i) \in VarInts(Len(t) - i)
    BY <1>2, <1>5 DEF IsVarBytes
  <2>2. From(s) = i /\ VarInt(s) = j - i /\ i <= j
    BY <1>4, <2>1
  <2>3. s # <<>>
    BY <1>1, EmptySeq
  <2>4. HasVarInt(s)
    BY <1>1, <2>2, <2>3 DEF HasVarInt, From
  <2> QED
    BY <1>1, <2>2, <2>4 DEF HasVarBytes
<1>6. ASSUME HasVarBytes(s), From(s) + VarInt(s) = j PROVE IsVarBytes(t)
  <2>1. From(s) \in {1, 3, 5, 9} /\ VarInt(s) \in Nat
    BY <1>6, NumberBounds DEF HasVarBytes
  <2> DEFINE i == From(s)
  <2>2. i <= j /\ VarInt(s) = j - i
    BY <1>6, <2>1
  <2> HIDE DEF i
  <2>3. SubSeq(t, 1, i) \in VarInts(Len(t) - i)
    BY <1>4, <2>1, <2>2 DEF i
  <2> QED
    BY <1>2, <2>1, <2>2, <2>3 DEF IsVarBytes, i
<1> QED
  BY <1>5, <1>6 DEF t

\* What follows a string with a length, and the format of all of it.
LEMMA VarBytesBounds ==
  ASSUME NEW s \in Seq(Byte), HasVarBytes(s)
  PROVE  /\ From(s) \in Nat /\ VarInt(s) \in Nat
         /\ From(s) + VarInt(s) \in 1 .. Len(s)
         /\ Len(Text(s)) = VarInt(s)
         /\ Rest(s) \in Seq(Byte) /\ Len(Rest(s)) = Len(s) - (From(s) + VarInt(s))
<1> DEFINE e == From(s) + VarInt(s)
<1>1. Len(s) \in Nat /\ From(s) \in Nat /\ From(s) >= 1 /\ VarInt(s) \in Nat /\ e <= Len(s)
  BY NumberBounds, LenProperties DEF HasVarBytes
<1>2. e \in 1 .. Len(s) /\ From(s) + 1 \in 1 .. Len(s) + 1 /\ e - (From(s) + 1) + 1 = VarInt(s)
  BY <1>1
<1>3. Len(Text(s)) = VarInt(s)
  <2> DEFINE from == From(s) + 1
  <2>1. from \in 1 .. Len(s) + 1 /\ e \in from - 1 .. Len(s) /\ e - from + 1 = VarInt(s)
    BY <1>1
  <2> HIDE DEF from, e
  <2>2. Len(SubSeq(s, from, e)) = e - from + 1
    BY <2>1, Slice
  <2> QED
    BY <2>1, <2>2 DEF Text, from, e
<1>4. Rest(s) \in Seq(Byte) /\ Len(Rest(s)) = Len(s) - e
  <2> DEFINE from == e + 1
             to == Len(s)
  <2>1. from \in 1 .. Len(s) + 1 /\ to \in from - 1 .. Len(s) /\ to - from + 1 = Len(s) - e
    BY <1>1
  <2> HIDE DEF from, to
  <2>2. SubSeq(s, from, to) \in Seq(Byte) /\ Len(SubSeq(s, from, to)) = to - from + 1
    BY <2>1, Slice
  <2> QED
    BY <2>1, <2>2 DEF Rest, After, from, to
<1> QED
  BY <1>1, <1>2, <1>3, <1>4

LEMMA VarBytesAlone ==
  ASSUME NEW s \in Seq(Byte), Len(s) < Huge
  PROVE  IsVarBytes(s) <=> HasVarBytes(s) /\ Rest(s) = <<>>
<1>1. Len(s) \in Nat
  BY LenProperties
<1>2. CASE s = <<>>
  <2>1. Len(s) = 0
    BY <1>2
  <2>2. ~IsVarBytes(s)
    BY <2>1 DEF IsVarBytes
  <2>3. ~HasVarBytes(s)
    BY <1>2 DEF HasVarBytes, HasVarInt
  <2> QED
    BY <2>2, <2>3
<1>3. CASE s # <<>>
  <2>1. Len(s) \in 1 .. Len(s) /\ SubSeq(s, 1, Len(s)) = s
    BY <1>1, <1>3, EmptySeq, SubSeqFull
  <2>2. IsVarBytes(s) <=> HasVarBytes(s) /\ From(s) + VarInt(s) = Len(s)
    <3> DEFINE j == Len(s)
    <3> HIDE DEF j
    <3>1. j \in 1 .. Len(s) /\ SubSeq(s, 1, j) = s
      BY <2>1 DEF j
    <3>2. IsVarBytes(SubSeq(s, 1, j)) <=> HasVarBytes(s) /\ From(s) + VarInt(s) = j
      BY <3>1, VarBytesFormat
    <3> QED
      BY <3>1, <3>2 DEF j
  <2>3. HasVarBytes(s) => (From(s) + VarInt(s) = Len(s) <=> Len(Rest(s)) = 0)
    BY <1>1, VarBytesBounds
  <2>4. HasVarBytes(s) => (Rest(s) = <<>> <=> Len(Rest(s)) = 0)
    BY VarBytesBounds, EmptySeq
  <2> QED
    BY <2>2, <2>3, <2>4
<1> QED
  BY <1>2, <1>3

\* What is behind a prefix.
LEMMA Behind ==
  ASSUME NEW m \in Seq(Byte), NEW n \in 0 .. Len(m)
  PROVE  /\ After(m, n) \in Seq(Byte) /\ Len(After(m, n)) = Len(m) - n
         /\ \A k \in n + 1 .. Len(m) : SubSeq(m, n + 1, k) = SubSeq(After(m, n), 1, k - n)
<1> DEFINE from == n + 1
           to == Len(m)
           t == SubSeq(m, from, to)
<1>1. Len(m) \in Nat /\ n \in Nat /\ n <= Len(m)
  BY LenProperties
<1>2. from \in 1 .. Len(m) + 1 /\ to \in from - 1 .. Len(m) /\ to - from + 1 = Len(m) - n
  BY <1>1
<1>3. t = After(m, n)
  BY DEF After
<1> HIDE DEF from, to
<1>4. t \in Seq(Byte) /\ Len(t) = to - from + 1
  BY <1>2, Slice
<1>5. ASSUME NEW k \in n + 1 .. Len(m)
      PROVE  SubSeq(m, n + 1, k) = SubSeq(t, 1, k - n)
  <2> DEFINE j == k - n
             a == from + 1 - 1
             b == from + j - 1
  <2>1. /\ from \in 1 .. Len(m) /\ to \in 1 .. Len(m)
        /\ 1 \in 1 .. to - from + 1 /\ j \in 1 .. to - from + 1
        /\ a = n + 1 /\ b = k
    BY <1>1, <1>5 DEF from, to
  <2> HIDE DEF j
  <2>2. SubSeq(SubSeq(m, from, to), 1, j) = SubSeq(m, from + 1 - 1, from + j - 1)
    BY <2>1, SubSeqOfSubSeq
  <2> QED
    BY <2>1, <2>2 DEF j
<1> QED
  BY <1>2, <1>3, <1>4, <1>5

LEMMA VarBytesBehind ==
  ASSUME NEW m \in Seq(Byte), Len(m) < Huge, NEW n \in 0 .. Len(m), NEW k \in n + 1 .. Len(m)
  PROVE  IsVarBytes(SubSeq(m, n + 1, k))
           <=> HasVarBytes(After(m, n)) /\ From(After(m, n)) + VarInt(After(m, n)) = k - n
<1> DEFINE t == After(m, n)
           j == k - n
<1>1. Len(m) \in Nat /\ n \in Nat /\ k \in Nat
  BY LenProperties
<1>2. t \in Seq(Byte) /\ Len(t) = Len(m) - n /\ SubSeq(m, n + 1, k) = SubSeq(t, 1, j)
  BY Behind
<1> HIDE DEF t
<1>3. Len(t) < Huge /\ j \in 1 .. Len(t)
  BY <1>1, <1>2, HugeNat
<1> HIDE DEF j
<1>4. IsVarBytes(SubSeq(t, 1, j)) <=> HasVarBytes(t) /\ From(t) + VarInt(t) = j
  BY <1>2, <1>3, VarBytesFormat
<1> QED
  BY <1>2, <1>4 DEF t, j

\* Funds are read at once; the format has them one after the other.
LEMMA FundsFormat ==
  ASSUME NEW m \in Seq(Byte)
  PROVE  ReadFreezeUtxo(m) <=>
           \E k \in 1 .. Len(m) :
             Len(m) = 57 * k /\ \A i \in 1 .. k : IsFund(SubSeq(m, 57 * i - 56, 57 * i))
<1>1. Len(m) \in Nat
  BY LenProperties
<1>2. ASSUME NEW k \in Nat, Len(m) = 57 * k, NEW i \in 1 .. k
      PROVE  IsFund(SubSeq(m, 57 * i - 56, 57 * i)) <=>
               m[57 * i - 17] < 128 /\ m[57 * i - 9] < 128 /\ m[57 * i - 1] < 128
  <2> DEFINE from == 57 * i - 56
             to == 57 * i
             t == SubSeq(m, from, to)
  <2>1. from \in 1 .. Len(m) + 1 /\ to \in from - 1 .. Len(m) /\ to - from + 1 = 57
    BY <1>2
  <2>2. from + 40 - 1 = 57 * i - 17 /\ from + 48 - 1 = 57 * i - 9 /\ from + 56 - 1 = 57 * i - 1
    OBVIOUS
  <2> HIDE DEF from, to
  <2>3. /\ Len(t) = to - from + 1
        /\ \A j \in 1 .. to - from + 1 : t[j] = m[from + j - 1]
    BY <2>1, Slice
  <2> HIDE DEF t
  <2>4. 40 \in 1 .. to - from + 1 /\ 48 \in 1 .. to - from + 1 /\ 56 \in 1 .. to - from + 1
    BY <2>1
  <2>5. /\ Len(t) = 57
        /\ t[40] = m[57 * i - 17] /\ t[48] = m[57 * i - 9] /\ t[56] = m[57 * i - 1]
    BY <2>1, <2>2, <2>3, <2>4
  <2>6. IsFund(t) <=> t[40] < 128 /\ t[48] < 128 /\ t[56] < 128
    BY <2>5 DEF IsFund, FundSize
  <2> QED
    BY <2>5, <2>6 DEF t, from, to
<1>3. ASSUME ReadFreezeUtxo(m)
      PROVE  \E k \in 1 .. Len(m) :
               Len(m) = 57 * k /\ \A i \in 1 .. k : IsFund(SubSeq(m, 57 * i - 56, 57 * i))
  <2> DEFINE k == Len(m) \div 57
  <2>1. k \in 1 .. Len(m) /\ Len(m) = 57 * k
    BY <1>1, <1>3 DEF ReadFreezeUtxo, FundSize
  <2> HIDE DEF k
  <2>2. ASSUME NEW i \in 1 .. k
        PROVE  m[57 * i - 17] < 128 /\ m[57 * i - 9] < 128 /\ m[57 * i - 1] < 128
    <3>1. /\ 57 * i - 17 \in 1 .. Len(m) /\ (57 * i - 17) % 57 = 40
          /\ 57 * i - 9 \in 1 .. Len(m) /\ (57 * i - 9) % 57 = 48
          /\ 57 * i - 1 \in 1 .. Len(m) /\ (57 * i - 1) % 57 = 56
      BY <2>1
    <3> QED
      BY <1>3, <3>1 DEF ReadFreezeUtxo, FundSize, FundNumbers
  <2>3. k \in Nat /\ Len(m) = 57 * k
    BY <1>1, <2>1
  <2>4. ASSUME NEW i \in 1 .. k PROVE IsFund(SubSeq(m, 57 * i - 56, 57 * i))
    <3>1. IsFund(SubSeq(m, 57 * i - 56, 57 * i)) <=>
            m[57 * i - 17] < 128 /\ m[57 * i - 9] < 128 /\ m[57 * i - 1] < 128
      BY <1>2, <2>3
    <3> QED
      BY <2>2, <3>1
  <2> QED
    BY <2>1, <2>4
<1>4. ASSUME NEW k \in 1 .. Len(m), Len(m) = 57 * k,
             \A i \in 1 .. k : IsFund(SubSeq(m, 57 * i - 56, 57 * i))
      PROVE  ReadFreezeUtxo(m)
  <2>1. Len(m) >= 57 /\ Len(m) % 57 = 0
    BY <1>4
  <2>2. \A i \in 1 .. k : m[57 * i - 17] < 128 /\ m[57 * i - 9] < 128 /\ m[57 * i - 1] < 128
    BY <1>2, <1>4
  <2>3. ASSUME NEW i \in 1 .. Len(m), i % 57 \in {40, 48, 56} PROVE m[i] < 128
    <3> DEFINE a == i \div 57 + 1
    <3>1. /\ a \in 1 .. k
          /\ i = 57 * a - 17 \/ i = 57 * a - 9 \/ i = 57 * a - 1
      BY <1>4, <2>3
    <3> HIDE DEF a
    <3> QED
      BY <2>2, <3>1
  <2> QED
    BY <2>1, <2>3 DEF ReadFreezeUtxo, FundSize, FundNumbers
<1> QED
  BY <1>3, <1>4

LEMMA BlockFormat ==
  ASSUME NEW m \in Seq(Byte), Len(m) < Huge
  PROVE  ReadInvalidateBlock(m) <=>
           Len(m) > 32 /\ IsVarBytes(After(m, 32)) /\ After(m, 32) \notin VarInts(0)
<1> DEFINE t == After(m, 32)
<1>1. Len(m) \in Nat
  BY LenProperties
<1>2. CASE Len(m) < 32
  BY <1>1, <1>2 DEF ReadInvalidateBlock
<1>3. CASE Len(m) >= 32
  <2>1. t \in Seq(Byte) /\ Len(t) = Len(m) - 32
    <3>1. 32 \in 0 .. Len(m)
      BY <1>1, <1>3
    <3> QED
      BY <3>1, Behind
  <2> HIDE DEF t
  <2>2. Len(t) \in Nat /\ Len(t) < Huge /\ (Len(m) > 32 <=> t # <<>>)
    BY <1>1, <1>3, <2>1, EmptySeq, HugeNat
  <2>3. IsVarBytes(t) <=> HasVarBytes(t) /\ Rest(t) = <<>>
    BY <2>1, <2>2, VarBytesAlone
  <2>4. HasVarBytes(t) => t # <<>>
    BY DEF HasVarBytes, HasVarInt
  <2>5. ASSUME HasVarBytes(t), Rest(t) = <<>>
        PROVE  Text(t) # <<>> <=> t \notin VarInts(0)
    <3>1. /\ From(t) \in {1, 3, 5, 9} /\ From(t) <= Len(t)
          /\ VarInt(t) \in Nat /\ Len(Text(t)) = VarInt(t)
          /\ Len(t) = From(t) + VarInt(t)
      <4>1. /\ From(t) \in Nat /\ VarInt(t) \in Nat
            /\ From(t) + VarInt(t) \in 1 .. Len(t)
            /\ Len(Text(t)) = VarInt(t)
            /\ Len(Rest(t)) = Len(t) - (From(t) + VarInt(t))
        BY <2>1, <2>5, VarBytesBounds
      <4>2. Len(Rest(t)) = 0
        BY <2>5
      <4>3. From(t) \in {1, 3, 5, 9} /\ From(t) <= Len(t)
        BY <2>1, <2>5, NumberBounds DEF HasVarBytes
      <4> QED
        BY <2>2, <4>1, <4>2, <4>3
    <3>2. Text(t) = <<>> <=> VarInt(t) = 0
      <4>1. Text(t) = <<>> => VarInt(t) = 0
        BY <3>1
      <4>2. VarInt(t) = 0 => Text(t) = <<>>
        <5>1. From(t) + 1 \in Int /\ From(t) + VarInt(t) \in Int
          BY <3>1
        <5>2. VarInt(t) = 0 => From(t) + VarInt(t) < From(t) + 1
          BY <3>1
        <5> QED
          BY <5>1, <5>2, SubSeqEmpty DEF Text
      <4> QED
        BY <4>1, <4>2
    <3>3. t \in VarInts(0) => Len(t) \in {1, 3, 5, 9}
      BY DEF VarInts
    <3>4. SubSeq(t, 1, Len(t)) = t
      BY <2>1, SubSeqFull
    <3>5. Len(t) \in {1, 3, 5, 9} => (t \in VarInts(0) <=> From(t) = Len(t) /\ VarInt(t) = 0)
      <4> DEFINE i == Len(t)
      <4> HIDE DEF i
      <4>1. ASSUME i \in {1, 3, 5, 9}, i <= Len(t), 0 < Huge
            PROVE  SubSeq(t, 1, i) \in VarInts(0) <=> From(t) = i /\ VarInt(t) = 0
        BY <2>1, <4>1, NumberFormat
      <4>2. i <= Len(t) /\ 0 < Huge
        BY <2>2, HugeNat DEF i
      <4> QED
        BY <3>4, <4>1, <4>2 DEF i
    <3>6. VarInt(t) = 0 <=> t \in VarInts(0)
      BY <2>2, <3>1, <3>3, <3>5
    <3> QED
      BY <3>2, <3>6
  <2>6. ReadInvalidateBlock(m) <=> HasVarBytes(t) /\ Text(t) # <<>> /\ Rest(t) = <<>>
    BY <1>3 DEF ReadInvalidateBlock, t
  <2> QED
    BY <2>2, <2>3, <2>4, <2>5, <2>6 DEF t
<1> QED
  BY <1>1, <1>2, <1>3

LEMMA ConfiscationFormat ==
  ASSUME NEW m \in Seq(Byte), Len(m) < Huge
  PROVE  ReadConfiscateUtxo(m) <=>
           Len(m) > 8 /\ m[8] < 128 /\ \E j \in 9 .. Len(m) : IsVarBytes(SubSeq(m, 9, j))
<1> DEFINE t == After(m, 8)
<1>1. Len(m) \in Nat
  BY LenProperties
<1>2. CASE ~(Len(m) > 8)
  BY <1>1, <1>2 DEF ReadConfiscateUtxo
<1>3. CASE Len(m) > 8
  <2>1. 8 \in 0 .. Len(m) /\ 8 + 1 = 9
    BY <1>1, <1>3
  <2>2. t \in Seq(Byte) /\ Len(t) = Len(m) - 8
    BY <2>1, Behind
  <2>3. \A j \in 8 + 1 .. Len(m) : IsVarBytes(SubSeq(m, 8 + 1, j))
                                <=> HasVarBytes(t) /\ From(t) + VarInt(t) = j - 8
    BY <2>1, VarBytesBehind
  <2> HIDE DEF t
  <2>4. ASSUME HasVarBytes(t) PROVE \E j \in 9 .. Len(m) : From(t) + VarInt(t) = j - 8
    <3> DEFINE e == From(t) + VarInt(t)
    <3>1. e \in 1 .. Len(t)
      BY <2>2, <2>4, VarBytesBounds
    <3> HIDE DEF e
    <3>2. e + 8 \in 9 .. Len(m) /\ e = (e + 8) - 8
      BY <1>1, <2>2, <3>1
    <3> QED
      BY <3>2 DEF e
  <2>5. \A j \in 9 .. Len(m) : IsVarBytes(SubSeq(m, 9, j))
                                <=> HasVarBytes(t) /\ From(t) + VarInt(t) = j - 8
    BY <2>1, <2>3
  <2>6. HasVarBytes(t) <=> \E j \in 9 .. Len(m) : IsVarBytes(SubSeq(m, 9, j))
    BY <2>4, <2>5
  <2>7. ReadConfiscateUtxo(m) <=> HasVarBytes(t) /\ m[8] < 128
    BY <1>1, <1>3 DEF ReadConfiscateUtxo, t
  <2> QED
    BY <1>3, <2>6, <2>7
<1> QED
  BY <1>2, <1>3

\* Where the first string with a length ends, the second one begins.
LEMMA TwoStrings ==
  ASSUME NEW m \in Seq(Byte), Len(m) < Huge, NEW j \in 1 .. Len(m)
  PROVE  IsVarBytes(SubSeq(m, 1, j)) <=> HasVarBytes(m) /\ Rest(m) = After(m, j)
                                           /\ From(m) + VarInt(m) = j
<1>1. IsVarBytes(SubSeq(m, 1, j)) <=> HasVarBytes(m) /\ From(m) + VarInt(m) = j
  BY VarBytesFormat
<1>2. From(m) + VarInt(m) = j => Rest(m) = After(m, j)
  BY DEF Rest
<1> QED
  BY <1>1, <1>2

LEMMA BanFormat ==
  ASSUME NEW m \in Seq(Byte), Len(m) < Huge
  PROVE  ReadBanPeer(m) <=>
           \E j \in 1 .. Len(m) : \E k \in j .. Len(m) :
             IsVarBytes(SubSeq(m, 1, j)) /\ IsVarBytes(SubSeq(m, j + 1, k))
<1>1. Len(m) \in Nat
  BY LenProperties
<1>2. ASSUME ReadBanPeer(m)
      PROVE  \E j \in 1 .. Len(m) : \E k \in j .. Len(m) :
               IsVarBytes(SubSeq(m, 1, j)) /\ IsVarBytes(SubSeq(m, j + 1, k))
  <2> DEFINE j == From(m) + VarInt(m)
             r == Rest(m)
             k == j + (From(r) + VarInt(r))
  <2>1. HasVarBytes(m) /\ HasVarBytes(r)
    BY <1>2 DEF ReadBanPeer
  <2>2. j \in 1 .. Len(m) /\ r \in Seq(Byte) /\ Len(r) = Len(m) - j
    BY <2>1, VarBytesBounds
  <2>3. r = After(m, j)
    BY DEF Rest
  <2> HIDE DEF r
  <2>4. From(r) + VarInt(r) \in 1 .. Len(r)
    BY <2>1, <2>2, VarBytesBounds
  <2> HIDE DEF j
  <2>5. /\ j \in 0 .. Len(m) /\ k \in j + 1 .. Len(m) /\ k \in j .. Len(m)
        /\ From(r) + VarInt(r) = k - j
    BY <1>1, <2>2, <2>4
  <2> HIDE DEF k
  <2>6. IsVarBytes(SubSeq(m, j + 1, k))
    BY <2>1, <2>3, <2>5, VarBytesBehind
  <2>7. IsVarBytes(SubSeq(m, 1, j))
    BY <2>1, <2>2, VarBytesFormat DEF j
  <2> QED
    BY <2>2, <2>5, <2>6, <2>7
<1>3. ASSUME NEW j \in 1 .. Len(m), NEW k \in j .. Len(m),
             IsVarBytes(SubSeq(m, 1, j)), IsVarBytes(SubSeq(m, j + 1, k))
      PROVE  ReadBanPeer(m)
  <2>1. HasVarBytes(m) /\ Rest(m) = After(m, j)
    BY <1>3, TwoStrings
  <2>2. k # j
    <3>1. SubSeq(m, j + 1, j) = <<>>
      BY SubSeqEmpty
    <3>2. ~IsVarBytes(<<>>)
      <4>1. Len(<<>>) = 0
        OBVIOUS
      <4> QED
        BY <4>1 DEF IsVarBytes
    <3> QED
      BY <1>3, <3>1, <3>2
  <2>3. j \in 0 .. Len(m) /\ k \in j + 1 .. Len(m)
    BY <1>1, <2>2
  <2>4. HasVarBytes(After(m, j))
    BY <1>3, <2>3, VarBytesBehind
  <2> QED
    BY <2>1, <2>4 DEF ReadBanPeer
<1> QED
  BY <1>2, <1>3

LEMMA UnbanFormat ==
  ASSUME NEW m \in Seq(Byte), Len(m) < Huge
  PROVE  ReadUnbanPeer(m) <=>
           \E j \in 1 .. Len(m) : IsVarBytes(SubSeq(m, 1, j)) /\ IsVarBytes(After(m, j))
<1>1. Len(m) \in Nat
  BY LenProperties
<1>2. ASSUME HasVarBytes(m)
      PROVE  IsVarBytes(Rest(m)) <=> HasVarBytes(Rest(m)) /\ Rest(Rest(m)) = <<>>
  <2>1. Rest(m) \in Seq(Byte) /\ Len(Rest(m)) < Huge
    BY <1>1, <1>2, VarBytesBounds, HugeNat
  <2> QED
    BY <2>1, VarBytesAlone
<1>3. ASSUME HasVarBytes(m)
      PROVE  \E j \in 1 .. Len(m) : IsVarBytes(SubSeq(m, 1, j)) /\ Rest(m) = After(m, j)
  <2> DEFINE e == From(m) + VarInt(m)
  <2>1. e \in 1 .. Len(m)
    BY <1>3, VarBytesBounds
  <2>2. IsVarBytes(SubSeq(m, 1, e)) /\ Rest(m) = After(m, e)
    BY <1>3, <2>1, VarBytesFormat DEF Rest
  <2> HIDE DEF e
  <2> QED
    BY <2>1, <2>2
<1>4. \A j \in 1 .. Len(m) : IsVarBytes(SubSeq(m, 1, j)) => HasVarBytes(m) /\ Rest(m) = After(m, j)
  BY TwoStrings
<1>5. ReadUnbanPeer(m) <=> HasVarBytes(m) /\ HasVarBytes(Rest(m)) /\ Rest(Rest(m)) = <<>>
  BY DEF ReadUnbanPeer, ReadBanPeer
<1> QED
  BY <1>2, <1>3, <1>4, <1>5

\* The readers accept the format and nothing else, whatever the type.
THEOREM ReadersMatchFormat ==
  ASSUME NEW type, NEW m \in Seq(Byte), Len(m) < Huge
  PROVE  Read(type, m) <=> WellFormed(type, m)
<1>1. CASE type = Word(1)
  <2>1. Read(type, m) <=> ReadInformational(m)
    BY <1>1 DEF Read, Word
  <2>2. WellFormed(type, m) <=> IsVarBytes(m)
    BY <1>1 DEF WellFormed, Word
  <2> QED
    BY <2>1, <2>2, VarBytesAlone DEF ReadInformational
<1>2. CASE type \in {Word(2), Word(3)}
  <2>1. Read(type, m) <=> ReadFreezeUtxo(m)
    BY <1>2 DEF Read, Word
  <2>2. WellFormed(type, m) <=>
           \E k \in 1 .. Len(m) :
             Len(m) = 57 * k /\ \A i \in 1 .. k : IsFund(SubSeq(m, 57 * i - 56, 57 * i))
    BY <1>2 DEF WellFormed, Word
  <2> QED
    BY <2>1, <2>2, FundsFormat
<1>3. CASE type = Word(4)
  <2>1. Read(type, m) <=> ReadConfiscateUtxo(m)
    BY <1>3 DEF Read, Word
  <2>2. WellFormed(type, m) <=>
          Len(m) > 8 /\ m[8] < 128 /\ \E j \in 9 .. Len(m) : IsVarBytes(SubSeq(m, 9, j))
    BY <1>3 DEF WellFormed, Word
  <2> QED
    BY <2>1, <2>2, ConfiscationFormat
<1>4. CASE type = Word(5)
  <2>1. Read(type, m) <=> ReadBanPeer(m)
    BY <1>4 DEF Read, Word
  <2>2. WellFormed(type, m) <=>
          \E j \in 1 .. Len(m) : \E k \in j .. Len(m) :
            IsVarBytes(SubSeq(m, 1, j)) /\ IsVarBytes(SubSeq(m, j + 1, k))
    BY <1>4 DEF WellFormed, Word
  <2> QED
    BY <2>1, <2>2, BanFormat
<1>5. CASE type = Word(6)
  <2>1. Read(type, m) <=> ReadUnbanPeer(m)
    BY <1>5 DEF Read, Word
  <2>2. WellFormed(type, m) <=>
          \E j \in 1 .. Len(m) : IsVarBytes(SubSeq(m, 1, j)) /\ IsVarBytes(After(m, j))
    BY <1>5 DEF WellFormed, Word
  <2> QED
    BY <2>1, <2>2, UnbanFormat
<1>6. CASE type = Word(7)
  <2>1. Read(type, m) <=> ReadInvalidateBlock(m)
    BY <1>6 DEF Read, Word
  <2>2. WellFormed(type, m) <=>
          Len(m) > 32 /\ IsVarBytes(After(m, 32)) /\ After(m, 32) \notin VarInts(0)
    BY <1>6 DEF WellFormed, Word
  <2> QED
    BY <2>1, <2>2, BlockFormat
<1>7. CASE type = Word(8)
  <2>1. Read(type, m) <=> ReadSetKeys(m)
    BY <1>7 DEF Read, Word
  <2>2. WellFormed(type, m) <=> Len(m) = 165
    BY <1>7 DEF WellFormed, Word
  <2> QED
    BY <2>1, <2>2 DEF ReadSetKeys
<1>8. CASE type \notin {Word(1), Word(2), Word(3), Word(4), Word(5), Word(6), Word(7), Word(8)}
  <2>1. ~Read(type, m)
    BY <1>8 DEF Read
  <2>2. ~WellFormed(type, m)
    BY <1>8 DEF WellFormed
  <2> QED
    BY <2>1, <2>2
<1> QED
  BY <1>1, <1>2, <1>3, <1>4, <1>5, <1>6, <1>7, <1>8

-----------------------------------------------------------------------------
(* Alerts and keys in the tables *)

IsRead(raw) == CanReadRaw(raw) /\ Read(ReadRaw(raw).type, ReadRaw(raw).message)

\* A node that reads an alert keeps it as it is.
LEMMA ReadIsKept ==
  ASSUME NEW raw \in Raws, IsRead(raw)
  PROVE  Row(ReadRaw(raw)) = raw
<1>1. raw \in Seq(Byte) /\ CanReadRaw(raw)
  BY DEF Raws, IsRead
<1>2. TypeField(raw) # Word(99)
  BY DEF IsRead, Read, ReadRaw, Word
<1> QED
  BY <1>1, <1>2, RoundTrip DEF Row

\* What is sent in a message of a session is what the node that asked reads.
LEMMA SessionBrings ==
  ASSUME NEW raw \in Raws, Len(raw) >= 20
  PROVE  Received(Frame(SyncMessage(IGotSequenceNumber, raw))) = raw
<1> DEFINE msg == SyncMessage(IGotSequenceNumber, raw)
           none == <<>>
<1>1. msg \in Seq(Byte) /\ Len(msg) < Huge /\ MessageData(msg) = raw
  BY DataOfMessage
<1> HIDE DEF msg
<1>2. Frame(msg) \in Seq(Byte)
  BY <1>1, VarIntReread, LenProperties, ConcatProperties DEF Frame
<1>3. Frame(msg) \o none = Frame(msg) /\ none \in Seq(Byte)
  BY <1>2, ConcatEmptySeq, EmptySeq
<1> HIDE DEF none
<1>4. Text(Frame(msg) \o none) = msg
  BY <1>1, <1>3, FrameReread
<1>5. Text(Frame(msg)) = msg
  BY <1>3, <1>4
<1> QED
  BY <1>1, <1>5 DEF Received, msg

\* The keys of a set-keys alert are the five slices behind its header.
LEMMA KeysInRaw ==
  ASSUME NEW raw \in Raws, IsRead(raw), ReadRaw(raw).type = Word(8)
  PROVE  /\ Len(raw) = 20 + 5 * 33 + 195
         /\ \A i \in 1 .. 5 :
              KeysRead(ReadRaw(raw).message)[i] = SubSeq(raw, 33 * i - 12, 33 * i + 20)
<1> DEFINE m == ReadRaw(raw).message
<1>1. raw \in Seq(Byte) /\ Len(raw) \in Nat
  BY LenProperties DEF Raws
<1>2. /\ MessageEnd(raw) = Len(raw) - 195 /\ MessageEnd(raw) >= 22
      /\ MessageEnd(raw) \in Nat
  BY <1>1 DEF IsRead, CanReadRaw, MessageEnd, SigLen, ReadRaw, Word
<1>3. m = SubSeq(raw, 21, MessageEnd(raw))
  BY DEF ReadRaw
<1>4. Len(m) = 165
  BY DEF IsRead, Read, ReadSetKeys, Word
<1>5. m \in Seq(Byte) /\ MessageEnd(raw) = 185
  <2>1. 21 \in 1 .. Len(raw) + 1 /\ MessageEnd(raw) \in 21 - 1 .. Len(raw)
    BY <1>1, <1>2
  <2>2. m \in Seq(Byte) /\ Len(m) = MessageEnd(raw) - 21 + 1
    BY <1>1, <1>3, <2>1, Slice
  <2> HIDE DEF m
  <2>3. MessageEnd(raw) - 21 + 1 = 165
    BY <1>4, <2>2
  <2>4. ASSUME NEW e \in Nat, e - 21 + 1 = 165 PROVE e = 185
    BY <2>4
  <2>5. MessageEnd(raw) \in Nat
    BY <1>2
  <2>6. MessageEnd(raw) = 185
    BY <2>3, <2>4, <2>5
  <2> QED
    BY <2>2, <2>6
<1> HIDE DEF m
<1>6. ASSUME NEW i \in 1 .. 5
      PROVE  SubSeq(m, 33 * (i - 1) + 1, 33 * i) = SubSeq(raw, 33 * i - 12, 33 * i + 20)
  <2>1. /\ 21 \in 1 .. Len(raw) /\ 185 \in 1 .. Len(raw)
        /\ 33 * (i - 1) + 1 \in 1 .. 185 - 21 + 1
        /\ 33 * i \in 1 .. 185 - 21 + 1
        /\ 21 + (33 * (i - 1) + 1) - 1 = 33 * i - 12
        /\ 21 + 33 * i - 1 = 33 * i + 20
    BY <1>1, <1>2, <1>5
  <2> DEFINE from == 33 * (i - 1) + 1
             to == 33 * i
  <2>2. SubSeq(SubSeq(raw, 21, 185), from, to) = SubSeq(raw, 21 + from - 1, 21 + to - 1)
    <3> HIDE DEF from, to
    <3> QED
      BY <1>1, <2>1, SubSeqOfSubSeq DEF from, to
  <2> QED
    BY <1>3, <1>5, <2>1, <2>2
<1>7. \A i \in 1 .. 5 : KeysRead(m)[i] = SubSeq(m, 33 * (i - 1) + 1, 33 * i)
  BY DEF KeysRead
<1>8. \A i \in 1 .. 5 : KeysRead(m)[i] = SubSeq(raw, 33 * i - 12, 33 * i + 20)
  BY <1>6, <1>7
<1>9. Len(raw) - 195 = 185
  BY <1>2, <1>5
<1>10. Len(raw) = 20 + 5 * 33 + 195
  BY <1>1, <1>9
<1> QED
  BY <1>8, <1>10 DEF m

\* They have 33 bytes each.
LEMMA KeysReadType ==
  ASSUME NEW raw \in Raws, IsRead(raw), ReadRaw(raw).type = Word(8), NEW i \in 1 .. 5
  PROVE  KeysRead(ReadRaw(raw).message)[i] \in Bytes(33)
<1>1. raw \in Seq(Byte) /\ Len(raw) \in Nat
  BY LenProperties DEF Raws
<1>2. /\ Len(raw) = 20 + 5 * 33 + 195
      /\ KeysRead(ReadRaw(raw).message)[i] = SubSeq(raw, 33 * i - 12, 33 * i + 20)
  BY KeysInRaw
<1>3. PICK from \in Nat, to \in Nat : from = 33 * i - 12 /\ to = 33 * i + 20
  OBVIOUS
<1>4. from \in 1 .. Len(raw) + 1 /\ to \in from - 1 .. Len(raw) /\ to - from + 1 = 33
  BY <1>2, <1>3
<1>5. SubSeq(raw, from, to) \in Seq(Byte) /\ Len(SubSeq(raw, from, to)) = 33
  BY <1>1, <1>4, Slice
<1>6. SubSeq(raw, from, to) \in [1 .. 33 -> Byte]
  BY <1>5, LenProperties
<1> QED
  BY <1>2, <1>3, <1>6 DEF Bytes

\* The bytes that a signature was made over, and the signature, where they are
\* in the row.
LEMMA SignedBytes ==
  ASSUME NEW raw \in Raws, IsRead(raw), NEW i \in 1 .. 3
  PROVE  /\ SerializeData(ReadRaw(raw)) = SubSeq(raw, 1, Len(raw) - 195)
         /\ i \in DOMAIN ReadRaw(raw).signatures
         /\ ReadRaw(raw).signatures[i]
              = SubSeq(raw, Len(raw) - 65 * (4 - i) + 1, Len(raw) - 65 * (3 - i))
<1>1. raw \in Seq(Byte) /\ CanReadRaw(raw) /\ Len(raw) \in Nat
  BY LenProperties DEF Raws, IsRead
<1>2. SigLen(TypeField(raw)) = 195
  BY DEF IsRead, Read, ReadRaw, Word, SigLen
<1>3. MessageEnd(raw) = Len(raw) - 195
  BY <1>2 DEF MessageEnd
<1>4. ReadRaw(raw).signatures
        = [k \in 1 .. 3 |-> SubSeq(raw, Len(raw) - 195 + 65 * (k - 1) + 1, Len(raw) - 195 + 65 * k)]
  BY <1>2, <1>3 DEF ReadRaw, SigSize
<1>5. /\ Len(raw) - 195 + 65 * (i - 1) + 1 = Len(raw) - 65 * (4 - i) + 1
      /\ Len(raw) - 195 + 65 * i = Len(raw) - 65 * (3 - i)
  BY <1>1
<1> QED
  BY <1>1, <1>3, <1>4, <1>5, DataReread

\* An alert with valid signatures is signed with the keys that were tried.
LEMMA ValidIsSigned ==
  ASSUME NEW raw \in Raws, IsRead(raw), NEW keys, AreSignaturesValid(keys, ReadRaw(raw))
  PROVE  SignedWith([i \in ActiveKeys(keys) |-> keys[i]], raw)
<1> DEFINE tried == [i \in ActiveKeys(keys) |-> keys[i]]
           Sig(i) == SubSeq(raw, Len(raw) - 65 * (4 - i) + 1, Len(raw) - 65 * (3 - i))
           data == SubSeq(raw, 1, Len(raw) - 195)
<1>1. ASSUME NEW i \in 1 .. 3
      PROVE  \E j \in ActiveKeys(keys) : Verifies(keys[j].key, Sig(i), data)
  <2>1. /\ SerializeData(ReadRaw(raw)) = data
        /\ i \in DOMAIN ReadRaw(raw).signatures
        /\ ReadRaw(raw).signatures[i] = Sig(i)
    BY SignedBytes
  <2> HIDE DEF Sig, data
  <2>2. SignatureValid(keys, Sig(i), data)
    BY <2>1 DEF AreSignaturesValid
  <2> QED
    BY <2>2 DEF SignatureValid
<1>2. DOMAIN tried = ActiveKeys(keys) /\ \A j \in ActiveKeys(keys) : tried[j] = keys[j]
  OBVIOUS
<1> HIDE DEF tried
<1>3. ASSUME NEW i \in 1 .. 3
      PROVE  \E j \in DOMAIN tried : Verifies(tried[j].key, Sig(i), data)
  <2> HIDE DEF Sig, data
  <2> QED
    BY <1>1, <1>2
<1> QED
  BY <1>3 DEF SignedWith, tried

\* A row more, or another flag, takes no signature back.
LEMMA MoreKeys ==
  ASSUME NEW keys, NEW more, NEW raw, SignedWith(keys, raw),
         DOMAIN keys \subseteq DOMAIN more, \A j \in DOMAIN keys : more[j].key = keys[j].key
  PROVE  SignedWith(more, raw)
<1> DEFINE Sig(i) == SubSeq(raw, Len(raw) - 65 * (4 - i) + 1, Len(raw) - 65 * (3 - i))
           data == SubSeq(raw, 1, Len(raw) - 195)
<1>1. \A i \in 1 .. 3 : \E j \in DOMAIN keys : Verifies(keys[j].key, Sig(i), data)
  BY DEF SignedWith
<1> HIDE DEF Sig, data
<1>2. \A i \in 1 .. 3 : \E j \in DOMAIN more : Verifies(more[j].key, Sig(i), data)
  BY <1>1
<1> QED
  BY <1>2 DEF SignedWith, Sig, data

-----------------------------------------------------------------------------
(* What is in the tables *)

\* Everything on the topic and in the tables is a byte string that a frame can
\* carry, and only the noise may be shorter than a header.
WTypes ==
  /\ WireTypeOK
  /\ \E c \in Circulations : drafts \subseteq c
  /\ Noise \subseteq published
  /\ \A raw \in published \ Noise : Len(raw) >= 20
  /\ \A n \in Nodes : /\ GenesisRaw \in rows[n] /\ unprocessed[n] \subseteq rows[n]
                       /\ \A raw \in rows[n] : Len(raw) >= 20

\* The alerts that a node may still perform
Accepted(n) == unprocessed[n] \cup {t.raw : t \in handling[n]}

\* They were published, they can be read, and keys that the node has signed them.
AcceptedOK ==
  \A n \in Nodes : \A raw \in Accepted(n) :
    raw \in published /\ IsRead(raw) /\ SignedWith(keyRows[n], raw)

WInv == WTypes /\ RelayedUnchanged /\ DecodesAgain /\ AcceptedOK /\ ChainOfTrust

-----------------------------------------------------------------------------
(* The steps of a node *)

\* An alert gets into the hands of a goroutine: a new one, or one that is kept.
Takes(n, raw) ==
  /\ raw \in published /\ IsRead(raw)
  /\ \/ AreSignaturesValid(keyRows[n], ReadRaw(raw))
     \/ raw \in unprocessed[n]
  /\ \E kept \in BOOLEAN : TakeUp(n, raw, kept)

\* The process dies.
Dies(n) ==
  /\ handling' = [handling EXCEPT ![n] = {}]
  /\ UNCHANGED <<drafts, published, tables>>

\* A goroutine performs an alert.
GoesOn(n, t) == FindNone(n, t) \/ DoWrite(n, t)

Ends(n, t) == Save(n, t) \/ SaveUnprocessed(n, t) \/ SaveNothing(n, t)

LEMMA HandleTakes ==
  ASSUME WInv, NEW n \in Nodes, NEW raw \in published \cup {GenesisRaw}, Handle(n, raw)
  PROVE  Takes(n, raw) \/ Dies(n)
<1>1. raw \in Raws
  BY WireAssumption DEF WInv, WTypes, WireTypeOK
<1>2. CASE Accept(n, raw)
  <2>1. IsRead(raw) /\ raw \notin rows[n] /\ TakeUp(n, raw, FALSE)
    BY <1>1, <1>2, ReadIsKept DEF Handle, Accept, IsRead
  <2>2. raw \in published
    BY <2>1 DEF WInv, WTypes
  <2> QED
    BY <2>1, <2>2 DEF Handle, Takes
<1>3. CASE Panic(n, raw)
  BY <1>3 DEF Panic, Dies
<1> QED
  BY <1>2, <1>3 DEF Handle

\* What a step of any node does to the tables and to what is being handled.
LEMMA Steps ==
  ASSUME WInv, [Next]_vars
  PROVE  \/ \E n \in Nodes, draft \in drafts : Publish(n, draft)
         \/ \E n \in Nodes, raw \in Raws : Takes(n, raw)
         \/ \E n \in Nodes : \E t \in handling[n] : GoesOn(n, t)
         \/ \E n \in Nodes : \E t \in handling[n] : Ends(n, t)
         \/ \E n \in Nodes : Dies(n)
         \/ UNCHANGED <<drafts, published, tables, handling>>
<1>0. published \subseteq Raws
  BY DEF WInv, WTypes, WireTypeOK
<1>1. CASE UNCHANGED vars
  BY <1>1 DEF vars
<1>2. ASSUME NEW n \in Nodes, NEW raw \in published, Gossip(n, raw)
      PROVE  (\E k \in Nodes, r \in Raws : Takes(k, r)) \/ (\E k \in Nodes : Dies(k))
  BY <1>0, <1>2, HandleTakes DEF Gossip
<1>3. ASSUME NEW n \in Nodes, NEW m \in Nodes, NEW raw \in rows[m], SyncFrom(n, m, raw)
      PROVE  (\E k \in Nodes, r \in Raws : Takes(k, r)) \/ (\E k \in Nodes : Dies(k))
  <2>1. raw \in published \cup {GenesisRaw} /\ raw \in Raws /\ Len(raw) >= 20
    BY DEF WInv, WTypes, WireTypeOK, RelayedUnchanged
  <2>2. Handle(n, raw)
    BY <1>3, <2>1, SessionBrings DEF SyncFrom
  <2> QED
    BY <2>1, <2>2, HandleTakes
<1>4. ASSUME NEW n \in Nodes, NEW raw \in unprocessed[n], Retry(n, raw)
      PROVE  \E k \in Nodes, r \in Raws : Takes(k, r)
  <2>1. raw \in published /\ IsRead(raw)
    BY DEF WInv, AcceptedOK, Accepted
  <2> QED
    BY <1>0, <1>4, <2>1 DEF Retry, Takes
<1>5. ASSUME NEW n \in Nodes, Crash(n) PROVE Dies(n)
  BY <1>5 DEF Crash, Dies
<1>6. ASSUME NEW n \in Nodes, Restart(n)
      PROVE  UNCHANGED <<drafts, published, tables, handling>>
  BY <1>6 DEF Restart
<1> QED
  BY <1>1, <1>2, <1>3, <1>4, <1>5, <1>6 DEF Next, Ends, GoesOn

\* Of the rows of keys a write of Do changes those of its own node: it clears or
\* sets flags, or it adds the row of one key of the alert.
LEMMA DoWriteRows ==
  ASSUME WInv, NEW n \in Nodes, NEW t \in handling[n], DoWrite(n, t)
  PROVE  /\ keyRows' \in [Nodes -> Seq(KeyRow)]
         /\ \A m \in Nodes \ {n} : keyRows'[m] = keyRows[m]
         /\ \/ /\ Len(keyRows'[n]) = Len(keyRows[n])
               /\ \A i \in DOMAIN keyRows[n] : keyRows'[n][i].key = keyRows[n][i].key
            \/ \E k \in 1 .. 5 : \E row \in KeyRow :
                 /\ row.key = SubSeq(t.raw, 33 * k - 12, 33 * k + 20)
                 /\ Len(t.raw) = 20 + 5 * 33 + 195 /\ TypeField(t.raw) = Word(8)
                 /\ keyRows'[n] = Append(keyRows[n], row)
<1> DEFINE keys == keyRows[n]
<1>1. /\ keys \in Seq(KeyRow) /\ keyRows \in [Nodes -> Seq(KeyRow)]
      /\ DOMAIN keys = 1 .. Len(keys) /\ Len(keys) \in Nat
      /\ \A i \in DOMAIN keys : keys[i] \in KeyRow
  BY LenProperties, ElementOfSeq DEF WInv, WTypes, WireTypeOK
<1>2. t.raw \in Raws /\ IsRead(t.raw) /\ ReadRaw(t.raw).type = Word(8)
  BY DEF WInv, WTypes, WireTypeOK, Task, AcceptedOK, Accepted, DoWrite, SetsKeys
<1>3. CASE ClearKeys(n, t)
  <2> DEFINE cleared == [i \in DOMAIN keys |-> [keys[i] EXCEPT !.active = FALSE]]
  <2>1. keyRows' = [keyRows EXCEPT ![n] = cleared]
    BY <1>3 DEF ClearKeys
  <2>2. \A i \in DOMAIN keys : cleared[i] \in KeyRow /\ cleared[i].key = keys[i].key
    BY <1>1 DEF KeyRow
  <2>3. cleared \in Seq(KeyRow) /\ Len(cleared) = Len(keys)
    <3>1. cleared = [i \in 1 .. Len(keys) |-> cleared[i]]
      BY <1>1
    <3> HIDE DEF cleared
    <3> QED
      BY <1>1, <2>2, <3>1
  <2> HIDE DEF cleared
  <2> QED
    BY <1>1, <2>1, <2>2, <2>3
<1>4. ASSUME NEW i \in DOMAIN keys, keyRows' = [keyRows EXCEPT ![n][i].active = TRUE]
      PROVE  /\ keyRows' \in [Nodes -> Seq(KeyRow)]
             /\ \A m \in Nodes \ {n} : keyRows'[m] = keyRows[m]
             /\ Len(keyRows'[n]) = Len(keys)
             /\ \A j \in DOMAIN keys : keyRows'[n][j].key = keys[j].key
  <2> DEFINE row == [keys[i] EXCEPT !.active = TRUE]
             set == [keys EXCEPT ![i] = row]
  <2>1. keyRows' = [keyRows EXCEPT ![n] = set]
    BY <1>4
  <2>2. row \in KeyRow /\ row.key = keys[i].key
    BY <1>1 DEF KeyRow
  <2> HIDE DEF row, keys
  <2>3. set \in Seq(KeyRow) /\ Len(set) = Len(keys) /\ \A j \in DOMAIN keys : set[j].key = keys[j].key
    BY <1>1, <1>4, <2>2, ExceptSeq
  <2> HIDE DEF set
  <2> QED
    BY <1>1, <2>1, <2>3
<1>5. CASE InsertKey(n, t)
  <2> DEFINE k == t.writes
             row == [key |-> NextKey(t), active |-> TRUE]
  <2>1. k \in 1 .. 5 /\ keyRows' = [keyRows EXCEPT ![n] = Append(keys, row)]
    BY <1>5 DEF InsertKey
  <2>2. row \in KeyRow
    BY <1>2, <2>1, KeysReadType DEF KeyRow, NextKey
  <2>3. row.key = SubSeq(t.raw, 33 * k - 12, 33 * k + 20) /\ Len(t.raw) = 20 + 5 * 33 + 195
    BY <1>2, <2>1, KeysInRaw DEF NextKey
  <2>4. TypeField(t.raw) = Word(8)
    BY <1>2 DEF ReadRaw
  <2> HIDE DEF k, row
  <2>5. Append(keys, row) \in Seq(KeyRow)
    BY <1>1, <2>2, AppendProperties
  <2> QED
    BY <1>1, <2>1, <2>2, <2>3, <2>4, <2>5
<1> QED
  BY <1>3, <1>4, <1>5 DEF DoWrite, UpdateKey

\* Processes run or not, and there are no more faults than allowed.
LEMMA UpStep ==
  ASSUME WInv, [Next]_vars
  PROVE  up' \in [Nodes -> BOOLEAN] /\ faults' \in 0 .. MaxFaults
<1>1. /\ up \in [Nodes -> BOOLEAN] /\ faults \in 0 .. MaxFaults /\ MaxFaults \in Nat
  BY WireAssumption DEF WInv, WTypes, WireTypeOK
<1>2. UNCHANGED up \/ \E n \in Nodes, b \in BOOLEAN : up' = [up EXCEPT ![n] = b]
  BY DEF Next, vars, Publish, Gossip, SyncFrom, Handle, Accept, Panic, TakeUp, Retry,
         FindNone, DoWrite, Save, SaveUnprocessed, SaveNothing, Leave, Crash, Restart
<1>3. UNCHANGED faults \/ Fault
  BY DEF Next, vars, Publish, Gossip, SyncFrom, Handle, Accept, Panic, TakeUp, Retry,
         FindNone, DoWrite, Save, SaveUnprocessed, SaveNothing, Leave, Crash, Restart
<1>4. up' \in [Nodes -> BOOLEAN]
  BY <1>1, <1>2
<1>5. faults' \in 0 .. MaxFaults
  BY <1>1, <1>3 DEF Fault
<1> QED
  BY <1>4, <1>5

\* What a goroutine that ends leaves in the tables: the alert as it was published.
LEMMA EndsRows ==
  ASSUME WInv, NEW n \in Nodes, NEW t \in handling[n], Ends(n, t)
  PROVE  /\ t.raw \in published /\ t.raw \in Raws /\ IsRead(t.raw)
         /\ rows' \in [Nodes -> SUBSET Raws] /\ unprocessed' \in [Nodes -> SUBSET Raws]
         /\ \A m \in Nodes : /\ rows[m] \subseteq rows'[m]
                             /\ rows'[m] \subseteq rows[m] \cup {t.raw}
                             /\ unprocessed'[m] \subseteq rows'[m]
                             /\ m # n => rows'[m] = rows[m] /\ unprocessed'[m] = unprocessed[m]
         /\ unprocessed'[n] \subseteq unprocessed[n] \cup {t.raw}
         /\ handling' = [handling EXCEPT ![n] = @ \ {t}]
         /\ UNCHANGED <<drafts, published, keyRows>>
<1>1. t.raw \in published /\ t.raw \in Raws /\ IsRead(t.raw)
  BY DEF WInv, WTypes, WireTypeOK, AcceptedOK, Accepted
<1>2. Row(ReadRaw(t.raw)) = t.raw
  BY <1>1, ReadIsKept
<1>3. /\ rows \in [Nodes -> SUBSET Raws] /\ unprocessed \in [Nodes -> SUBSET Raws]
      /\ \A m \in Nodes : unprocessed[m] \subseteq rows[m]
  BY DEF WInv, WTypes, WireTypeOK
<1>4. /\ handling' = [handling EXCEPT ![n] = @ \ {t}]
      /\ UNCHANGED <<drafts, published, keyRows>>
  BY DEF Ends, Save, SaveUnprocessed, SaveNothing, Leave
<1>5. CASE Save(n, t)
  BY <1>1, <1>2, <1>3, <1>4, <1>5 DEF Save
<1>6. CASE SaveUnprocessed(n, t)
  BY <1>1, <1>2, <1>3, <1>4, <1>6 DEF SaveUnprocessed
<1>7. CASE SaveNothing(n, t)
  BY <1>1, <1>3, <1>4, <1>7 DEF SaveNothing
<1> QED
  BY <1>5, <1>6, <1>7 DEF Ends

\* What a goroutine has in hand as it goes on is what it had before.
LEMMA HandlingStep ==
  ASSUME WInv, NEW n \in Nodes, NEW t \in handling[n], GoesOn(n, t)
  PROVE  /\ handling' \in [Nodes -> SUBSET Task]
         /\ \A m \in Nodes : {u.raw : u \in handling'[m]} \subseteq {u.raw : u \in handling[m]}
         /\ UNCHANGED <<drafts, published, rows, unprocessed>>
<1>1. handling \in [Nodes -> SUBSET Task] /\ t \in Task
  BY DEF WInv, WTypes, WireTypeOK
<1>2. ASSUME NEW next \in Task, next.raw = t.raw,
             handling' = [handling EXCEPT ![n] = (@ \ {t}) \cup {next}]
      PROVE  /\ handling' \in [Nodes -> SUBSET Task]
             /\ \A m \in Nodes : {u.raw : u \in handling'[m]} \subseteq {u.raw : u \in handling[m]}
  BY <1>1, <1>2
<1>3. CASE FindNone(n, t)
  <2> DEFINE next == [t EXCEPT !.missing = TRUE]
  <2>1. next \in Task /\ next.raw = t.raw
    BY <1>1 DEF Task
  <2>2. handling' = [handling EXCEPT ![n] = (@ \ {t}) \cup {next}]
    BY <1>3 DEF FindNone
  <2> HIDE DEF next
  <2> QED
    BY <1>2, <1>3, <2>1, <2>2 DEF FindNone, tables
<1>4. CASE DoWrite(n, t)
  <2> DEFINE next == [t EXCEPT !.writes = @ + 1, !.missing = FALSE]
  <2>1. t.writes \in 0 .. 5
    BY <1>4 DEF DoWrite, ClearKeys, UpdateKey, InsertKey
  <2>2. next \in Task /\ next.raw = t.raw
    <3> DEFINE written == [t EXCEPT !.writes = @ + 1]
    <3>1. written \in Task /\ written.raw = t.raw
      BY <1>1, <2>1 DEF Task
    <3>2. next = [written EXCEPT !.missing = FALSE]
      BY Zenon
    <3> HIDE DEF written, next
    <3> QED
      BY <3>1, <3>2 DEF Task
  <2>3. handling' = [handling EXCEPT ![n] = (@ \ {t}) \cup {next}]
    BY <1>4 DEF DoWrite
  <2> HIDE DEF next
  <2> QED
    BY <1>2, <1>4, <2>2, <2>3 DEF DoWrite
<1> QED
  BY <1>3, <1>4 DEF GoesOn

LEMMA TypesStep ==
  ASSUME WInv, [Next]_vars
  PROVE  WTypes'
<1>1. up' \in [Nodes -> BOOLEAN] /\ faults' \in 0 .. MaxFaults
  BY UpStep
<1>2. CASE \E n \in Nodes, draft \in drafts : Publish(n, draft)
  <2>1. PICK n \in Nodes, draft \in drafts : Publish(n, draft)
    BY <1>2
  <2>2. Serialize(Signed(draft)) \in Raws /\ Len(Serialize(Signed(draft))) >= 20
    BY WireAssumption DEF WInv, WTypes
  <2> QED
    BY <1>1, <2>1, <2>2 DEF Publish, WInv, WTypes, WireTypeOK, tables
<1>3. CASE \E n \in Nodes, raw \in Raws : Takes(n, raw)
  <2>1. PICK n \in Nodes, raw \in Raws, kept \in BOOLEAN : TakeUp(n, raw, kept)
    BY <1>3 DEF Takes
  <2> DEFINE t == NewTask(raw, kept)
  <2>2. t \in Task
    BY DEF Task, NewTask
  <2>3. handling' = [handling EXCEPT ![n] = @ \cup {t}] /\ UNCHANGED <<drafts, published, tables>>
    BY <2>1 DEF TakeUp
  <2> HIDE DEF t
  <2>4. handling' \in [Nodes -> SUBSET Task]
    BY <2>2, <2>3 DEF WInv, WTypes, WireTypeOK
  <2> QED
    BY <1>1, <2>3, <2>4 DEF WInv, WTypes, WireTypeOK, tables
<1>4. ASSUME NEW n \in Nodes, NEW t \in handling[n], GoesOn(n, t) PROVE WTypes'
  <2>1. keyRows' \in [Nodes -> Seq(KeyRow)]
    BY <1>4, DoWriteRows DEF GoesOn, FindNone, tables, WInv, WTypes, WireTypeOK
  <2>2. /\ handling' \in [Nodes -> SUBSET Task]
        /\ UNCHANGED <<drafts, published, rows, unprocessed>>
    BY <1>4, HandlingStep
  <2> QED
    BY <1>1, <2>1, <2>2 DEF WInv, WTypes, WireTypeOK
<1>5. ASSUME NEW n \in Nodes, NEW t \in handling[n], Ends(n, t) PROVE WTypes'
  <2>1. /\ t.raw \in Raws /\ IsRead(t.raw)
        /\ rows' \in [Nodes -> SUBSET Raws] /\ unprocessed' \in [Nodes -> SUBSET Raws]
        /\ \A m \in Nodes : /\ rows[m] \subseteq rows'[m]
                            /\ rows'[m] \subseteq rows[m] \cup {t.raw}
                            /\ unprocessed'[m] \subseteq rows'[m]
        /\ handling' = [handling EXCEPT ![n] = @ \ {t}]
        /\ UNCHANGED <<drafts, published, keyRows>>
    BY <1>5, EndsRows
  <2>2. Len(t.raw) >= 20
    BY <2>1 DEF IsRead, CanReadRaw
  <2>3. handling' \in [Nodes -> SUBSET Task]
    BY <2>1 DEF WInv, WTypes, WireTypeOK
  <2>4. \A m \in Nodes : /\ GenesisRaw \in rows'[m] /\ unprocessed'[m] \subseteq rows'[m]
                         /\ \A raw \in rows'[m] : Len(raw) >= 20
    BY <2>1, <2>2 DEF WInv, WTypes
  <2> QED
    BY <1>1, <2>1, <2>3, <2>4 DEF WInv, WTypes, WireTypeOK
<1>6. CASE \E n \in Nodes : Dies(n)
  BY <1>1, <1>6 DEF Dies, WInv, WTypes, WireTypeOK, tables
<1>7. CASE UNCHANGED <<drafts, published, tables, handling>>
  BY <1>1, <1>7 DEF WInv, WTypes, WireTypeOK, tables
<1> QED
  BY <1>2, <1>3, <1>4, <1>5, <1>6, <1>7, Steps

LEMMA RelayedStep ==
  ASSUME WInv, [Next]_vars
  PROVE  RelayedUnchanged' /\ DecodesAgain'
<1>1. CASE \E n \in Nodes, draft \in drafts : Publish(n, draft)
  BY <1>1 DEF Publish, WInv, RelayedUnchanged, DecodesAgain, tables
<1>2. ASSUME NEW n \in Nodes, NEW t \in handling[n], Ends(n, t)
      PROVE  RelayedUnchanged' /\ DecodesAgain'
  <2>1. /\ t.raw \in published /\ t.raw \in Raws /\ IsRead(t.raw)
        /\ \A m \in Nodes : rows'[m] \subseteq rows[m] \cup {t.raw}
        /\ published' = published
    BY <1>2, EndsRows
  <2>2. /\ CanReadRaw(t.raw) /\ Read(ReadRaw(t.raw).type, ReadRaw(t.raw).message)
        /\ Serialize(ReadRaw(t.raw)) = t.raw
    BY <2>1, ReadIsKept DEF IsRead, Row
  <2> QED
    BY <2>1, <2>2 DEF WInv, RelayedUnchanged, DecodesAgain
<1>3. CASE UNCHANGED <<rows, published>>
  BY <1>3 DEF WInv, RelayedUnchanged, DecodesAgain
<1> QED
  BY <1>1, <1>2, <1>3, HandlingStep, Steps DEF Takes, TakeUp, Dies, tables

\* A key that has a row keeps it.
LEMMA KeysStay ==
  ASSUME WInv, [Next]_vars, NEW n \in Nodes
  PROVE  /\ DOMAIN keyRows[n] \subseteq DOMAIN keyRows'[n]
         /\ \A i \in DOMAIN keyRows[n] : keyRows'[n][i].key = keyRows[n][i].key
<1>1. CASE UNCHANGED keyRows
  BY <1>1
<1>2. ASSUME NEW m \in Nodes, NEW t \in handling[m], DoWrite(m, t)
      PROVE  /\ DOMAIN keyRows[n] \subseteq DOMAIN keyRows'[n]
             /\ \A i \in DOMAIN keyRows[n] : keyRows'[n][i].key = keyRows[n][i].key
  <2>1. CASE n # m
    BY <1>2, <2>1, DoWriteRows
  <2>2. CASE n = m
    <3> DEFINE keys == keyRows[n]
               more == keyRows'[n]
    <3>0. keyRows' \in [Nodes -> Seq(KeyRow)]
      BY <1>2, DoWriteRows
    <3>1. /\ keys \in Seq(KeyRow) /\ more \in Seq(KeyRow)
          /\ DOMAIN keys = 1 .. Len(keys) /\ DOMAIN more = 1 .. Len(more)
          /\ Len(keys) \in Nat /\ Len(more) \in Nat
      BY <3>0, LenProperties DEF WInv, WTypes, WireTypeOK
    <3>2. \/ Len(more) = Len(keys) /\ \A i \in DOMAIN keys : more[i].key = keys[i].key
          \/ \E row \in KeyRow : more = Append(keys, row)
      BY <1>2, <2>2, DoWriteRows
    <3> HIDE DEF keys, more
    <3>3. /\ DOMAIN keys \subseteq DOMAIN more
          /\ \A i \in DOMAIN keys : more[i].key = keys[i].key
      <4>1. CASE \E row \in KeyRow : more = Append(keys, row)
        <5>1. PICK row \in KeyRow : more = Append(keys, row)
          BY <4>1
        <5>2. Len(more) = Len(keys) + 1 /\ \A i \in 1 .. Len(keys) : more[i] = keys[i]
          BY <3>1, <5>1, AppendProperties
        <5> QED
          BY <3>1, <5>2
      <4> QED
        BY <3>1, <3>2, <4>1
    <3> QED
      BY <3>3 DEF keys, more
  <2> QED
    BY <2>1, <2>2
<1>3. ASSUME NEW m \in Nodes, NEW t \in handling[m], Ends(m, t) PROVE UNCHANGED keyRows
  BY <1>3, EndsRows
<1> QED
  BY <1>1, <1>2, <1>3, Steps DEF Publish, Takes, TakeUp, GoesOn, FindNone, Dies, tables

\* What a goroutine has accepted stays published, and signed with keys of the
\* node, however the flags of the keys change meanwhile.
LEMMA AcceptedStep ==
  ASSUME WInv, [Next]_vars
  PROVE  AcceptedOK'
<1> DEFINE Good(n, raw) == raw \in published /\ IsRead(raw) /\ SignedWith(keyRows[n], raw)
<1>1. ASSUME NEW n \in Nodes, NEW raw, Good(n, raw) PROVE Good(n, raw)'
  <2>1. SignedWith(keyRows'[n], raw)
    BY <1>1, KeysStay, MoreKeys
  <2>2. published \subseteq published'
    <3>1. ASSUME NEW m \in Nodes, NEW t \in handling[m], Ends(m, t) PROVE UNCHANGED published
      BY <3>1, EndsRows
    <3> QED
      BY <3>1, HandlingStep, Steps DEF Publish, Takes, TakeUp, Dies
  <2> QED
    BY <1>1, <2>1, <2>2 DEF IsRead, SignedWith
<1>2. \A n \in Nodes : \A raw \in Accepted(n) : Good(n, raw)
  BY DEF WInv, AcceptedOK
<1>3. ASSUME \A n \in Nodes : \A raw \in Accepted(n)' : raw \in Accepted(n) \/ Good(n, raw)
      PROVE  AcceptedOK'
  <2>1. \A n \in Nodes : \A raw \in Accepted(n)' : Good(n, raw)'
    BY <1>1, <1>2, <1>3
  <2> QED
    BY <2>1 DEF AcceptedOK
<1> HIDE DEF Good
<1>4. CASE UNCHANGED <<unprocessed, handling>>
  BY <1>3, <1>4 DEF Accepted
<1>5. CASE \E n \in Nodes, raw \in Raws : Takes(n, raw)
  <2>1. PICK n \in Nodes, raw \in Raws : Takes(n, raw)
    BY <1>5
  <2>2. Good(n, raw)
    <3>1. CASE AreSignaturesValid(keyRows[n], ReadRaw(raw))
      <4> DEFINE keys == keyRows[n]
                 tried == [i \in ActiveKeys(keys) |-> keys[i]]
      <4>1. raw \in published /\ IsRead(raw) /\ AreSignaturesValid(keys, ReadRaw(raw))
        BY <2>1, <3>1 DEF Takes
      <4> HIDE DEF keys
      <4>2. SignedWith(tried, raw)
        BY <4>1, ValidIsSigned
      <4>3. /\ DOMAIN tried \subseteq DOMAIN keys
            /\ \A j \in DOMAIN tried : keys[j].key = tried[j].key
        BY DEF ActiveKeys
      <4> HIDE DEF tried
      <4>4. SignedWith(keys, raw)
        BY <4>2, <4>3, MoreKeys
      <4> QED
        BY <4>1, <4>4 DEF Good, keys
    <3>2. CASE raw \in unprocessed[n]
      BY <1>2, <3>2 DEF Accepted
    <3> QED
      BY <2>1, <3>1, <3>2 DEF Takes
  <2>3. PICK kept \in BOOLEAN : TakeUp(n, raw, kept)
    BY <2>1 DEF Takes
  <2> DEFINE t == NewTask(raw, kept)
  <2>4. /\ handling' = [handling EXCEPT ![n] = @ \cup {t}] /\ UNCHANGED unprocessed
        /\ handling \in [Nodes -> SUBSET Task] /\ t.raw = raw
    BY <2>3 DEF TakeUp, NewTask, tables, WInv, WTypes, WireTypeOK
  <2> HIDE DEF t
  <2>5. \A m \in Nodes : \A u \in handling'[m] : u \in handling[m] \/ (m = n /\ u.raw = raw)
    BY <2>4
  <2>6. \A m \in Nodes : \A r \in Accepted(m)' : r \in Accepted(m) \/ (m = n /\ r = raw)
    BY <2>4, <2>5 DEF Accepted
  <2> QED
    BY <1>3, <2>2, <2>6
<1>6. ASSUME NEW n \in Nodes, NEW t \in handling[n], GoesOn(n, t) PROVE AcceptedOK'
  <2>1. /\ \A m \in Nodes : {u.raw : u \in handling'[m]} \subseteq {u.raw : u \in handling[m]}
        /\ UNCHANGED unprocessed
    BY <1>6, HandlingStep
  <2> QED
    BY <1>3, <2>1 DEF Accepted
<1>7. ASSUME NEW n \in Nodes, NEW t \in handling[n], Ends(n, t) PROVE AcceptedOK'
  <2>1. /\ \A m \in Nodes : m # n => unprocessed'[m] = unprocessed[m]
        /\ unprocessed'[n] \subseteq unprocessed[n] \cup {t.raw}
        /\ handling' = [handling EXCEPT ![n] = @ \ {t}]
    BY <1>7, EndsRows
  <2>2. \A m \in Nodes : handling'[m] \subseteq handling[m]
    BY <2>1 DEF WInv, WTypes, WireTypeOK
  <2>3. \A m \in Nodes : Accepted(m)' \subseteq Accepted(m)
    BY <1>7, <2>1, <2>2 DEF Accepted
  <2> QED
    BY <1>3, <2>3
<1>8. CASE \E n \in Nodes : Dies(n)
  <2>1. /\ \A m \in Nodes : handling'[m] \subseteq handling[m]
        /\ UNCHANGED unprocessed
    BY <1>8 DEF Dies, tables, WInv, WTypes, WireTypeOK
  <2> QED
    BY <1>3, <2>1 DEF Accepted
<1> QED
  BY <1>4, <1>5, <1>6, <1>7, <1>8, Steps DEF Publish, tables

\* The keys of the rows that were there stay linked; the row that a write adds is
\* linked to those before it by the alert that is being performed.
LEMMA ChainStep ==
  ASSUME WInv, [Next]_vars
  PROVE  ChainOfTrust'
<1> DEFINE Writes(raw, key) ==
             /\ Len(raw) = 20 + 5 * 33 + 195 /\ TypeField(raw) = Word(8)
             /\ \E k \in 1 .. 5 : key = SubSeq(raw, 33 * k - 12, 33 * k + 20)
<1>1. ASSUME NEW n \in Nodes, NEW i \in DOMAIN keyRows[n], i > Len(GenesisKeys)
      PROVE  \E raw \in published : /\ Writes(raw, keyRows[n][i].key)
                                    /\ SignedWith([j \in 1 .. i - 1 |-> keyRows[n][j]], raw)
  BY <1>1 DEF WInv, ChainOfTrust
<1>2. SUFFICES ASSUME NEW n \in Nodes, NEW i \in DOMAIN keyRows'[n], i > Len(GenesisKeys)
      PROVE  \E raw \in published' : /\ Writes(raw, keyRows'[n][i].key)
                                     /\ SignedWith([j \in 1 .. i - 1 |-> keyRows'[n][j]], raw)
  BY DEF ChainOfTrust, SignedWith
<1> HIDE DEF Writes
<1>3. /\ DOMAIN keyRows[n] = 1 .. Len(keyRows[n]) /\ Len(keyRows[n]) \in Nat
      /\ keyRows[n] \in Seq(KeyRow)
  BY LenProperties DEF WInv, WTypes, WireTypeOK
<1>4. /\ DOMAIN keyRows[n] \subseteq DOMAIN keyRows'[n]
      /\ \A j \in DOMAIN keyRows[n] : keyRows'[n][j].key = keyRows[n][j].key
  BY KeysStay
<1>5. published \subseteq published'
  <2>1. ASSUME NEW m \in Nodes, NEW t \in handling[m], Ends(m, t) PROVE UNCHANGED published
    BY <2>1, EndsRows
  <2> QED
    BY <2>1, HandlingStep, Steps DEF Publish, Takes, TakeUp, Dies
<1>6. CASE i \in DOMAIN keyRows[n]
  <2>1. PICK raw \in published : /\ Writes(raw, keyRows[n][i].key)
                                 /\ SignedWith([j \in 1 .. i - 1 |-> keyRows[n][j]], raw)
    BY <1>1, <1>2, <1>6
  <2> DEFINE keys == [j \in 1 .. i - 1 |-> keyRows[n][j]]
             more == [j \in 1 .. i - 1 |-> keyRows'[n][j]]
  <2>2. 1 .. i - 1 \subseteq DOMAIN keyRows[n]
    BY <1>3, <1>6
  <2>3. DOMAIN keys \subseteq DOMAIN more /\ \A j \in DOMAIN keys : more[j].key = keys[j].key
    BY <1>4, <2>2
  <2> HIDE DEF keys, more
  <2>4. SignedWith(keys, raw)
    BY <2>1 DEF keys
  <2>5. SignedWith(more, raw)
    BY <2>3, <2>4, MoreKeys
  <2> QED
    BY <1>4, <1>5, <1>6, <2>1, <2>5 DEF more
<1>7. CASE i \notin DOMAIN keyRows[n]
  <2>1. PICK m \in Nodes : \E t \in handling[m] : DoWrite(m, t)
    <3>1. ASSUME NEW m \in Nodes, NEW t \in handling[m], Ends(m, t) PROVE UNCHANGED keyRows
      BY <3>1, EndsRows
    <3>2. ~UNCHANGED keyRows
      BY <1>7
    <3> QED
      BY <3>1, <3>2, Steps DEF Publish, Takes, TakeUp, GoesOn, FindNone, Dies, tables
  <2>2. PICK t \in handling[m] : DoWrite(m, t)
    BY <2>1
  <2>3. m = n
    BY <1>7, <2>2, DoWriteRows
  <2>4. keyRows' \in [Nodes -> Seq(KeyRow)]
    BY <2>2, DoWriteRows
  <2> DEFINE keys == keyRows[n]
             more == keyRows'[n]
  <2>5. /\ DOMAIN more = 1 .. Len(more) /\ Len(more) \in Nat
        /\ Len(more) # Len(keys)
    BY <1>3, <1>7, <2>4, LenProperties
  <2>6. \E k \in 1 .. 5 : \E r \in KeyRow :
          /\ r.key = SubSeq(t.raw, 33 * k - 12, 33 * k + 20)
          /\ Len(t.raw) = 20 + 5 * 33 + 195 /\ TypeField(t.raw) = Word(8)
          /\ more = Append(keys, r)
    BY <2>2, <2>3, <2>5, DoWriteRows
  <2>7. PICK k \in 1 .. 5, r \in KeyRow :
          /\ r.key = SubSeq(t.raw, 33 * k - 12, 33 * k + 20)
          /\ Len(t.raw) = 20 + 5 * 33 + 195 /\ TypeField(t.raw) = Word(8)
          /\ more = Append(keys, r)
    BY <2>6
  <2>8. Writes(t.raw, r.key)
    BY <2>7 DEF Writes
  <2>9. t.raw \in published /\ SignedWith(keys, t.raw)
    BY <2>2, <2>3 DEF WInv, AcceptedOK, Accepted
  <2> HIDE DEF more
  <2>10. /\ Len(more) = Len(keys) + 1 /\ more[Len(keys) + 1] = r
         /\ \A j \in 1 .. Len(keys) : more[j] = keys[j]
    <3> HIDE DEF keys
    <3> QED
      BY <1>3, <2>7, AppendProperties DEF keys
  <2>11. i = Len(keys) + 1
    BY <1>3, <1>7, <2>5, <2>10 DEF more
  <2> DEFINE before == [j \in 1 .. i - 1 |-> more[j]]
  <2>12. DOMAIN keys \subseteq DOMAIN before /\ \A j \in DOMAIN keys : before[j].key = keys[j].key
    BY <1>3, <2>10, <2>11
  <2> HIDE DEF keys, before
  <2>13. SignedWith(before, t.raw)
    BY <2>9, <2>12, MoreKeys
  <2> QED
    BY <1>5, <2>8, <2>9, <2>10, <2>11, <2>13 DEF more, before
<1> QED
  BY <1>6, <1>7

LEMMA Inductive == Spec => []WInv
<1>1. Init => WInv
  <2> SUFFICES ASSUME Init PROVE WInv
    OBVIOUS
  <2> DEFINE first == [i \in DOMAIN GenesisKeys |-> [key |-> GenesisKeys[i], active |-> TRUE]]
  <2>1. /\ DOMAIN GenesisKeys = 1 .. Len(GenesisKeys) /\ Len(GenesisKeys) \in Nat
        /\ \A i \in DOMAIN GenesisKeys : GenesisKeys[i] \in Bytes(33)
    BY WireAssumption, LenProperties, ElementOfSeq
  <2>2. first \in Seq(KeyRow) /\ DOMAIN first = 1 .. Len(GenesisKeys)
    <3>1. \A i \in 1 .. Len(GenesisKeys) : first[i] \in KeyRow
      BY <2>1 DEF KeyRow
    <3>2. first = [i \in 1 .. Len(GenesisKeys) |-> first[i]]
      BY <2>1
    <3> HIDE DEF first
    <3> QED
      BY <2>1, <3>1, <3>2
  <2>3. keyRows = [n \in Nodes |-> first]
    BY DEF Init
  <2> HIDE DEF first
  <2>4. WTypes
    <3>1. keyRows \in [Nodes -> Seq(KeyRow)]
      BY <2>2, <2>3
    <3>2. drafts \in Circulations /\ published = Noise /\ published \subseteq Raws
      BY WireAssumption DEF Init
    <3>3. /\ rows \in [Nodes -> SUBSET Raws]
          /\ unprocessed \in [Nodes -> SUBSET Raws]
          /\ handling \in [Nodes -> SUBSET Task]
          /\ up \in [Nodes -> BOOLEAN]
      BY WireAssumption DEF Init
    <3>4. faults \in 0 .. MaxFaults
      BY WireAssumption DEF Init
    <3>5. \A n \in Nodes : /\ GenesisRaw \in rows[n] /\ unprocessed[n] \subseteq rows[n]
                            /\ \A raw \in rows[n] : Len(raw) >= 20
      BY WireAssumption DEF Init
    <3> QED
      BY <3>1, <3>2, <3>3, <3>4, <3>5 DEF WTypes, WireTypeOK
  <2>5. RelayedUnchanged /\ DecodesAgain /\ AcceptedOK
    BY DEF Init, RelayedUnchanged, DecodesAgain, AcceptedOK, Accepted
  <2>6. ChainOfTrust
    BY <2>1, <2>2, <2>3 DEF ChainOfTrust
  <2> QED
    BY <2>4, <2>5, <2>6 DEF WInv
<1>2. WInv /\ [Next]_vars => WInv'
  BY TypesStep, RelayedStep, AcceptedStep, ChainStep DEF WInv
<1> QED
  BY <1>1, <1>2, PTL DEF Spec

-----------------------------------------------------------------------------
(* Theorems *)

\* The tables keep their types whatever bytes are on the topic.  What a row of
\* public_keys holds has the length of a key, although the reader of a set-keys
\* alert checks no more than the length of its message.
THEOREM WireTypes == Spec => []WireTypeOK
BY Inductive, PTL DEF WInv, WTypes

\* However often an alert is handed on, by gossip and by sessions, nodes keep
\* and serve the bytes that were published.
THEOREM RelayKeepsBytes == Spec => []RelayedUnchanged
BY Inductive, PTL DEF WInv

\* The cron and the API can read again whatever a node keeps.
THEOREM RowsDecode == Spec => []DecodesAgain
BY Inductive, PTL DEF WInv

\* Every key in a table was signed into it by keys before it, down to those of
\* genesis, although Do of a set-keys alert is six transactions, any of which may
\* be the last, and other goroutines work in between.
THEOREM KeysAreChained == Spec => []ChainOfTrust
BY Inductive, PTL DEF WInv

\* Two messages on a stream do not run into each other, whatever their lengths.
THEOREM FramesStaySeparate == Spec => FramesSeparate
<1> DEFINE Pair(raw, other) ==
      LET next == Frame(SyncMessage(IGotSequenceNumber, other))
          stream == Frame(SyncMessage(IGotSequenceNumber, raw)) \o next IN
      HasVarBytes(stream) /\ Received(stream) = raw /\ Rest(stream) = next
<1>1. ASSUME WInv, WInv', NEW raw \in published' \ published, NEW other \in published' \ Noise
      PROVE  Pair(raw, other)
  <2>1. raw \in Raws /\ Len(raw) >= 20 /\ other \in Raws /\ Len(other) >= 20
    BY <1>1 DEF WInv, WTypes, WireTypeOK
  <2> DEFINE msg == SyncMessage(IGotSequenceNumber, other)
  <2>2. msg \in Seq(Byte) /\ Len(msg) < Huge /\ Len(msg) \in Nat
    BY <2>1, DataOfMessage, LenProperties
  <2> HIDE DEF msg
  <2>3. Frame(msg) \in Seq(Byte)
    BY <2>2, VarIntReread, ConcatProperties DEF Frame
  <2> QED
    BY <2>1, <2>3, SessionCarries DEF msg
<1>2. WInv /\ WInv' => \A raw \in published' \ published, other \in published' \ Noise : Pair(raw, other)
  BY <1>1
<1> QED
  BY <1>2, Inductive, PTL DEF FramesSeparate

\* What a node reads of the bytes of an alert is an alert, and it reads every one.
LEMMA ReadIsAlert ==
  ASSUME NEW raw \in Raws
  PROVE  IsRead(raw) <=> IsAlert(raw)
<1> DEFINE type == TypeField(raw)
           end == MessageEnd(raw)
           m == SubSeq(raw, 21, end)
<1>1. raw \in Seq(Byte) /\ Len(raw) \in Nat /\ Len(raw) < Huge
  BY LenProperties, HugeNat DEF Raws
<1>2. ReadRaw(raw).type = type /\ ReadRaw(raw).message = m
  BY DEF ReadRaw
<1>3. CASE type = Word(99)
  <2>1. ~IsRead(raw)
    BY <1>2, <1>3 DEF IsRead, Read, Word
  <2>2. ~IsAlert(raw)
    BY <1>3 DEF IsAlert, WellFormed, Word
  <2> QED
    BY <2>1, <2>2
<1>4. CASE type # Word(99)
  <2>1. end = Len(raw) - 195
    BY <1>4 DEF MessageEnd, SigLen
  <2>2. CanReadRaw(raw) <=> Len(raw) >= 217
    BY <1>1, <2>1 DEF CanReadRaw
  <2>3. CASE Len(raw) < 217
    BY <1>1, <2>2, <2>3 DEF IsRead, IsAlert
  <2>4. CASE Len(raw) >= 217
    <3>1. m \in Seq(Byte) /\ Len(m) = Len(raw) - 215
      BY <1>1, <2>1, <2>4, Slice
    <3>2. Len(m) < Huge
      BY <1>1, <3>1, HugeNat
    <3> HIDE DEF m
    <3>3. Read(type, m) <=> WellFormed(type, m)
      BY <3>1, <3>2, ReadersMatchFormat
    <3>4. IsAlert(raw) <=> WellFormed(type, m)
      BY <2>1, <2>4 DEF IsAlert, m
    <3>5. IsRead(raw) <=> Read(type, m)
      BY <1>2, <2>2, <2>4 DEF IsRead, m
    <3> QED
      BY <3>3, <3>4, <3>5
  <2> QED
    BY <1>1, <2>3, <2>4
<1> QED
  BY <1>3, <1>4

\* Every alert on the topic is read exactly if it has the format.
THEOREM ReadersAreExact == Spec => ReadsFormat
<1>1. WInv /\ WInv' => \A raw \in published' \ published :
        CanReadRaw(raw) /\ Read(ReadRaw(raw).type, ReadRaw(raw).message) <=> IsAlert(raw)
  BY ReadIsAlert DEF WInv, WTypes, WireTypeOK, IsRead
<1> QED
  BY <1>1, Inductive, PTL DEF ReadsFormat

\* Whatever gets into the hands of a goroutine or into a table has three
\* signatures made with keys that were active when it did.
THEOREM RowsAreAuthentic == Spec => AuthenticRows
<1> DEFINE Signed3(n, raw) == SignedWith([i \in ActiveKeys(keyRows[n]) |-> keyRows[n][i]], raw)
           New == \A n \in Nodes : \A raw \in Admitted(n)' \ Admitted(n) : Signed3(n, raw)
<1>1. ASSUME WInv, \A n \in Nodes : Admitted(n)' \subseteq Admitted(n) PROVE New
  BY <1>1
<1>2. ASSUME WInv, NEW n \in Nodes, NEW raw \in Raws, Takes(n, raw) PROVE New
  <2>1. PICK kept \in BOOLEAN : TakeUp(n, raw, kept)
    BY <1>2 DEF Takes
  <2> DEFINE t == NewTask(raw, kept)
  <2>2. /\ handling' = [handling EXCEPT ![n] = @ \cup {t}] /\ UNCHANGED rows
        /\ handling \in [Nodes -> SUBSET Task] /\ t.raw = raw
    BY <1>2, <2>1 DEF TakeUp, NewTask, tables, WInv, WTypes, WireTypeOK
  <2> HIDE DEF t
  <2>3. \A m \in Nodes : \A u \in handling'[m] : u \in handling[m] \/ (m = n /\ u.raw = raw)
    BY <2>2
  <2>4. \A m \in Nodes : \A r \in Admitted(m)' : r \in Admitted(m) \/ (m = n /\ r = raw)
    BY <2>2, <2>3 DEF Admitted
  <2>5. CASE AreSignaturesValid(keyRows[n], ReadRaw(raw))
    <3>1. Signed3(n, raw)
      <4> DEFINE keys == keyRows[n]
      <4>1. IsRead(raw) /\ AreSignaturesValid(keys, ReadRaw(raw))
        BY <1>2, <2>5 DEF Takes
      <4> HIDE DEF keys
      <4>2. SignedWith([i \in ActiveKeys(keys) |-> keys[i]], raw)
        BY <4>1, ValidIsSigned
      <4> QED
        BY <4>2 DEF keys
    <3> HIDE DEF Signed3
    <3> QED
      BY <2>4, <3>1
  <2>6. CASE raw \in unprocessed[n]
    <3>1. raw \in Admitted(n)
      BY <1>2, <2>6 DEF WInv, WTypes, Admitted
    <3> HIDE DEF Signed3
    <3> QED
      BY <2>4, <3>1
  <2> QED
    BY <1>2, <2>5, <2>6 DEF Takes
<1>3. ASSUME WInv, NEW n \in Nodes, NEW t \in handling[n], GoesOn(n, t) PROVE New
  <2>1. /\ \A m \in Nodes : {u.raw : u \in handling'[m]} \subseteq {u.raw : u \in handling[m]}
        /\ UNCHANGED rows
    BY <1>3, HandlingStep
  <2> QED
    BY <1>1, <1>3, <2>1 DEF Admitted
<1>4. ASSUME WInv, NEW n \in Nodes, NEW t \in handling[n], Ends(n, t) PROVE New
  <2>1. /\ \A m \in Nodes : rows'[m] \subseteq rows[m] \cup {t.raw}
        /\ \A m \in Nodes : m # n => rows'[m] = rows[m]
        /\ handling' = [handling EXCEPT ![n] = @ \ {t}]
        /\ handling \in [Nodes -> SUBSET Task]
    BY <1>4, EndsRows DEF WInv, WTypes, WireTypeOK
  <2>2. \A m \in Nodes : handling'[m] \subseteq handling[m]
    BY <2>1
  <2>3. \A m \in Nodes : Admitted(m)' \subseteq Admitted(m)
    BY <1>4, <2>1, <2>2 DEF Admitted
  <2> QED
    BY <1>1, <1>4, <2>3
<1>5. ASSUME WInv, NEW n \in Nodes, Dies(n) PROVE New
  <2>1. (\A m \in Nodes : handling'[m] \subseteq handling[m]) /\ UNCHANGED rows
    BY <1>5 DEF Dies, tables, WInv, WTypes, WireTypeOK
  <2> QED
    BY <1>1, <1>5, <2>1 DEF Admitted
<1>6. ASSUME WInv, UNCHANGED <<rows, handling>> PROVE New
  BY <1>1, <1>6 DEF Admitted
<1> HIDE DEF New
<1>7. WInv /\ [Next]_vars => New
  BY <1>2, <1>3, <1>4, <1>5, <1>6, Steps DEF Publish, tables
<1> QED
  BY <1>7, Inductive, PTL DEF Spec, AuthenticRows, New
=============================================================================
