---------------------------- MODULE StreamProofs ----------------------------
(***************************************************************************)
(* What the receive loops promise, proved for any packets that the format  *)
(* has room for, any buffer and however the stream is cut: each packet is  *)
(* read back as it was written, once, and in its turn.                     *)
(***************************************************************************)
EXTENDS PacketStream, FoldLemmas

-----------------------------------------------------------------------------
\* Sequences of bytes

LEMMA FunctionSeq ==
    ASSUME NEW S, NEW n \in Nat, NEW f \in [1 .. n -> S]
    PROVE  f \in Seq(S) /\ Len(f) = n /\ DOMAIN f = 1 .. n
OBVIOUS

LEMMA SeqEqual ==
    ASSUME NEW S, NEW a \in Seq(S), NEW b \in Seq(S), Len(a) = Len(b),
           \A i \in 1 .. Len(a) : a[i] = b[i]
    PROVE  a = b
OBVIOUS

LEMMA ConcatType ==
    ASSUME NEW S, NEW a \in Seq(S), NEW b \in Seq(S)
    PROVE  a \o b \in Seq(S) /\ Len(a \o b) = Len(a) + Len(b)
OBVIOUS

LEMMA ConcatFront ==
    ASSUME NEW S, NEW a \in Seq(S), NEW b \in Seq(S)
    PROVE  \A k \in 1 .. Len(a) : (a \o b)[k] = a[k]
OBVIOUS

LEMMA ConcatAssoc ==
    ASSUME NEW S, NEW a \in Seq(S), NEW b \in Seq(S), NEW c \in Seq(S)
    PROVE  (a \o b) \o c = a \o (b \o c)
<1> DEFINE l == (a \o b) \o c
           r == a \o (b \o c)
<1>1. l \in Seq(S) /\ r \in Seq(S) /\ Len(l) = Len(r)
  OBVIOUS
<1>2. \A i \in 1 .. Len(l) : l[i] = r[i]
  OBVIOUS
<1> HIDE DEF l, r
<1>3. l = r
  BY <1>1, <1>2, SeqEqual
<1> QED
  BY <1>3 DEF l, r

LEMMA AtIsByte ==
    ASSUME NEW buf \in Seq(Bytes), NEW i \in Int
    PROVE  At(buf, i) \in Bytes /\ At(buf, i) \in 0 .. 255
<1>1. 0 \in Bytes /\ \A x \in Bytes : x \in 0 .. 255
  BY DEF Bytes
<1>2. i \in DOMAIN buf => buf[i] \in Bytes
  OBVIOUS
<1> QED
  BY <1>1, <1>2 DEF At

\* s stands in buf from position i on
Holds(buf, i, s) == \A k \in 1 .. Len(s) : At(buf, i + k - 1) = s[k]

LEMMA HoldsFront ==
    ASSUME NEW s \in Seq(Bytes), NEW w \in Seq(Bytes)
    PROVE  Holds(s \o w, 1, s)
<1> SUFFICES ASSUME NEW k \in 1 .. Len(s) PROVE At(s \o w, 1 + k - 1) = s[k]
  BY DEF Holds
<1>1. 1 + k - 1 = k /\ k \in DOMAIN (s \o w) /\ (s \o w)[k] = s[k]
  OBVIOUS
<1> QED
  BY <1>1 DEF At

LEMMA HoldsConcat ==
    ASSUME NEW buf \in Seq(Bytes), NEW i \in Nat, NEW s \in Seq(Bytes),
           NEW t \in Seq(Bytes), Holds(buf, i, s \o t)
    PROVE  Holds(buf, i, s) /\ Holds(buf, i + Len(s), t)
<1> DEFINE n == Len(s)
<1>0. n \in Nat
  OBVIOUS
<1>1. ASSUME NEW k \in 1 .. Len(s) PROVE At(buf, i + k - 1) = s[k]
  <2>1. k \in 1 .. Len(s \o t) /\ (s \o t)[k] = s[k]
    OBVIOUS
  <2> QED
    BY <2>1 DEF Holds
<1>2. ASSUME NEW k \in 1 .. Len(t) PROVE At(buf, i + n + k - 1) = t[k]
  <2>1. n + k \in 1 .. Len(s \o t) /\ (s \o t)[n + k] = t[k]
    OBVIOUS
  <2>2. At(buf, i + (n + k) - 1) = t[k]
    BY <2>1 DEF Holds
  <2>3. i + (n + k) - 1 = i + n + k - 1
    BY <1>0
  <2> QED
    BY <2>2, <2>3
<1> QED
  BY <1>1, <1>2 DEF Holds

LEMMA HoldsByte ==
    ASSUME NEW buf, NEW i \in Nat, NEW x, Holds(buf, i, <<x>>)
    PROVE  At(buf, i) = x
<1>1. 1 \in 1 .. Len(<<x>>) /\ <<x>>[1] = x /\ i + 1 - 1 = i
  OBVIOUS
<1> QED
  BY <1>1 DEF Holds

-----------------------------------------------------------------------------
\* Fields

LEMMA NameFacts ==
    ASSUME NEW s \in Names
    PROVE  s \in Seq(Bytes) /\ Len(s) \in 0 .. 255 /\ Len(s) \in Bytes
           /\ Len(s) % 256 = Len(s)
<1>1. s \in Seq(Bytes) /\ Len(s) < 256
  BY DEF Names
<1>2. Len(s) \in Nat
  BY <1>1
<1> DEFINE n == Len(s)
<1> HIDE DEF n
<1>3. n \in Nat /\ n < 256
  BY <1>1, <1>2 DEF n
<1>4. n \in 0 .. 255 /\ n % 256 = n
  BY <1>3
<1> QED
  BY <1>1, <1>4 DEF n, Bytes

LEMMA StringType ==
    ASSUME NEW s \in Names
    PROVE  /\ PutString(s) = <<Len(s)>> \o s
           /\ PutString(s) \in Seq(Bytes) /\ Len(PutString(s)) = Len(s) + 1
<1>1. s \in Seq(Bytes) /\ Len(s) \in Bytes /\ Len(s) % 256 = Len(s)
  BY NameFacts
<1>2. PutString(s) = <<Len(s)>> \o s
  BY <1>1 DEF PutString
<1> QED
  BY <1>1, <1>2

LEMMA StringRead ==
    ASSUME NEW buf \in Seq(Bytes), NEW i \in Nat, NEW s \in Names,
           Holds(buf, i, PutString(s))
    PROVE  /\ GetString(buf, i) = s
           /\ AfterString(buf, i) = i + Len(PutString(s))
<1>1. s \in Seq(Bytes) /\ Len(s) \in 0 .. 255 /\ Len(s) % 256 = Len(s)
  BY NameFacts
<1> DEFINE h == <<Len(s)>>
<1>2. PutString(s) = h \o s /\ h \in Seq(Bytes) /\ Len(h) = 1
  BY NameFacts, StringType
<1>3. Holds(buf, i, h) /\ Holds(buf, i + 1, s)
  <2> HIDE DEF h
  <2> QED
    BY <1>1, <1>2, HoldsConcat
<1>4. At(buf, i) = Len(s)
  BY <1>3, HoldsByte
<1>5. GetString(buf, i) = [k \in 1 .. Len(s) |-> At(buf, i + k)]
  BY <1>4 DEF GetString
<1>6. \A k \in 1 .. Len(s) : At(buf, i + k) = s[k]
  <2> SUFFICES ASSUME NEW k \in 1 .. Len(s) PROVE At(buf, i + k) = s[k]
    OBVIOUS
  <2>1. i + 1 + k - 1 = i + k
    OBVIOUS
  <2> QED
    BY <1>3, <2>1 DEF Holds
<1>7. s = [k \in 1 .. Len(s) |-> s[k]]
  BY <1>1
<1>8. Len(PutString(s)) = Len(s) + 1
  BY StringType
<1>9. GetString(buf, i) = s
  BY <1>5, <1>6, <1>7
<1>10. AfterString(buf, i) = i + (Len(s) + 1)
  BY <1>1, <1>4 DEF AfterString
<1> QED
  BY <1>8, <1>9, <1>10

LEMMA IdType ==
    ASSUME NEW x \in Nat
    PROVE  PutId(x) \in Seq(Bytes) /\ Len(PutId(x)) = 4
BY DEF PutId, Bytes

LEMMA IdRead ==
    ASSUME NEW buf \in Seq(Bytes), NEW i \in Nat, NEW x \in Nat,
           Holds(buf, i, PutId(x))
    PROVE  LittleEndian(buf, i, 4) = x % 256
<1>1. PutId(x) \in Seq(Bytes) /\ Len(PutId(x)) = 4
  BY IdType
<1>2. At(buf, i + 0) = x % 256
  <2>1. i + 1 - 1 = i + 0 /\ PutId(x)[1] = x % 256 /\ 1 \in 1 .. 4
    BY DEF PutId
  <2> QED
    BY <1>1, <2>1 DEF Holds
<1>3. \A k \in 1 .. 3 : At(buf, i + k) = 0
  <2> SUFFICES ASSUME NEW k \in 1 .. 3 PROVE At(buf, i + k) = 0
    OBVIOUS
  <2>1. i + (k + 1) - 1 = i + k /\ PutId(x)[k + 1] = 0 /\ k + 1 \in 1 .. 4
    BY DEF PutId
  <2> QED
    BY <1>1, <2>1 DEF Holds
<1> QED
  BY <1>2, <1>3 DEF LittleEndian

LEMMA PortRead ==
    ASSUME NEW buf \in Seq(Bytes), NEW i \in Nat, NEW x \in Ports
    PROVE  /\ PutPort(x) \in Seq(Bytes) /\ Len(PutPort(x)) = 3
           /\ Holds(buf, i, PutPort(x)) => LittleEndian(buf, i, 3) = x
<1>1. PICK d, e : d = x \div 256 /\ e = x \div 65536
  OBVIOUS
<1>2. PICK a, b : a = x % 256 /\ b = d % 256
  OBVIOUS
<1>3. x \in Nat /\ d \in Nat /\ e \in Nat /\ e < 256
  BY <1>1 DEF Ports
<1>4. a \in 0 .. 255 /\ b \in 0 .. 255 /\ e \in 0 .. 255 /\ e % 256 = e
  BY <1>2, <1>3
<1>5. x = a + 256 * d
  BY <1>1, <1>2, <1>3
<1>6. d = b + 256 * e
  BY <1>1, <1>2, <1>3
<1>7. PutPort(x) = <<a, b, e>>
  BY <1>1, <1>2, <1>4 DEF PutPort
<1>8. a \in Bytes /\ b \in Bytes /\ e \in Bytes
  BY <1>4 DEF Bytes
<1>9. PutPort(x) \in Seq(Bytes) /\ Len(PutPort(x)) = 3
  BY <1>7, <1>8
<1>10. ASSUME Holds(buf, i, PutPort(x)) PROVE LittleEndian(buf, i, 3) = x
  <2>1. /\ PutPort(x)[1] = a /\ PutPort(x)[2] = b /\ PutPort(x)[3] = e
    BY <1>7
  <2>2. \A k \in 1 .. 3 : At(buf, i + k - 1) = PutPort(x)[k]
    BY <1>9, <1>10 DEF Holds
  <2>3. i + 1 - 1 = i + 0 /\ i + 2 - 1 = i + 1 /\ i + 3 - 1 = i + 2
    OBVIOUS
  <2>4. At(buf, i + 0) = a /\ At(buf, i + 1) = b /\ At(buf, i + 2) = e
    BY <2>1, <2>2, <2>3
  <2>5. LittleEndian(buf, i, 3) = a + 256 * (b + 256 * e)
    BY <1>4, <2>4 DEF LittleEndian
  <2> QED
    BY <1>5, <1>6, <2>5
<1> QED
  BY <1>9, <1>10

(***************************************************************************)
(* Eight bytes give the number back, up to 2^64.                           *)
(***************************************************************************)
LEMMA WordBytes ==
    ASSUME NEW n \in Words, NEW s, s = Shifts(n)
    PROVE  /\ \A k \in 1 .. 8 : s[k] \in Nat
           /\ \A k \in 1 .. 7 : s[k] = (s[k] % 256) + 256 * s[k + 1]
           /\ s[1] = n /\ s[8] = s[8] % 256
<1>1. n \in Nat /\ s[8] < 256
  BY DEF Words
<1>2. /\ s[1] = n /\ s[2] = s[1] \div 256 /\ s[3] = s[2] \div 256 /\ s[4] = s[3] \div 256
      /\ s[5] = s[4] \div 256 /\ s[6] = s[5] \div 256 /\ s[7] = s[6] \div 256
      /\ s[8] = s[7] \div 256
  BY DEF Shifts
<1>3. \A m \in Nat : m \div 256 \in Nat /\ m = (m % 256) + 256 * (m \div 256)
  OBVIOUS
<1>4. \A k \in 1 .. 7 : s[k + 1] = s[k] \div 256
  BY <1>2
<1>5. ASSUME NEW k \in 1 .. 7, s[k] \in Nat PROVE s[k + 1] \in Nat
  <2> DEFINE a == s[k]
             b == s[k + 1]
  <2>1. a \in Nat /\ b = a \div 256
    BY <1>4, <1>5
  <2> HIDE DEF a, b
  <2>2. b \in Nat
    BY <2>1
  <2> QED
    BY <2>2 DEF b
<1>6. s[1] \in Nat /\ s[2] \in Nat /\ s[3] \in Nat /\ s[4] \in Nat
  <2>1. s[1] \in Nat
    BY <1>1, <1>2
  <2> QED
    BY <1>5, <2>1
<1>7. s[5] \in Nat /\ s[6] \in Nat /\ s[7] \in Nat /\ s[8] \in Nat
  BY <1>5, <1>6
<1>8. \A k \in 1 .. 8 : s[k] \in Nat
  BY <1>6, <1>7
<1>9. \A k \in 1 .. 7 : s[k] = (s[k] % 256) + 256 * s[k + 1]
  <2> SUFFICES ASSUME NEW k \in 1 .. 7 PROVE s[k] = (s[k] % 256) + 256 * s[k + 1]
    OBVIOUS
  <2>1. s[k] \in Nat
    BY <1>8
  <2> QED
    BY <1>3, <1>4, <2>1
<1>10. s[8] % 256 = s[8]
  BY <1>1, <1>7
<1> QED
  BY <1>2, <1>8, <1>9, <1>10

LEMMA WordType ==
    ASSUME NEW n \in Words
    PROVE  PutWord(n) \in Seq(Bytes) /\ Len(PutWord(n)) = 8
<1> DEFINE s == Shifts(n)
<1>1. \A k \in 1 .. 8 : s[k] \in Nat
  BY WordBytes
<1> HIDE DEF s
<1>2. \A k \in 1 .. 8 : s[k] % 256 \in Bytes
  BY <1>1 DEF Bytes
<1>3. PutWord(n) = [k \in 1 .. 8 |-> s[k] % 256]
  BY DEF PutWord, s
<1>4. PutWord(n) \in [1 .. 8 -> Bytes]
  BY <1>2, <1>3
<1> QED
  BY <1>4, FunctionSeq

LEMMA WordRead ==
    ASSUME NEW buf \in Seq(Bytes), NEW i \in Nat, NEW n \in Words,
           Holds(buf, i, PutWord(n))
    PROVE  LittleEndian(buf, i, 8) = n
<1> DEFINE s == Shifts(n)
<1>1. /\ \A k \in 1 .. 8 : s[k] \in Nat
      /\ \A k \in 1 .. 7 : s[k] = (s[k] % 256) + 256 * s[k + 1]
      /\ s[1] = n /\ s[8] = s[8] % 256
  BY WordBytes
<1>2. \A k \in 1 .. 8 : PutWord(n)[k] = s[k] % 256
  BY DEF PutWord
<1> HIDE DEF s
<1>3. \A k \in 1 .. 8 : At(buf, i + k - 1) = s[k] % 256
  BY <1>2, WordType DEF Holds
<1>4. \A k \in 0 .. 7 : At(buf, i + k) = s[k + 1] % 256
  <2> SUFFICES ASSUME NEW k \in 0 .. 7 PROVE At(buf, i + k) = s[k + 1] % 256
    OBVIOUS
  <2>1. k + 1 \in 1 .. 8 /\ i + (k + 1) - 1 = i + k
    OBVIOUS
  <2> QED
    BY <1>3, <2>1
<1>5. /\ At(buf, i + 0) = s[1] % 256 /\ At(buf, i + 1) = s[2] % 256
      /\ At(buf, i + 2) = s[3] % 256 /\ At(buf, i + 3) = s[4] % 256
      /\ At(buf, i + 4) = s[5] % 256 /\ At(buf, i + 5) = s[6] % 256
      /\ At(buf, i + 6) = s[7] % 256 /\ At(buf, i + 7) = s[8] % 256
  BY <1>4
<1>6. LittleEndian(buf, i, 8) =
         (s[1] % 256) + 256 * ((s[2] % 256) + 256 * ((s[3] % 256) + 256 * ((s[4] % 256)
         + 256 * ((s[5] % 256) + 256 * ((s[6] % 256) + 256 * ((s[7] % 256)
         + 256 * (s[8] % 256)))))))
  BY <1>5 DEF LittleEndian
<1>7. /\ s[1] = (s[1] % 256) + 256 * s[2] /\ s[2] = (s[2] % 256) + 256 * s[3]
      /\ s[3] = (s[3] % 256) + 256 * s[4] /\ s[4] = (s[4] % 256) + 256 * s[5]
      /\ s[5] = (s[5] % 256) + 256 * s[6] /\ s[6] = (s[6] % 256) + 256 * s[7]
      /\ s[7] = (s[7] % 256) + 256 * s[8]
  BY <1>1
<1> DEFINE m(k) == s[k] % 256
<1>9. /\ m(1) + 256 * s[2] = n /\ m(2) + 256 * s[3] = s[2]
      /\ m(3) + 256 * s[4] = s[3] /\ m(4) + 256 * s[5] = s[4]
      /\ m(5) + 256 * s[6] = s[5] /\ m(6) + 256 * s[7] = s[6]
      /\ m(7) + 256 * s[8] = s[7] /\ m(8) = s[8]
  BY <1>1, <1>7
<1>10. LittleEndian(buf, i, 8) =
         m(1) + 256 * (m(2) + 256 * (m(3) + 256 * (m(4) + 256 * (m(5)
         + 256 * (m(6) + 256 * (m(7) + 256 * m(8)))))))
  BY <1>6
<1> HIDE DEF m
<1> QED
  BY <1>9, <1>10

(***************************************************************************)
(* The stamps, one behind the other.                                       *)
(***************************************************************************)
Stamps == {s \in Seq(Words) : Len(s) < 256}

LEMMA StampsType ==
    ASSUME NEW st \in Stamps
    PROVE  /\ PutStamps(st) \in Seq(Bytes) /\ Len(PutStamps(st)) = 8 * Len(st)
           /\ \A k \in 1 .. Len(st) : \A j \in 1 .. 8 :
                 PutStamps(st)[8 * (k - 1) + j] = PutWord(st[k])[j]
<1> DEFINE n == Len(st)
           at8(i) == ((i - 1) \div 8) + 1
           in8(i) == ((i - 1) % 8) + 1
           f == [i \in 1 .. 8 * n |-> PutWord(st[at8(i)])[in8(i)]]
<1>1. PutStamps(st) = f
  BY DEF PutStamps
<1>2. st \in Seq(Words) /\ n \in Nat /\ \A k \in 1 .. n : st[k] \in Words
  BY DEF Stamps
<1> HIDE DEF n
<1>3. \A i \in 1 .. 8 * n : at8(i) \in 1 .. n /\ in8(i) \in 1 .. 8
  BY <1>2
<1>4. \A k \in 1 .. n : \A j \in 1 .. 8 :
         PutWord(st[k])[j] \in Bytes
  <2> SUFFICES ASSUME NEW k \in 1 .. n, NEW j \in 1 .. 8 PROVE PutWord(st[k])[j] \in Bytes
    OBVIOUS
  <2>1. PutWord(st[k]) \in Seq(Bytes) /\ Len(PutWord(st[k])) = 8
    BY <1>2, WordType
  <2> QED
    BY <2>1
<1>5. f \in [1 .. 8 * n -> Bytes]
  <2> HIDE DEF at8, in8
  <2> QED
    BY <1>3, <1>4
<1>6. ASSUME NEW k \in 1 .. n, NEW j \in 1 .. 8
      PROVE  /\ 8 * (k - 1) + j \in 1 .. 8 * n
             /\ at8(8 * (k - 1) + j) = k /\ in8(8 * (k - 1) + j) = j
  BY <1>2
<1>7. ASSUME NEW k \in 1 .. n, NEW j \in 1 .. 8
      PROVE  f[8 * (k - 1) + j] = PutWord(st[k])[j]
  <2> HIDE DEF at8, in8
  <2> QED
    BY <1>6
<1>8. 8 * n \in Nat
  BY <1>2
<1> HIDE DEF f
<1>9. f \in Seq(Bytes) /\ Len(f) = 8 * n
  BY <1>5, <1>8, FunctionSeq
<1> QED
  BY <1>1, <1>7, <1>9 DEF n

LEMMA StampsRead ==
    ASSUME NEW buf \in Seq(Bytes), NEW i \in Nat, NEW st \in Stamps,
           Holds(buf, i, PutStamps(st))
    PROVE  st = [k \in 1 .. Len(st) |-> LittleEndian(buf, i + 8 * (k - 1), 8)]
<1> DEFINE n == Len(st)
<1>1. st \in Seq(Words) /\ n \in Nat /\ \A k \in 1 .. n : st[k] \in Words
  BY DEF Stamps
<1>2. ASSUME NEW k \in 1 .. n PROVE LittleEndian(buf, i + 8 * (k - 1), 8) = st[k]
  <2> DEFINE p == i + 8 * (k - 1)
             w == PutWord(st[k])
  <2>1. p \in Nat /\ st[k] \in Words
    BY <1>1
  <2>2. w \in Seq(Bytes) /\ Len(w) = 8
    BY <2>1, WordType
  <2>3. ASSUME NEW j \in 1 .. 8 PROVE At(buf, p + j - 1) = w[j]
    <3>1. /\ 8 * (k - 1) + j \in 1 .. 8 * n
          /\ i + (8 * (k - 1) + j) - 1 = p + j - 1
      BY <1>1
    <3> HIDE DEF p, w
    <3>2. At(buf, i + (8 * (k - 1) + j) - 1) = PutStamps(st)[8 * (k - 1) + j]
      BY <3>1, StampsType DEF Holds
    <3>3. PutStamps(st)[8 * (k - 1) + j] = w[j]
      BY StampsType DEF w
    <3> QED
      BY <3>1, <3>2, <3>3
  <2>4. Holds(buf, p, w)
    <3> HIDE DEF p, w
    <3> QED
      BY <2>2, <2>3 DEF Holds
  <2> HIDE DEF p
  <2>5. LittleEndian(buf, p, 8) = st[k]
    BY <2>1, <2>4, WordRead
  <2> QED
    BY <2>5 DEF p
<1>3. st = [k \in 1 .. n |-> st[k]]
  BY <1>1
<1> QED
  BY <1>2, <1>3

-----------------------------------------------------------------------------
\* Codes

LEMMA NamedCode ==
    ASSUME NEW code, NEW t \in DOMAIN code,
           \A u, v \in DOMAIN code : code[u] = code[v] => u = v
    PROVE  Named(code, code[t]) = t
<1> DEFINE c == CHOOSE name \in DOMAIN code : code[name] = code[t]
<1>1. c \in DOMAIN code /\ code[c] = code[t]
  OBVIOUS
<1>2. Named(code, code[t]) = c
  BY DEF Named
<1> HIDE DEF c
<1>3. c = t
  BY <1>1
<1> QED
  BY <1>2, <1>3

LEMMA TypeCodes ==
    ASSUME NEW t \in DOMAIN TypeCode
    PROVE  TypeCode[t] \in Bytes /\ Named(TypeCode, TypeCode[t]) = t
<1>1. TypeCode[t] \in Bytes
  BY DEF TypeCode, Bytes
<1>2. \A u, v \in DOMAIN TypeCode : TypeCode[u] = TypeCode[v] => u = v
  BY DEF TypeCode
<1> QED
  BY <1>1, <1>2, NamedCode

LEMMA HttpCodes ==
    ASSUME NEW a \in DOMAIN HttpCode
    PROVE  HttpCode[a] \in Bytes /\ Named(HttpCode, HttpCode[a]) = a
<1>1. HttpCode[a] \in Bytes
  BY DEF HttpCode, Bytes
<1>2. \A u, v \in DOMAIN HttpCode : HttpCode[u] = HttpCode[v] => u = v
  BY DEF HttpCode
<1> QED
  BY <1>1, <1>2, NamedCode

LEMMA RecentCodes ==
    ASSUME NEW a \in DOMAIN RecentCode
    PROVE  RecentCode[a] \in Bytes /\ Named(RecentCode, RecentCode[a]) = a
<1>1. RecentCode[a] \in Bytes
  BY DEF RecentCode, Bytes
<1>2. \A u, v \in DOMAIN RecentCode : RecentCode[u] = RecentCode[v] => u = v
  BY DEF RecentCode
<1> QED
  BY <1>1, <1>2, NamedCode

LEMMA CommandCodes ==
    ASSUME NEW j \in DOMAIN CommandNames, NEW c, c = CommandNames[j]
    PROVE  CommandCode(c) \in Bytes /\ CommandNames[CommandCode(c)] = c
<1> DEFINE i == CHOOSE k \in DOMAIN CommandNames : CommandNames[k] = c
<1>1. i \in DOMAIN CommandNames /\ CommandNames[i] = c
  OBVIOUS
<1>2. CommandCode(c) = i
  BY DEF CommandCode
<1>3. DOMAIN CommandNames = 1 .. 22
  BY DEF CommandNames
<1> HIDE DEF i
<1>4. i \in Bytes
  BY <1>1, <1>3 DEF Bytes
<1> QED
  BY <1>1, <1>2, <1>4

-----------------------------------------------------------------------------
\* The length in the header is that of the packet; one without a body says 0.
IsFrame(f) ==
    /\ f \in Seq(Bytes) /\ Len(f) >= 5 /\ Len(f) <= 65535
    /\ \/ f[4] + 256 * f[5] = Len(f)
       \/ f[4] + 256 * f[5] = 0 /\ Len(f) = 5

LEMMA FrameFacts ==
    ASSUME NEW f, IsFrame(f)
    PROVE  /\ f \in Seq(Bytes) /\ Len(f) \in Nat /\ Len(f) >= 5 /\ Len(f) <= 65535
           /\ f[4] \in Bytes /\ f[5] \in Bytes /\ f[4] + 256 * f[5] \in Nat
<1>1. f \in Seq(Bytes) /\ Len(f) >= 5 /\ Len(f) <= 65535
  BY DEF IsFrame
<1>2. Len(f) \in Nat
  BY <1>1
<1>3. f[4] \in Bytes /\ f[5] \in Bytes
  BY <1>1
<1>4. \A a, b \in Bytes : a + 256 * b \in Nat
  BY DEF Bytes
<1>5. f[4] + 256 * f[5] \in Nat
  BY <1>3, <1>4
<1> QED
  BY <1>1, <1>2, <1>3, <1>5

(***************************************************************************)
(* The header tells when the packet is there, wherever the data is cut.    *)
(***************************************************************************)
LEMMA FrameCut ==
    ASSUME NEW f, IsFrame(f), NEW buf \in Seq(Bytes), NEW rest \in Seq(Bytes),
           NEW w \in Seq(Bytes), buf \o rest = f \o w
    PROVE  Complete(buf) <=> Len(buf) >= Len(f)
<1>1. f \in Seq(Bytes) /\ Len(f) \in Nat /\ Len(f) >= 5 /\ f[4] \in Bytes /\ f[5] \in Bytes
  BY FrameFacts
<1>2. ASSUME Len(buf) >= 5 PROVE buf[4] = f[4] /\ buf[5] = f[5]
  <2>1. /\ (buf \o rest)[4] = buf[4] /\ (buf \o rest)[5] = buf[5]
    BY <1>2
  <2>2. /\ (f \o w)[4] = f[4] /\ (f \o w)[5] = f[5]
    BY <1>1
  <2> QED
    BY <2>1, <2>2
<1>3. Len(buf) \in Nat
  OBVIOUS
<1> DEFINE k == f[4] + 256 * f[5]
           n == Len(buf)
           m == Len(f)
<1>4. k \in Nat /\ (k = m \/ (k = 0 /\ m = 5)) /\ n \in Nat /\ m \in Nat
  BY <1>1, <1>3, FrameFacts DEF IsFrame
<1>5. CASE n >= 5
  <2>1. Complete(buf) <=> n >= k
    BY <1>2, <1>5 DEF Complete, HeaderSize
  <2> HIDE DEF k, n, m
  <2>2. Complete(buf) <=> n >= m
    BY <1>4, <1>5, <2>1
  <2> QED
    BY <2>2 DEF n, m
<1>6. CASE ~(n >= 5)
  <2>1. ~Complete(buf)
    BY <1>6 DEF Complete, HeaderSize
  <2>2. n \in Nat /\ m \in Nat /\ m >= 5
    BY <1>1, <1>3
  <2> HIDE DEF n, m
  <2>3. ~(n >= m)
    BY <1>6, <2>2
  <2> QED
    BY <2>1, <2>3 DEF n, m
<1> QED
  BY <1>5, <1>6

LEMMA FrameWhole ==
    ASSUME NEW f, IsFrame(f), NEW w \in Seq(Bytes)
    PROVE  f \o w \in Seq(Bytes) /\ Complete(f \o w) /\ Holds(f \o w, 1, f)
<1>1. f \in Seq(Bytes) /\ Len(f) \in Nat
  BY FrameFacts
<1> DEFINE b == f \o w
<1>2. b \in Seq(Bytes) /\ Len(b) >= Len(f) /\ b \o <<>> = f \o w /\ <<>> \in Seq(Bytes)
  BY <1>1
<1>3. Holds(b, 1, f)
  BY <1>1, HoldsFront
<1> HIDE DEF b
<1>4. Complete(b)
  BY <1>2, FrameCut
<1> QED
  BY <1>2, <1>3, <1>4 DEF b

LEMMA FrameType ==
    ASSUME NEW f, IsFrame(f), NEW w \in Seq(Bytes)
    PROVE  TypeOf(f \o w) = Named(TypeCode, f[3])
<1>1. f \in Seq(Bytes) /\ 3 \in 1 .. Len(f)
  <2>1. f \in Seq(Bytes) /\ Len(f) \in Nat /\ Len(f) >= 5
    BY FrameFacts
  <2> QED
    BY <2>1
<1>2. (f \o w)[3] = f[3]
  BY <1>1
<1> QED
  BY <1>2 DEF TypeOf

LEMMA TwoBytes ==
    ASSUME NEW n \in Nat, n <= 65535
    PROVE  /\ n % 256 \in Bytes /\ (n \div 256) % 256 \in Bytes
           /\ (n % 256) + 256 * ((n \div 256) % 256) = n
<1>1. PICK d : d = n \div 256
  OBVIOUS
<1>2. d \in Nat /\ d < 256 /\ n = (n % 256) + 256 * d
  BY <1>1
<1>3. d % 256 = d
  BY <1>2
<1> QED
  BY <1>1, <1>2, <1>3 DEF Bytes

Header(type, len) == <<239, 171, TypeCode[type], len % 256, (len \div 256) % 256>>

LEMMA HeaderType ==
    ASSUME NEW type \in DOMAIN TypeCode, NEW len \in Nat, len <= 65535
    PROVE  /\ Header(type, len) \in Seq(Bytes) /\ Len(Header(type, len)) = 5
           /\ Header(type, len)[3] = TypeCode[type]
           /\ Header(type, len)[4] + 256 * Header(type, len)[5] = len
<1>1. PICK a, b : a = len % 256 /\ b = (len \div 256) % 256
  OBVIOUS
<1>2. a \in Bytes /\ b \in Bytes /\ a + 256 * b = len
  BY <1>1, TwoBytes
<1>3. TypeCode[type] \in Bytes
  BY TypeCodes
<1>4. 239 \in Bytes /\ 171 \in Bytes
  BY DEF Bytes
<1>5. Header(type, len) = <<239, 171, TypeCode[type], a, b>>
  BY <1>1 DEF Header
<1> QED
  BY <1>2, <1>3, <1>4, <1>5

LEMMA FramedIsFrame ==
    ASSUME NEW type \in DOMAIN TypeCode, NEW body \in Seq(Bytes), Len(body) <= 65000
    PROVE  /\ IsFrame(Framed(type, body)) /\ Len(Framed(type, body)) = 5 + Len(body)
           /\ Framed(type, body)[3] = TypeCode[type]
<1> DEFINE len == 5 + Len(body)
           h == Header(type, len)
           f == h \o body
<1>1. Framed(type, body) = f
  BY DEF Framed, HeaderSize, Header
<1>2. len \in Nat /\ len <= 65535 /\ len >= 5
  <2>1. Len(body) \in Nat
    OBVIOUS
  <2> QED
    BY <2>1
<1>3. h \in Seq(Bytes) /\ Len(h) = 5 /\ h[3] = TypeCode[type] /\ h[4] + 256 * h[5] = len
  <2> HIDE DEF len
  <2> QED
    BY <1>2, HeaderType
<1>3a. h \in Seq(Bytes)
  BY <1>3
<1> HIDE DEF h
<1>4. f \in Seq(Bytes) /\ Len(f) = Len(h) + Len(body)
  BY <1>3a, ConcatType
<1>5. \A k \in 1 .. Len(h) : f[k] = h[k]
  BY <1>3a, ConcatFront
<1>4a. Len(f) = len
  BY <1>3, <1>4
<1> HIDE DEF f, len
<1>6. f[3] = h[3] /\ f[4] = h[4] /\ f[5] = h[5]
  BY <1>3, <1>5
<1>7. IsFrame(f)
  BY <1>2, <1>3, <1>4, <1>4a, <1>6 DEF IsFrame
<1> QED
  BY <1>1, <1>3, <1>4, <1>4a, <1>6, <1>7 DEF len

(***************************************************************************)
(* What follows the header is the body.                                    *)
(***************************************************************************)
LEMMA FramedRead ==
    ASSUME NEW type \in DOMAIN TypeCode, NEW body \in Seq(Bytes), Len(body) <= 65000,
           NEW w \in Seq(Bytes)
    PROVE  LET buf == Framed(type, body) \o w
           IN  /\ buf \in Seq(Bytes) /\ Complete(buf) /\ TypeOf(buf) = type
               /\ Holds(buf, 6, body)
<1> DEFINE f == Framed(type, body)
           buf == f \o w
           len == 5 + Len(body)
           h == Header(type, len)
<1>1. IsFrame(f)
  BY FramedIsFrame
<1>1a. f[3] = TypeCode[type]
  BY FramedIsFrame
<1>2. f = h \o body
  BY DEF Framed, HeaderSize, Header
<1>3. h \in Seq(Bytes) /\ Len(h) = 5
  <2>1. len \in Nat /\ len <= 65535
    <3>1. Len(body) \in Nat
      OBVIOUS
    <3> QED
      BY <3>1
  <2> HIDE DEF len
  <2> QED
    BY <2>1, HeaderType
<1> HIDE DEF f, h
<1>4. buf \in Seq(Bytes) /\ Complete(buf) /\ Holds(buf, 1, f)
  BY <1>1, FrameWhole
<1>5. TypeOf(buf) = type
  <2>1. TypeOf(buf) = Named(TypeCode, f[3])
    BY <1>1, FrameType
  <2>2. Named(TypeCode, TypeCode[type]) = type
    BY TypeCodes
  <2> QED
    BY <1>1a, <2>1, <2>2
<1>6. Holds(buf, 1, h \o body)
  BY <1>2, <1>4
<1> HIDE DEF buf
<1>6a. 1 \in Nat /\ buf \in Seq(Bytes) /\ h \in Seq(Bytes)
  BY <1>3, <1>4
<1>7. Holds(buf, 1 + Len(h), body)
  BY <1>6, <1>6a, HoldsConcat
<1>8. 1 + Len(h) = 6
  BY <1>3
<1>9. Holds(buf, 6, body)
  BY <1>7, <1>8
<1> QED
  BY <1>4, <1>5, <1>9 DEF buf, f

-----------------------------------------------------------------------------
\* HTTP packets

SessionBytes(p) ==
    PutId(p.listener) \o PutId(p.service) \o PutId(p.backend) \o PutString(p.key)

ContentBytes(p) == PutString(p.content) \o PutWord(p.last_acc)

LEMMA HttpFields ==
    ASSUME NEW p \in HttpPackets
    PROVE  /\ p.type = "HTTP_SYNC" /\ p.action \in DOMAIN HttpCode
           /\ p.farm \in Names /\ p.key \in Names /\ p.content \in Names
           /\ p.listener \in Nat /\ p.service \in Nat /\ p.backend \in Nat
           /\ p.last_acc \in Words
           /\ p = [type |-> "HTTP_SYNC", action |-> p.action, farm |-> p.farm,
                   listener |-> p.listener, service |-> p.service,
                   backend |-> p.backend, key |-> p.key, content |-> p.content,
                   last_acc |-> p.last_acc]
BY DEF HttpPackets

LEMMA SessionType ==
    ASSUME NEW p \in HttpPackets
    PROVE  SessionBytes(p) \in Seq(Bytes) /\ Len(SessionBytes(p)) = 13 + Len(p.key)
<1> DEFINE a == PutId(p.listener)
           b == PutId(p.service)
           c == PutId(p.backend)
           d == PutString(p.key)
<1>1. /\ a \in Seq(Bytes) /\ Len(a) = 4 /\ b \in Seq(Bytes) /\ Len(b) = 4
      /\ c \in Seq(Bytes) /\ Len(c) = 4
  BY HttpFields, IdType
<1>2. d \in Seq(Bytes) /\ Len(d) = Len(p.key) + 1
  BY HttpFields, StringType
<1>3. SessionBytes(p) = ((a \o b) \o c) \o d
  BY DEF SessionBytes
<1>4. Len(p.key) \in Nat
  BY HttpFields, NameFacts
<1> HIDE DEF a, b, c, d
<1>5. a \o b \in Seq(Bytes) /\ Len(a \o b) = 8
  <2>1. a \in Seq(Bytes) /\ b \in Seq(Bytes)
    BY <1>1
  <2>2. a \o b \in Seq(Bytes) /\ Len(a \o b) = Len(a) + Len(b)
    BY <2>1, ConcatType
  <2> QED
    BY <1>1, <2>2
<1>6. (a \o b) \o c \in Seq(Bytes) /\ Len((a \o b) \o c) = 12
  BY <1>1, <1>5, ConcatType
<1>7. /\ ((a \o b) \o c) \o d \in Seq(Bytes)
      /\ Len(((a \o b) \o c) \o d) = 12 + (Len(p.key) + 1)
  BY <1>2, <1>6, ConcatType
<1> QED
  BY <1>3, <1>4, <1>7

LEMMA SessionRead ==
    ASSUME NEW p \in HttpPackets, NEW buf \in Seq(Bytes), NEW i \in Nat,
           Holds(buf, i, SessionBytes(p))
    PROVE  /\ LittleEndian(buf, i, 4) = p.listener % 256
           /\ LittleEndian(buf, i + 4, 4) = p.service % 256
           /\ LittleEndian(buf, i + 8, 4) = p.backend % 256
           /\ GetString(buf, i + 12) = p.key
           /\ AfterString(buf, i + 12) = i + Len(SessionBytes(p))
<1> DEFINE a == PutId(p.listener)
           b == PutId(p.service)
           c == PutId(p.backend)
           d == PutString(p.key)
<1>1. /\ a \in Seq(Bytes) /\ Len(a) = 4 /\ b \in Seq(Bytes) /\ Len(b) = 4
      /\ c \in Seq(Bytes) /\ Len(c) = 4
  BY HttpFields, IdType
<1>2. d \in Seq(Bytes) /\ Len(d) = Len(p.key) + 1
  BY HttpFields, StringType
<1>3. Holds(buf, i, ((a \o b) \o c) \o d)
  BY DEF SessionBytes
<1>4. p.key \in Names /\ p.listener \in Nat /\ p.service \in Nat /\ p.backend \in Nat
  BY HttpFields
<1>5. /\ i + 4 \in Nat /\ i + 8 \in Nat /\ i + 12 \in Nat
  OBVIOUS
<1> HIDE DEF a, b, c, d
<1>6. a \o b \in Seq(Bytes) /\ Len(a \o b) = 8
  <2>1. a \in Seq(Bytes) /\ b \in Seq(Bytes)
    BY <1>1
  <2>2. a \o b \in Seq(Bytes) /\ Len(a \o b) = Len(a) + Len(b)
    BY <2>1, ConcatType
  <2> QED
    BY <1>1, <2>2
<1>7. (a \o b) \o c \in Seq(Bytes) /\ Len((a \o b) \o c) = 12
  BY <1>1, <1>6, ConcatType
<1>8. Holds(buf, i, (a \o b) \o c) /\ Holds(buf, i + 12, d)
  <2>1. Holds(buf, i, (a \o b) \o c) /\ Holds(buf, i + Len((a \o b) \o c), d)
    BY <1>2, <1>3, <1>7, HoldsConcat
  <2> QED
    BY <1>7, <2>1
<1>9. Holds(buf, i, a \o b) /\ Holds(buf, i + 8, c)
  <2>1. Holds(buf, i, a \o b) /\ Holds(buf, i + Len(a \o b), c)
    BY <1>1, <1>6, <1>8, HoldsConcat
  <2> QED
    BY <1>6, <2>1
<1>10. Holds(buf, i, a) /\ Holds(buf, i + 4, b)
  <2>1. Holds(buf, i, a) /\ Holds(buf, i + Len(a), b)
    BY <1>1, <1>9, HoldsConcat
  <2> QED
    BY <1>1, <2>1
<1>11. LittleEndian(buf, i, 4) = p.listener % 256
  BY <1>4, <1>10, IdRead DEF a
<1>12. LittleEndian(buf, i + 4, 4) = p.service % 256
  BY <1>4, <1>5, <1>10, IdRead DEF b
<1>13. LittleEndian(buf, i + 8, 4) = p.backend % 256
  BY <1>4, <1>5, <1>9, IdRead DEF c
<1>14. GetString(buf, i + 12) = p.key /\ AfterString(buf, i + 12) = (i + 12) + Len(d)
  BY <1>4, <1>5, <1>8, StringRead DEF d
<1>15. (i + 12) + Len(d) = i + Len(SessionBytes(p))
  <2>1. Len(p.key) \in Nat /\ Len(SessionBytes(p)) = 13 + Len(p.key)
    BY <1>4, NameFacts, SessionType
  <2>2. PICK n, m, l : n = Len(p.key) /\ m = Len(SessionBytes(p)) /\ l = Len(d)
    OBVIOUS
  <2>3. n \in Nat /\ m = 13 + n /\ l = n + 1
    BY <1>2, <2>1, <2>2
  <2>4. (i + 12) + l = i + m
    BY <2>3
  <2> QED
    BY <2>2, <2>4
<1> QED
  BY <1>11, <1>12, <1>13, <1>14, <1>15

LEMMA ContentType ==
    ASSUME NEW p \in HttpPackets
    PROVE  ContentBytes(p) \in Seq(Bytes) /\ Len(ContentBytes(p)) = 9 + Len(p.content)
<1> DEFINE a == PutString(p.content)
           b == PutWord(p.last_acc)
<1>1. a \in Seq(Bytes) /\ Len(a) = Len(p.content) + 1
  BY HttpFields, StringType
<1>2. b \in Seq(Bytes) /\ Len(b) = 8
  BY HttpFields, WordType
<1>3. ContentBytes(p) = a \o b
  BY DEF ContentBytes
<1>4. Len(p.content) \in Nat
  BY HttpFields, NameFacts
<1> HIDE DEF a, b
<1>5. a \o b \in Seq(Bytes) /\ Len(a \o b) = Len(a) + Len(b)
  BY <1>1, <1>2, ConcatType
<1> QED
  BY <1>1, <1>2, <1>3, <1>4, <1>5

LEMMA ContentRead ==
    ASSUME NEW p \in HttpPackets, NEW buf \in Seq(Bytes), NEW i \in Nat,
           Holds(buf, i, ContentBytes(p))
    PROVE  /\ GetString(buf, i) = p.content
           /\ LittleEndian(buf, AfterString(buf, i), 8) = p.last_acc
           /\ AfterString(buf, i) + 8 = i + Len(ContentBytes(p))
<1> DEFINE a == PutString(p.content)
           b == PutWord(p.last_acc)
<1>1. a \in Seq(Bytes) /\ Len(a) = Len(p.content) + 1
  BY HttpFields, StringType
<1>2. b \in Seq(Bytes) /\ Len(b) = 8
  BY HttpFields, WordType
<1>3. Holds(buf, i, a \o b)
  BY DEF ContentBytes
<1>4. p.content \in Names /\ p.last_acc \in Words
  BY HttpFields
<1> HIDE DEF a, b
<1>5. Holds(buf, i, a) /\ Holds(buf, i + Len(a), b)
  BY <1>1, <1>2, <1>3, HoldsConcat
<1>6. i + Len(a) \in Nat
  BY <1>1
<1>7. GetString(buf, i) = p.content /\ AfterString(buf, i) = i + Len(a)
  BY <1>4, <1>5, StringRead DEF a
<1>8. LittleEndian(buf, i + Len(a), 8) = p.last_acc
  BY <1>4, <1>5, <1>6, WordRead DEF b
<1>9. Len(p.content) \in Nat /\ Len(ContentBytes(p)) = 9 + Len(p.content)
  BY <1>4, NameFacts, ContentType
<1>10. AfterString(buf, i) + 8 = i + Len(ContentBytes(p))
  BY <1>1, <1>7, <1>9
<1> QED
  BY <1>7, <1>8, <1>10

SessionPart(p) == IF p.action = "SYNC_REQUEST" THEN <<>> ELSE SessionBytes(p)
ContentPart(p) == IF p.action \in WithContent THEN ContentBytes(p) ELSE <<>>

HttpBody(p) ==
    <<HttpCode[p.action]>> \o PutString(p.farm) \o SessionPart(p) \o ContentPart(p)

LEMMA PartTypes ==
    ASSUME NEW p \in HttpPackets
    PROVE  /\ <<HttpCode[p.action]>> \in Seq(Bytes) /\ PutString(p.farm) \in Seq(Bytes)
           /\ SessionPart(p) \in Seq(Bytes) /\ ContentPart(p) \in Seq(Bytes)
<1>1. HttpCode[p.action] \in Bytes
  BY HttpFields, HttpCodes
<1>2. PutString(p.farm) \in Seq(Bytes)
  BY HttpFields, StringType
<1>3. SessionPart(p) \in Seq(Bytes)
  BY SessionType DEF SessionPart
<1>4. ContentPart(p) \in Seq(Bytes)
  BY ContentType DEF ContentPart
<1> QED
  BY <1>1, <1>2, <1>3, <1>4

LEMMA PartLengths ==
    ASSUME NEW p \in HttpPackets
    PROVE  /\ Len(PutString(p.farm)) \in Nat /\ Len(PutString(p.farm)) <= 256
           /\ Len(SessionPart(p)) \in Nat /\ Len(SessionPart(p)) <= 268
           /\ Len(ContentPart(p)) \in Nat /\ Len(ContentPart(p)) <= 264
<1>1. ASSUME NEW s \in Names PROVE Len(s) \in Nat /\ Len(s) <= 255
  BY NameFacts
<1>2. Len(PutString(p.farm)) = Len(p.farm) + 1
  BY HttpFields, StringType
<1>3. Len(SessionPart(p)) = 0 \/ Len(SessionPart(p)) = 13 + Len(p.key)
  BY SessionType DEF SessionPart
<1>4. Len(ContentPart(p)) = 0 \/ Len(ContentPart(p)) = 9 + Len(p.content)
  BY ContentType DEF ContentPart
<1>5. PICK a, b, c : a = Len(p.farm) /\ b = Len(p.key) /\ c = Len(p.content)
  OBVIOUS
<1>6. a \in Nat /\ a <= 255 /\ b \in Nat /\ b <= 255 /\ c \in Nat /\ c <= 255
  BY <1>1, <1>5, HttpFields
<1>7. a + 1 \in Nat /\ a + 1 <= 256
  BY <1>6
<1>8. \A x : x = 0 \/ x = 13 + b => x \in Nat /\ x <= 268
  BY <1>6
<1>9. \A x : x = 0 \/ x = 9 + c => x \in Nat /\ x <= 264
  BY <1>6
<1> QED
  BY <1>2, <1>3, <1>4, <1>5, <1>7, <1>8, <1>9

LEMMA HttpBodyType ==
    ASSUME NEW p \in HttpPackets
    PROVE  /\ HttpBody(p) \in Seq(Bytes) /\ Len(HttpBody(p)) <= 65000
           /\ Len(HttpBody(p)) = 1 + Len(PutString(p.farm)) + Len(SessionPart(p))
                                    + Len(ContentPart(p))
           /\ http_serialize(p) = Framed("HTTP_SYNC", HttpBody(p))
<1> DEFINE h == <<HttpCode[p.action]>>
           f == PutString(p.farm)
           s == SessionPart(p)
           c == ContentPart(p)
<1>1. h \in Seq(Bytes) /\ f \in Seq(Bytes) /\ s \in Seq(Bytes) /\ c \in Seq(Bytes)
  BY PartTypes
<1>2. Len(h) = 1
  OBVIOUS
<1>3. HttpBody(p) = ((h \o f) \o s) \o c
  BY DEF HttpBody
<1>4. /\ Len(f) \in Nat /\ Len(f) <= 256 /\ Len(s) \in Nat /\ Len(s) <= 268
      /\ Len(c) \in Nat /\ Len(c) <= 264
  BY PartLengths
<1>5. http_serialize(p) = Framed("HTTP_SYNC", ((h \o f) \o s) \o c)
  BY DEF http_serialize, SessionPart, ContentPart, SessionBytes, ContentBytes
<1> HIDE DEF h, f, s, c
<1>6. h \o f \in Seq(Bytes) /\ Len(h \o f) = Len(h) + Len(f)
  BY <1>1, ConcatType
<1>7. (h \o f) \o s \in Seq(Bytes) /\ Len((h \o f) \o s) = Len(h \o f) + Len(s)
  BY <1>1, <1>6, ConcatType
<1>8. /\ ((h \o f) \o s) \o c \in Seq(Bytes)
      /\ Len(((h \o f) \o s) \o c) = Len((h \o f) \o s) + Len(c)
  BY <1>1, <1>7, ConcatType
<1>9. PICK i, j, k : i = Len(f) /\ j = Len(s) /\ k = Len(c)
  OBVIOUS
<1>10. Len(HttpBody(p)) = 1 + i + j + k
  BY <1>2, <1>3, <1>6, <1>7, <1>8, <1>9
<1>11. 1 + i + j + k <= 65000
  BY <1>4, <1>9
<1> QED
  BY <1>3, <1>5, <1>8, <1>9, <1>10, <1>11 DEF f, s, c

LEMMA HttpImageFields ==
    ASSUME NEW p \in HttpPackets
    PROVE  HttpImage(p) =
              [type |-> "HTTP_SYNC", action |-> p.action, farm |-> p.farm,
               listener |-> IF p.action = "SYNC_REQUEST" THEN 0 ELSE p.listener % 256,
               service |-> IF p.action = "SYNC_REQUEST" THEN 0 ELSE p.service % 256,
               backend |-> IF p.action = "SYNC_REQUEST" THEN 0 ELSE p.backend % 256,
               key |-> IF p.action = "SYNC_REQUEST" THEN <<>> ELSE p.key,
               content |-> IF p.action \in WithContent THEN p.content ELSE <<>>,
               last_acc |-> IF p.action \in WithContent THEN p.last_acc ELSE 0]
<1>1. PICK li, se, ba, ke, co, la :
         /\ li = IF p.action # "SYNC_REQUEST" THEN p.listener % 256 ELSE 0
         /\ se = IF p.action # "SYNC_REQUEST" THEN p.service % 256 ELSE 0
         /\ ba = IF p.action # "SYNC_REQUEST" THEN p.backend % 256 ELSE 0
         /\ ke = IF p.action # "SYNC_REQUEST" THEN p.key ELSE <<>>
         /\ co = IF p.action \in WithContent THEN p.content ELSE <<>>
         /\ la = IF p.action \in WithContent THEN p.last_acc ELSE 0
  OBVIOUS
<1>2. HttpImage(p) = [p EXCEPT !.listener = li, !.service = se, !.backend = ba,
                               !.key = ke, !.content = co, !.last_acc = la]
  BY <1>1 DEF HttpImage
<1>3. PICK a, f, l, s, b, k, c, t :
         p = [type |-> "HTTP_SYNC", action |-> a, farm |-> f, listener |-> l,
              service |-> s, backend |-> b, key |-> k, content |-> c, last_acc |-> t]
  BY HttpFields
<1>4. HttpImage(p) =
         [type |-> "HTTP_SYNC", action |-> a, farm |-> f, listener |-> li,
          service |-> se, backend |-> ba, key |-> ke, content |-> co, last_acc |-> la]
  BY <1>2, <1>3
<1>5. p.action = a /\ p.farm = f
  BY <1>3
<1>6. /\ li = IF p.action = "SYNC_REQUEST" THEN 0 ELSE p.listener % 256
      /\ se = IF p.action = "SYNC_REQUEST" THEN 0 ELSE p.service % 256
      /\ ba = IF p.action = "SYNC_REQUEST" THEN 0 ELSE p.backend % 256
      /\ ke = IF p.action = "SYNC_REQUEST" THEN <<>> ELSE p.key
  BY <1>1
<1> QED
  BY <1>1, <1>4, <1>5, <1>6

LEMMA HttpRead ==
    ASSUME NEW p \in HttpPackets, NEW buf \in Seq(Bytes), Holds(buf, 6, HttpBody(p))
    PROVE  http_deserialize(buf) = Parsed(HttpImage(p), 5 + Len(HttpBody(p)))
<1> DEFINE h == <<HttpCode[p.action]>>
           f == PutString(p.farm)
           s == SessionPart(p)
           c == ContentPart(p)
           ids == AfterString(buf, 7)
<1>1. h \in Seq(Bytes) /\ f \in Seq(Bytes) /\ s \in Seq(Bytes) /\ c \in Seq(Bytes)
  BY PartTypes
<1>2. Len(h) = 1 /\ Len(f) \in Nat /\ Len(s) \in Nat /\ Len(c) \in Nat
  BY PartLengths
<1>3. Holds(buf, 6, ((h \o f) \o s) \o c)
  BY DEF HttpBody
<1> HIDE DEF h, f, s, c
<1>4. h \o f \in Seq(Bytes) /\ Len(h \o f) = Len(h) + Len(f)
  BY <1>1, ConcatType
<1>5. (h \o f) \o s \in Seq(Bytes) /\ Len((h \o f) \o s) = Len(h \o f) + Len(s)
  BY <1>1, <1>4, ConcatType
<1>6. Holds(buf, 6, (h \o f) \o s) /\ Holds(buf, 6 + Len((h \o f) \o s), c)
  BY <1>1, <1>3, <1>5, HoldsConcat
<1>7. Holds(buf, 6, h \o f) /\ Holds(buf, 6 + Len(h \o f), s)
  BY <1>1, <1>4, <1>6, HoldsConcat
<1>8. Holds(buf, 6, h) /\ Holds(buf, 6 + Len(h), f)
  BY <1>1, <1>7, HoldsConcat
<1>9. Named(HttpCode, At(buf, 6)) = p.action
  <2>1. At(buf, 6) = HttpCode[p.action]
    BY <1>8, HoldsByte DEF h
  <2> QED
    BY <2>1, HttpFields, HttpCodes
<1>10. GetString(buf, 7) = p.farm /\ ids = 7 + Len(f)
  <2>1. Holds(buf, 7, PutString(p.farm))
    BY <1>2, <1>8 DEF f
  <2>2. p.farm \in Names /\ 7 \in Nat
    BY HttpFields
  <2> QED
    BY <2>1, <2>2, StringRead DEF f
<1>11. ids \in Nat /\ 6 + Len(h \o f) = ids
  BY <1>2, <1>4, <1>10
<1>12. Holds(buf, ids, s)
  BY <1>7, <1>11
<1>13. Holds(buf, ids + Len(s), c)
  <2>1. 6 + Len((h \o f) \o s) = ids + Len(s)
    BY <1>2, <1>5, <1>11
  <2> QED
    BY <1>6, <2>1
<1>14. 5 + Len(HttpBody(p)) = (ids - 1) + Len(s) + Len(c)
  <2>1. Len(HttpBody(p)) = 1 + Len(f) + Len(s) + Len(c)
    BY HttpBodyType DEF f, s, c
  <2>2. PICK i, j, k : i = Len(f) /\ j = Len(s) /\ k = Len(c)
    OBVIOUS
  <2>3. i \in Nat /\ j \in Nat /\ k \in Nat /\ ids = 7 + i
    BY <1>2, <1>10, <2>2
  <2>4. 5 + (1 + i + j + k) = (ids - 1) + j + k
    BY <2>3
  <2> QED
    BY <2>1, <2>2, <2>4
<1>15. "SYNC_REQUEST" \notin WithContent
  BY DEF WithContent
<1> DEFINE key == ids + 12
           content == AfterString(buf, key)
           last_acc == AfterString(buf, content)
           session == p.action # "SYNC_REQUEST"
           isFull == p.action \in WithContent
<1>16. session =>
          /\ LittleEndian(buf, ids, 4) = p.listener % 256
          /\ LittleEndian(buf, ids + 4, 4) = p.service % 256
          /\ LittleEndian(buf, ids + 8, 4) = p.backend % 256
          /\ GetString(buf, key) = p.key
          /\ content = ids + Len(s)
  <2> SUFFICES ASSUME session
               PROVE  /\ LittleEndian(buf, ids, 4) = p.listener % 256
                      /\ LittleEndian(buf, ids + 4, 4) = p.service % 256
                      /\ LittleEndian(buf, ids + 8, 4) = p.backend % 256
                      /\ GetString(buf, key) = p.key
                      /\ content = ids + Len(s)
    OBVIOUS
  <2>1. s = SessionBytes(p)
    BY DEF s, SessionPart
  <2>2. Holds(buf, ids, SessionBytes(p))
    BY <1>12, <2>1
  <2> HIDE DEF ids
  <2> QED
    BY <1>11, <2>1, <2>2, SessionRead
<1>17. isFull => session
  BY <1>15
<1>18. isFull =>
          /\ GetString(buf, content) = p.content
          /\ LittleEndian(buf, last_acc, 8) = p.last_acc
          /\ last_acc + 8 = content + Len(c)
  <2> SUFFICES ASSUME isFull
               PROVE  /\ GetString(buf, content) = p.content
                      /\ LittleEndian(buf, last_acc, 8) = p.last_acc
                      /\ last_acc + 8 = content + Len(c)
    OBVIOUS
  <2>1. c = ContentBytes(p)
    BY DEF c, ContentPart
  <2>2. Holds(buf, content, ContentBytes(p)) /\ content \in Nat
    BY <1>2, <1>11, <1>13, <1>16, <1>17, <2>1
  <2> HIDE DEF content
  <2> QED
    BY <2>1, <2>2, ContentRead
<1>19. content \in Int /\ last_acc \in Int
  <2>1. \A i \in Int : AfterString(buf, i) \in Int
    <3> SUFFICES ASSUME NEW i \in Int PROVE AfterString(buf, i) \in Int
      OBVIOUS
    <3>1. At(buf, i) \in Int
      <4>1. \A x \in 0 .. 255 : x \in Int
        OBVIOUS
      <4> QED
        BY <4>1, AtIsByte
    <3> QED
      BY <3>1 DEF AfterString
  <2>2. key \in Int
    BY <1>11
  <2> HIDE DEF key
  <2> QED
    BY <2>1, <2>2
<1> DEFINE used == IF isFull THEN last_acc + 7
                   ELSE IF session THEN content - 1 ELSE ids - 1
<1>20. used = 5 + Len(HttpBody(p))
  <2>1. ~isFull => Len(c) = 0
    BY DEF c, ContentPart
  <2>2. ~session => Len(s) = 0
    BY DEF s, SessionPart
  <2>3. PICK i, j, k, l, m : i = ids /\ j = Len(s) /\ k = Len(c) /\ l = content
                             /\ m = last_acc
    OBVIOUS
  <2>4. i \in Nat /\ j \in Nat /\ k \in Nat /\ l \in Int /\ m \in Int
    BY <1>2, <1>11, <1>19, <2>3
  <2>5. CASE isFull
    <3>1. l = i + j /\ m + 8 = l + k /\ used = m + 7
      BY <1>16, <1>17, <1>18, <2>3, <2>5
    <3>2. m + 7 = (i - 1) + j + k
      BY <2>4, <3>1
    <3> QED
      BY <1>14, <2>3, <3>1, <3>2
  <2>6. CASE session /\ ~isFull
    <3>1. l = i + j /\ k = 0 /\ used = l - 1
      BY <1>16, <2>1, <2>3, <2>6
    <3>2. l - 1 = (i - 1) + j + k
      BY <2>4, <3>1
    <3> QED
      BY <1>14, <2>3, <3>1, <3>2
  <2>7. CASE ~session
    <3>1. j = 0 /\ k = 0 /\ used = i - 1
      BY <1>17, <2>1, <2>2, <2>3, <2>7
    <3>2. i - 1 = (i - 1) + j + k
      BY <2>4, <3>1
    <3> QED
      BY <1>14, <2>3, <3>1, <3>2
  <2> QED
    BY <2>5, <2>6, <2>7
<1>21. http_deserialize(buf) =
          Parsed([type     |-> "HTTP_SYNC", action |-> p.action, farm |-> p.farm,
                  listener |-> IF session THEN LittleEndian(buf, ids, 4) ELSE 0,
                  service  |-> IF session THEN LittleEndian(buf, ids + 4, 4) ELSE 0,
                  backend  |-> IF session THEN LittleEndian(buf, ids + 8, 4) ELSE 0,
                  key      |-> IF session THEN GetString(buf, key) ELSE <<>>,
                  content  |-> IF isFull THEN GetString(buf, content) ELSE <<>>,
                  last_acc |-> IF isFull THEN LittleEndian(buf, last_acc, 8) ELSE 0],
                 used)
  BY <1>9, <1>10 DEF http_deserialize
<1> HIDE DEF ids, content, last_acc, key, used
<1>22. HttpImage(p) =
          [type |-> "HTTP_SYNC", action |-> p.action, farm |-> p.farm,
           listener |-> IF session THEN LittleEndian(buf, ids, 4) ELSE 0,
           service |-> IF session THEN LittleEndian(buf, ids + 4, 4) ELSE 0,
           backend |-> IF session THEN LittleEndian(buf, ids + 8, 4) ELSE 0,
           key |-> IF session THEN GetString(buf, key) ELSE <<>>,
           content |-> IF isFull THEN GetString(buf, content) ELSE <<>>,
           last_acc |-> IF isFull THEN LittleEndian(buf, last_acc, 8) ELSE 0]
  BY <1>16, <1>18, HttpImageFields
<1> QED
  BY <1>20, <1>21, <1>22

-----------------------------------------------------------------------------
\* Packets about addresses

AddressBytes(p) == <<p.family>> \o p.src_ip
EntryBytes(p) ==
    <<p.oldest % 256, p.ttl % 256, Len(p.stamps) % 256>> \o PutStamps(p.stamps)

AddressPart(p) == IF p.action \in WithAddress THEN AddressBytes(p) ELSE <<>>
EntryPart(p) == IF p.action = "ADD_UPD_ENTRY" THEN EntryBytes(p) ELSE <<>>

RecentBody(p) ==
    <<RecentCode[p.action]>> \o AddressPart(p) \o EntryPart(p) \o PutTableName(p.table)

LEMMA RecentFields ==
    ASSUME NEW p \in RecentPackets
    PROVE  /\ p.type = "XT_RECENT_SYNC" /\ p.action \in DOMAIN RecentCode
           /\ p.family \in Bytes /\ p.src_ip \in [1 .. 4 -> Bytes]
           /\ p.oldest \in Nat /\ p.ttl \in Nat
           /\ p.stamps \in Stamps
           /\ p.table \in Seq(Bytes) /\ Len(p.table) < 255
           /\ p = [type |-> "XT_RECENT_SYNC", action |-> p.action,
                   family |-> p.family, src_ip |-> p.src_ip, oldest |-> p.oldest,
                   ttl |-> p.ttl, stamps |-> p.stamps, table |-> p.table]
BY DEF RecentPackets, Stamps

LEMMA AddressType ==
    ASSUME NEW p \in RecentPackets
    PROVE  AddressBytes(p) \in Seq(Bytes) /\ Len(AddressBytes(p)) = 5
<1> DEFINE a == <<p.family>>
           b == p.src_ip
<1>1. p.family \in Bytes /\ b \in [1 .. 4 -> Bytes]
  BY RecentFields
<1>2. b \in Seq(Bytes) /\ Len(b) = 4
  BY <1>1, FunctionSeq
<1>3. a \in Seq(Bytes) /\ Len(a) = 1
  BY <1>1
<1>4. AddressBytes(p) = a \o b
  BY DEF AddressBytes
<1> HIDE DEF a, b
<1>5. a \o b \in Seq(Bytes) /\ Len(a \o b) = Len(a) + Len(b)
  BY <1>2, <1>3, ConcatType
<1>6. Len(a \o b) = 5
  BY <1>2, <1>3, <1>5
<1> QED
  BY <1>4, <1>5, <1>6

LEMMA AddressRead ==
    ASSUME NEW p \in RecentPackets, NEW buf \in Seq(Bytes), Holds(buf, 7, AddressBytes(p))
    PROVE  /\ At(buf, 7) = p.family
           /\ p.src_ip = [k \in 1 .. 4 |-> At(buf, 7 + k)]
<1> DEFINE a == <<p.family>>
           b == p.src_ip
<1>1. p.family \in Bytes /\ b \in [1 .. 4 -> Bytes]
  BY RecentFields
<1>2. b \in Seq(Bytes) /\ Len(b) = 4
  BY <1>1, FunctionSeq
<1>3. a \in Seq(Bytes) /\ Len(a) = 1 /\ Holds(buf, 7, a \o b)
  BY <1>1 DEF AddressBytes
<1> HIDE DEF a, b
<1>4. Holds(buf, 7, a) /\ Holds(buf, 7 + Len(a), b)
  BY <1>2, <1>3, HoldsConcat
<1>5. At(buf, 7) = p.family
  BY <1>4, HoldsByte DEF a
<1>6. Holds(buf, 8, b)
  BY <1>3, <1>4
<1>7. \A k \in 1 .. 4 : At(buf, 7 + k) = b[k]
  <2> SUFFICES ASSUME NEW k \in 1 .. 4 PROVE At(buf, 7 + k) = b[k]
    OBVIOUS
  <2>1. 8 + k - 1 = 7 + k
    OBVIOUS
  <2> QED
    BY <1>2, <1>6, <2>1 DEF Holds
<1>8. b = [k \in 1 .. 4 |-> b[k]]
  BY <1>1
<1> QED
  BY <1>5, <1>7, <1>8 DEF b

LEMMA EntryType ==
    ASSUME NEW p \in RecentPackets
    PROVE  /\ EntryBytes(p) \in Seq(Bytes)
           /\ Len(EntryBytes(p)) = 3 + 8 * Len(p.stamps)
           /\ Len(p.stamps) \in Nat /\ Len(p.stamps) <= 255
           /\ Len(p.stamps) % 256 = Len(p.stamps)
<1>1. /\ p.oldest \in Nat /\ p.ttl \in Nat /\ p.stamps \in Stamps
  BY RecentFields
<1> DEFINE n == Len(p.stamps)
           a == <<p.oldest % 256, p.ttl % 256, n % 256>>
           b == PutStamps(p.stamps)
<1>2. n \in Nat /\ n < 256
  BY <1>1 DEF Stamps
<1> HIDE DEF n
<1>3. p.oldest % 256 \in Bytes /\ p.ttl % 256 \in Bytes /\ n % 256 \in Bytes /\ n % 256 = n
  BY <1>1, <1>2 DEF Bytes
<1>4. a \in Seq(Bytes) /\ Len(a) = 3
  BY <1>3
<1>5. b \in Seq(Bytes) /\ Len(b) = 8 * n
  BY <1>1, StampsType DEF n
<1>6. EntryBytes(p) = a \o b
  BY DEF EntryBytes, n
<1> HIDE DEF a, b
<1>7. a \o b \in Seq(Bytes) /\ Len(a \o b) = Len(a) + Len(b)
  BY <1>4, <1>5, ConcatType
<1>8. n <= 255
  BY <1>2
<1> QED
  BY <1>2, <1>3, <1>4, <1>5, <1>6, <1>7, <1>8 DEF n

LEMMA EntryRead ==
    ASSUME NEW p \in RecentPackets, NEW buf \in Seq(Bytes), Holds(buf, 12, EntryBytes(p))
    PROVE  /\ At(buf, 12) = p.oldest % 256 /\ At(buf, 13) = p.ttl % 256
           /\ At(buf, 14) = Len(p.stamps)
           /\ p.stamps = [k \in 1 .. Len(p.stamps) |->
                             LittleEndian(buf, 15 + 8 * (k - 1), 8)]
<1> DEFINE n == Len(p.stamps)
           x == p.oldest % 256
           y == p.ttl % 256
           a == <<x, y, n>>
           b == PutStamps(p.stamps)
<1>1. /\ p.oldest \in Nat /\ p.ttl \in Nat /\ p.stamps \in Stamps
  BY RecentFields
<1>2. n \in Nat /\ n <= 255 /\ n % 256 = n
  BY EntryType
<1> HIDE DEF n
<1>3. x \in Bytes /\ y \in Bytes /\ n \in Bytes
  <2>0. \A m \in Nat : m % 256 \in Bytes
    BY DEF Bytes
  <2>1. x \in Bytes /\ y \in Bytes
    BY <1>1, <2>0
  <2>2. n \in Bytes
    BY <1>2 DEF Bytes
  <2> QED
    BY <2>1, <2>2
<1>4. EntryBytes(p) = a \o b
  BY <1>2 DEF EntryBytes, n
<1> HIDE DEF x, y
<1>5. a \in Seq(Bytes) /\ Len(a) = 3
  BY <1>3
<1>6. b \in Seq(Bytes)
  BY <1>1, StampsType
<1>7. Holds(buf, 12, a \o b)
  BY <1>4
<1>8. a[1] = x /\ a[2] = y /\ a[3] = n
  OBVIOUS
<1> HIDE DEF a, b
<1>9. Holds(buf, 12, a) /\ Holds(buf, 12 + Len(a), b)
  <2>1. a \in Seq(Bytes)
    BY <1>5
  <2> QED
    BY <1>6, <1>7, <2>1, HoldsConcat
<1>10. Holds(buf, 15, b)
  BY <1>5, <1>9
<1>11. p.stamps = [k \in 1 .. Len(p.stamps) |-> LittleEndian(buf, 15 + 8 * (k - 1), 8)]
  BY <1>1, <1>10, StampsRead DEF b
<1>12. \A k \in 1 .. 3 : At(buf, 12 + k - 1) = a[k]
  BY <1>5, <1>9 DEF Holds
<1>13. 12 + 1 - 1 = 12 /\ 12 + 2 - 1 = 13 /\ 12 + 3 - 1 = 14
  OBVIOUS
<1>14. At(buf, 12) = x /\ At(buf, 13) = y /\ At(buf, 14) = n
  BY <1>8, <1>12, <1>13
<1> QED
  BY <1>11, <1>14 DEF n, x, y

LEMMA TableNameType ==
    ASSUME NEW p \in RecentPackets
    PROVE  /\ PutTableName(p.table) \in Seq(Bytes)
           /\ Len(PutTableName(p.table)) = Len(p.table) + 1
           /\ Len(p.table) \in Nat /\ Len(p.table) <= 254
           /\ PutTableName(p.table) = <<Len(p.table) + 1>> \o p.table
           /\ Len(p.table) + 1 \in Bytes
<1>1. p.table \in Seq(Bytes) /\ Len(p.table) < 255
  BY RecentFields
<1> DEFINE n == Len(p.table)
<1>2. n \in Nat
  BY <1>1
<1> HIDE DEF n
<1>3. n < 255
  BY <1>1 DEF n
<1>4. n <= 254 /\ (n + 1) % 256 = n + 1 /\ n + 1 \in Bytes
  BY <1>2, <1>3 DEF Bytes
<1>5. PutTableName(p.table) = <<n + 1>> \o p.table
  BY <1>4 DEF PutTableName, n
<1>6. <<n + 1>> \in Seq(Bytes) /\ Len(<<n + 1>>) = 1
  BY <1>4
<1>7. <<n + 1>> \o p.table \in Seq(Bytes) /\ Len(<<n + 1>> \o p.table) = 1 + n
  BY <1>1, <1>6, ConcatType DEF n
<1>8. 1 + n = n + 1
  BY <1>2
<1> QED
  BY <1>2, <1>4, <1>5, <1>7, <1>8 DEF n

LEMMA TableNameRead ==
    ASSUME NEW p \in RecentPackets, NEW buf \in Seq(Bytes), NEW i \in Nat,
           Holds(buf, i, PutTableName(p.table))
    PROVE  /\ At(buf, i) = Len(p.table) + 1
           /\ p.table = [k \in 1 .. Len(p.table) |-> At(buf, i + k)]
<1> DEFINE s == p.table
           n == Len(s)
           h == <<n + 1>>
<1>1. /\ n \in Nat /\ n + 1 \in Bytes /\ PutTableName(p.table) = h \o s
  BY TableNameType
<1>2. s \in Seq(Bytes)
  BY RecentFields
<1>3. h \in Seq(Bytes) /\ Len(h) = 1
  BY <1>1
<1> HIDE DEF h
<1>4. Holds(buf, i, h) /\ Holds(buf, i + Len(h), s)
  <2>1. h \in Seq(Bytes) /\ Holds(buf, i, h \o s)
    BY <1>1, <1>3
  <2> QED
    BY <1>2, <2>1, HoldsConcat
<1>5. At(buf, i) = n + 1
  BY <1>4, HoldsByte DEF h
<1>6. \A k \in 1 .. n : At(buf, i + k) = s[k]
  <2> SUFFICES ASSUME NEW k \in 1 .. n PROVE At(buf, i + k) = s[k]
    OBVIOUS
  <2>1. i + 1 + k - 1 = i + k
    OBVIOUS
  <2>2. Holds(buf, i + 1, s)
    BY <1>3, <1>4
  <2> QED
    BY <2>1, <2>2 DEF Holds
<1>7. s = [k \in 1 .. n |-> s[k]]
  BY <1>2
<1> QED
  BY <1>5, <1>6, <1>7

LEMMA RecentPartTypes ==
    ASSUME NEW p \in RecentPackets
    PROVE  /\ <<RecentCode[p.action]>> \in Seq(Bytes) /\ AddressPart(p) \in Seq(Bytes)
           /\ EntryPart(p) \in Seq(Bytes) /\ PutTableName(p.table) \in Seq(Bytes)
<1>1. RecentCode[p.action] \in Bytes
  BY RecentFields, RecentCodes
<1>2. AddressPart(p) \in Seq(Bytes)
  BY AddressType DEF AddressPart
<1>3. EntryPart(p) \in Seq(Bytes)
  <2>1. EntryBytes(p) \in Seq(Bytes)
    BY EntryType
  <2>2. <<>> \in Seq(Bytes)
    OBVIOUS
  <2> QED
    BY <2>1, <2>2 DEF EntryPart
<1>4. PutTableName(p.table) \in Seq(Bytes)
  BY TableNameType
<1> QED
  BY <1>1, <1>2, <1>3, <1>4

LEMMA RecentPartLengths ==
    ASSUME NEW p \in RecentPackets
    PROVE  /\ Len(AddressPart(p)) = IF p.action \in WithAddress THEN 5 ELSE 0
           /\ Len(EntryPart(p)) = IF p.action = "ADD_UPD_ENTRY"
                                  THEN 3 + 8 * Len(p.stamps) ELSE 0
           /\ Len(p.stamps) \in Nat /\ Len(p.stamps) <= 255
           /\ Len(PutTableName(p.table)) = Len(p.table) + 1
           /\ Len(p.table) \in Nat /\ Len(p.table) <= 254
<1>1. Len(AddressPart(p)) = IF p.action \in WithAddress THEN 5 ELSE 0
  BY AddressType DEF AddressPart
<1>2. Len(EntryPart(p)) = IF p.action = "ADD_UPD_ENTRY"
                          THEN 3 + 8 * Len(p.stamps) ELSE 0
  BY EntryType DEF EntryPart
<1>3. Len(p.stamps) \in Nat /\ Len(p.stamps) <= 255
  BY EntryType
<1>4. Len(PutTableName(p.table)) = Len(p.table) + 1
  BY TableNameType
<1>5. Len(p.table) \in Nat /\ Len(p.table) <= 254
  BY TableNameType
<1> QED
  BY <1>1, <1>2, <1>3, <1>4, <1>5

LEMMA RecentBodyType ==
    ASSUME NEW p \in RecentPackets
    PROVE  /\ RecentBody(p) \in Seq(Bytes) /\ Len(RecentBody(p)) <= 65000
           /\ Len(RecentBody(p)) = 1 + Len(AddressPart(p)) + Len(EntryPart(p))
                                      + Len(PutTableName(p.table))
           /\ recent_serialize(p) = Framed("XT_RECENT_SYNC", RecentBody(p))
<1> DEFINE h == <<RecentCode[p.action]>>
           a == AddressPart(p)
           e == EntryPart(p)
           t == PutTableName(p.table)
<1>1. h \in Seq(Bytes) /\ a \in Seq(Bytes) /\ e \in Seq(Bytes) /\ t \in Seq(Bytes)
  BY RecentPartTypes
<1>2. Len(h) = 1
  OBVIOUS
<1>3. RecentBody(p) = ((h \o a) \o e) \o t
  BY DEF RecentBody
<1>4. /\ Len(a) = 5 \/ Len(a) = 0
      /\ Len(e) = 0 \/ Len(e) = 3 + 8 * Len(p.stamps)
      /\ Len(p.stamps) \in Nat /\ Len(p.stamps) <= 255
      /\ Len(t) = Len(p.table) + 1 /\ Len(p.table) \in Nat /\ Len(p.table) <= 254
  BY RecentPartLengths
<1>5. recent_serialize(p) = Framed("XT_RECENT_SYNC", ((h \o a) \o e) \o t)
  BY DEF recent_serialize, AddressPart, EntryPart, AddressBytes, EntryBytes
<1> HIDE DEF h, a, e, t
<1>6. h \o a \in Seq(Bytes) /\ Len(h \o a) = Len(h) + Len(a)
  BY <1>1, ConcatType
<1>7. (h \o a) \o e \in Seq(Bytes) /\ Len((h \o a) \o e) = Len(h \o a) + Len(e)
  BY <1>1, <1>6, ConcatType
<1>8. /\ ((h \o a) \o e) \o t \in Seq(Bytes)
      /\ Len(((h \o a) \o e) \o t) = Len((h \o a) \o e) + Len(t)
  BY <1>1, <1>7, ConcatType
<1>9. PICK i, j, k : i = Len(a) /\ j = Len(e) /\ k = Len(t)
  OBVIOUS
<1>10. Len(RecentBody(p)) = 1 + i + j + k
  BY <1>2, <1>3, <1>6, <1>7, <1>8, <1>9
<1>11. i \in Nat /\ j \in Nat /\ k \in Nat /\ i <= 5 /\ j <= 2043 /\ k <= 255
  BY <1>4, <1>9
<1>12. 1 + i + j + k <= 65000
  BY <1>11
<1> QED
  BY <1>3, <1>5, <1>8, <1>9, <1>10, <1>12 DEF a, e, t

LEMMA RecentImageFields ==
    ASSUME NEW p \in RecentPackets
    PROVE  RecentImage(p) =
              [type |-> "XT_RECENT_SYNC", action |-> p.action,
               family |-> IF p.action \in WithAddress THEN p.family ELSE 0,
               src_ip |-> IF p.action \in WithAddress THEN p.src_ip ELSE <<>>,
               oldest |-> IF p.action = "ADD_UPD_ENTRY" THEN p.oldest % 256 ELSE 0,
               ttl |-> IF p.action = "ADD_UPD_ENTRY" THEN p.ttl % 256 ELSE 0,
               stamps |-> IF p.action = "ADD_UPD_ENTRY" THEN p.stamps ELSE <<>>,
               table |-> p.table]
<1>1. PICK fa, ip, ol, tt, st :
         /\ fa = IF p.action \in WithAddress THEN p.family ELSE 0
         /\ ip = IF p.action \in WithAddress THEN p.src_ip ELSE <<>>
         /\ ol = IF p.action = "ADD_UPD_ENTRY" THEN p.oldest % 256 ELSE 0
         /\ tt = IF p.action = "ADD_UPD_ENTRY" THEN p.ttl % 256 ELSE 0
         /\ st = IF p.action = "ADD_UPD_ENTRY" THEN p.stamps ELSE <<>>
  OBVIOUS
<1>2. RecentImage(p) = [p EXCEPT !.family = fa, !.src_ip = ip, !.oldest = ol,
                                 !.ttl = tt, !.stamps = st]
  BY <1>1 DEF RecentImage
<1>3. PICK a, f, s, o, t, x, n :
         p = [type |-> "XT_RECENT_SYNC", action |-> a, family |-> f, src_ip |-> s,
              oldest |-> o, ttl |-> t, stamps |-> x, table |-> n]
  BY RecentFields
<1>4. RecentImage(p) =
         [type |-> "XT_RECENT_SYNC", action |-> a, family |-> fa, src_ip |-> ip,
          oldest |-> ol, ttl |-> tt, stamps |-> st, table |-> n]
  BY <1>2, <1>3
<1>5. p.action = a /\ p.table = n
  BY <1>3
<1> QED
  BY <1>1, <1>4, <1>5

LEMMA RecentRead ==
    ASSUME NEW p \in RecentPackets, NEW buf \in Seq(Bytes), Holds(buf, 6, RecentBody(p))
    PROVE  recent_deserialize(buf) = Parsed(RecentImage(p), 5 + Len(RecentBody(p)))
<1> DEFINE h == <<RecentCode[p.action]>>
           a == AddressPart(p)
           e == EntryPart(p)
           t == PutTableName(p.table)
           hasIp == p.action \in WithAddress
           isAdd == p.action = "ADD_UPD_ENTRY"
           count == IF isAdd THEN At(buf, 14) ELSE 0
           name == IF isAdd THEN 15 + 8 * count ELSE IF hasIp THEN 12 ELSE 7
           len == At(buf, name)
<1>1. h \in Seq(Bytes) /\ a \in Seq(Bytes) /\ e \in Seq(Bytes) /\ t \in Seq(Bytes)
  BY RecentPartTypes
<1>2. /\ Len(h) = 1 /\ Len(a) = IF hasIp THEN 5 ELSE 0
      /\ Len(e) = IF isAdd THEN 3 + 8 * Len(p.stamps) ELSE 0
      /\ Len(p.stamps) \in Nat /\ Len(t) = Len(p.table) + 1 /\ Len(p.table) \in Nat
  BY RecentPartLengths
<1>3. Holds(buf, 6, ((h \o a) \o e) \o t)
  BY DEF RecentBody
<1>4. isAdd => hasIp
  BY DEF WithAddress
<1> HIDE DEF h, a, e, t
<1>5. h \o a \in Seq(Bytes) /\ Len(h \o a) = Len(h) + Len(a)
  BY <1>1, ConcatType
<1>6. (h \o a) \o e \in Seq(Bytes) /\ Len((h \o a) \o e) = Len(h \o a) + Len(e)
  BY <1>1, <1>5, ConcatType
<1>7. Holds(buf, 6, (h \o a) \o e) /\ Holds(buf, 6 + Len((h \o a) \o e), t)
  BY <1>1, <1>3, <1>6, HoldsConcat
<1>8. Holds(buf, 6, h \o a) /\ Holds(buf, 6 + Len(h \o a), e)
  BY <1>1, <1>5, <1>7, HoldsConcat
<1>9. Holds(buf, 6, h) /\ Holds(buf, 6 + Len(h), a)
  BY <1>1, <1>8, HoldsConcat
<1>10. Named(RecentCode, At(buf, 6)) = p.action
  <2>1. At(buf, 6) = RecentCode[p.action]
    BY <1>9, HoldsByte DEF h
  <2> QED
    BY <2>1, RecentFields, RecentCodes
<1>11. hasIp => /\ At(buf, 7) = p.family
                /\ p.src_ip = [k \in 1 .. 4 |-> At(buf, 7 + k)]
  <2> SUFFICES ASSUME hasIp
               PROVE  /\ At(buf, 7) = p.family
                      /\ p.src_ip = [k \in 1 .. 4 |-> At(buf, 7 + k)]
    OBVIOUS
  <2>1. Holds(buf, 7, AddressBytes(p))
    BY <1>2, <1>9 DEF a, AddressPart
  <2> QED
    BY <2>1, AddressRead
<1>12. isAdd =>
          /\ At(buf, 12) = p.oldest % 256 /\ At(buf, 13) = p.ttl % 256
          /\ count = Len(p.stamps)
          /\ p.stamps = [k \in 1 .. count |-> LittleEndian(buf, 15 + 8 * (k - 1), 8)]
  <2> SUFFICES ASSUME isAdd
               PROVE  /\ At(buf, 12) = p.oldest % 256 /\ At(buf, 13) = p.ttl % 256
                      /\ count = Len(p.stamps)
                      /\ p.stamps = [k \in 1 .. count |->
                                        LittleEndian(buf, 15 + 8 * (k - 1), 8)]
    OBVIOUS
  <2>1. 6 + Len(h \o a) = 12
    BY <1>2, <1>4, <1>5
  <2>2. Holds(buf, 12, EntryBytes(p))
    BY <1>8, <2>1 DEF e, EntryPart
  <2>3. /\ At(buf, 12) = p.oldest % 256 /\ At(buf, 13) = p.ttl % 256
        /\ At(buf, 14) = Len(p.stamps)
        /\ p.stamps = [k \in 1 .. Len(p.stamps) |->
                          LittleEndian(buf, 15 + 8 * (k - 1), 8)]
    BY <2>2, EntryRead
  <2>4. count = Len(p.stamps)
    BY <2>3
  <2> HIDE DEF count
  <2> QED
    BY <2>3, <2>4
<1>13. name \in Nat /\ 6 + Len((h \o a) \o e) = name
  <2>1. PICK i, j, k : i = Len(a) /\ j = Len(e) /\ k = Len(p.stamps)
    OBVIOUS
  <2>2. k \in Nat /\ 6 + Len((h \o a) \o e) = 6 + (1 + i + j)
    BY <1>2, <1>5, <1>6, <2>1
  <2>3. CASE isAdd
    <3>1. i = 5 /\ j = 3 + 8 * k /\ name = 15 + 8 * k
      BY <1>2, <1>4, <1>12, <2>1, <2>3
    <3> QED
      BY <2>2, <3>1
  <2>4. CASE ~isAdd /\ hasIp
    <3>1. i = 5 /\ j = 0 /\ name = 12
      BY <1>2, <2>1, <2>4
    <3> QED
      BY <2>2, <3>1
  <2>5. CASE ~hasIp
    <3>1. i = 0 /\ j = 0 /\ name = 7
      BY <1>2, <1>4, <2>1, <2>5
    <3> QED
      BY <2>2, <3>1
  <2> QED
    BY <2>3, <2>4, <2>5
<1>14. len = Len(p.table) + 1 /\ p.table = [k \in 1 .. Len(p.table) |-> At(buf, name + k)]
  <2>1. Holds(buf, name, PutTableName(p.table))
    BY <1>7, <1>13 DEF t
  <2> HIDE DEF name
  <2> QED
    BY <1>13, <2>1, TableNameRead
<1> DEFINE used == name + (IF len = 0 THEN 0 ELSE len - 1)
<1>15. len - 1 = Len(p.table) /\ used = 5 + Len(RecentBody(p))
  <2>1. Len(RecentBody(p)) = 1 + Len(a) + Len(e) + Len(t)
    BY RecentBodyType DEF a, e, t
  <2>2. PICK i, j, k : i = Len(a) /\ j = Len(e) /\ k = Len(p.table)
    OBVIOUS
  <2>3. i \in Nat /\ j \in Nat /\ k \in Nat
    BY <1>1, <1>2, <2>2
  <2>4. name = 6 + (1 + i + j) /\ len = k + 1
    BY <1>2, <1>5, <1>6, <1>13, <1>14, <2>2
  <2> HIDE DEF name, len
  <2>5. used = name + k /\ len - 1 = k
    BY <2>3, <2>4
  <2>6. name + k = 5 + (1 + i + j + (k + 1))
    BY <2>3, <2>4
  <2> QED
    BY <1>2, <2>1, <2>2, <2>5, <2>6
<1>16. recent_deserialize(buf) =
          Parsed([type   |-> "XT_RECENT_SYNC", action |-> p.action,
                  family |-> IF hasIp THEN At(buf, 7) ELSE 0,
                  src_ip |-> IF hasIp THEN [k \in 1..4 |-> At(buf, 7 + k)] ELSE <<>>,
                  oldest |-> IF isAdd THEN At(buf, 12) ELSE 0,
                  ttl    |-> IF isAdd THEN At(buf, 13) ELSE 0,
                  stamps |-> [k \in 1..count |->
                                 LittleEndian(buf, 15 + 8 * (k - 1), 8)],
                  table  |-> [k \in 1..(len - 1) |-> At(buf, name + k)]],
                 used)
  BY <1>10 DEF recent_deserialize
<1>17. [k \in 1..count |-> LittleEndian(buf, 15 + 8 * (k - 1), 8)]
          = IF isAdd THEN p.stamps ELSE <<>>
  <2>1. CASE isAdd
    BY <1>12, <2>1
  <2>2. CASE ~isAdd
    <3>1. 1 .. count = {}
      BY <2>2
    <3> HIDE DEF count
    <3>2. [k \in 1..count |-> LittleEndian(buf, 15 + 8 * (k - 1), 8)] = <<>>
      BY <3>1
    <3> QED
      BY <2>2, <3>2
  <2> QED
    BY <2>1, <2>2
<1>18. [k \in 1..(len - 1) |-> At(buf, name + k)] = p.table
  BY <1>14, <1>15
<1> HIDE DEF count, name, len, used
<1>19. RecentImage(p) =
          [type   |-> "XT_RECENT_SYNC", action |-> p.action,
           family |-> IF hasIp THEN At(buf, 7) ELSE 0,
           src_ip |-> IF hasIp THEN [k \in 1..4 |-> At(buf, 7 + k)] ELSE <<>>,
           oldest |-> IF isAdd THEN At(buf, 12) ELSE 0,
           ttl    |-> IF isAdd THEN At(buf, 13) ELSE 0,
           stamps |-> [k \in 1..count |-> LittleEndian(buf, 15 + 8 * (k - 1), 8)],
           table  |-> [k \in 1..(len - 1) |-> At(buf, name + k)]]
  BY <1>11, <1>12, <1>17, <1>18, RecentImageFields
<1> QED
  BY <1>15, <1>16, <1>19

-----------------------------------------------------------------------------
\* Commands

DataPart(c) == IF c.command \in WithData THEN PutString(c.data) ELSE <<>>
PortPart(c) == IF c.command \in WithPort THEN PutPort(c.port) ELSE <<>>
ClientPart(c) ==
    IF c.command = "SW_TO_CLIENT" THEN <<Family(c.address)>> \o c.address ELSE <<>>

CommandBody(c) ==
    <<CommandCode(c.command)>> \o DataPart(c) \o PortPart(c) \o ClientPart(c)

LEMMA CommandFields ==
    ASSUME NEW c \in CommandPackets
    PROVE  /\ c.type = "CTL_COMMAND"
           /\ \E j \in DOMAIN CommandNames : c.command = CommandNames[j]
           /\ c.data \in Names /\ c.port \in Ports
           /\ c.address = <<>> \/ c.address \in [1 .. 4 -> Bytes]
           /\ c = [type |-> "CTL_COMMAND", command |-> c.command, data |-> c.data,
                   port |-> c.port, address |-> c.address]
BY DEF CommandPackets

LEMMA ClientBytes ==
    ASSUME NEW c \in CommandPackets
    PROVE  /\ <<Family(c.address)>> \in Seq(Bytes) /\ c.address \in Seq(Bytes)
           /\ Len(c.address) = 0 \/ Len(c.address) = 4
<1>1. Family(c.address) \in Bytes
  BY DEF Family, IPV4, IPV6, Bytes
<1>2. <<Family(c.address)>> \in Seq(Bytes)
  BY <1>1
<1>3. CASE c.address = <<>>
  BY <1>2, <1>3
<1>4. CASE c.address \in [1 .. 4 -> Bytes]
  <2>1. c.address \in Seq(Bytes) /\ Len(c.address) = 4
    BY <1>4, FunctionSeq
  <2> QED
    BY <1>2, <2>1
<1> QED
  BY <1>3, <1>4, CommandFields

LEMMA CommandPartTypes ==
    ASSUME NEW c \in CommandPackets
    PROVE  /\ <<CommandCode(c.command)>> \in Seq(Bytes) /\ DataPart(c) \in Seq(Bytes)
           /\ PortPart(c) \in Seq(Bytes) /\ ClientPart(c) \in Seq(Bytes)
<1>1. CommandCode(c.command) \in Bytes
  BY CommandFields, CommandCodes
<1>2. <<CommandCode(c.command)>> \in Seq(Bytes)
  BY <1>1
<1>3. <<>> \in Seq(Bytes)
  OBVIOUS
<1>4. DataPart(c) \in Seq(Bytes)
  <2>1. PutString(c.data) \in Seq(Bytes)
    BY CommandFields, StringType
  <2> QED
    BY <1>3, <2>1 DEF DataPart
<1>5. PortPart(c) \in Seq(Bytes)
  <2>1. PutPort(c.port) \in Seq(Bytes)
    <3>1. <<>> \in Seq(Bytes) /\ 0 \in Nat
      OBVIOUS
    <3> QED
      BY <3>1, CommandFields, PortRead
  <2> QED
    BY <1>3, <2>1 DEF PortPart
<1>6. ClientPart(c) \in Seq(Bytes)
  <2>1. <<Family(c.address)>> \o c.address \in Seq(Bytes)
    BY ClientBytes, ConcatType
  <2> QED
    BY <1>3, <2>1 DEF ClientPart
<1> QED
  BY <1>2, <1>4, <1>5, <1>6

LEMMA CommandPartLengths ==
    ASSUME NEW c \in CommandPackets
    PROVE  /\ Len(DataPart(c)) \in Nat /\ Len(DataPart(c)) <= 256
           /\ Len(PortPart(c)) = IF c.command \in WithPort THEN 3 ELSE 0
           /\ Len(ClientPart(c)) \in Nat /\ Len(ClientPart(c)) <= 5
           /\ c.command \in WithPort => Len(DataPart(c)) = 0
<1>1. Len(c.data) \in Nat /\ Len(c.data) <= 255
  BY CommandFields, NameFacts
<1>2. Len(PutString(c.data)) = Len(c.data) + 1
  BY CommandFields, StringType
<1>3. Len(DataPart(c)) = 0 \/ Len(DataPart(c)) = Len(c.data) + 1
  BY <1>2 DEF DataPart
<1>4. Len(DataPart(c)) \in Nat /\ Len(DataPart(c)) <= 256
  <2>1. PICK n, m : n = Len(c.data) /\ m = Len(DataPart(c))
    OBVIOUS
  <2>2. m = 0 \/ m = n + 1
    BY <1>3, <2>1
  <2>3. n \in Nat /\ n <= 255
    BY <1>1, <2>1
  <2>4. m \in Nat /\ m <= 256
    BY <2>2, <2>3
  <2> QED
    BY <2>1, <2>4
<1>5. Len(PortPart(c)) = IF c.command \in WithPort THEN 3 ELSE 0
  <2>1. Len(PutPort(c.port)) = 3
    BY DEF PutPort
  <2> QED
    BY <2>1 DEF PortPart
<1>6. Len(ClientPart(c)) \in Nat /\ Len(ClientPart(c)) <= 5
  <2> DEFINE h == <<Family(c.address)>>
  <2>1. h \in Seq(Bytes) /\ c.address \in Seq(Bytes)
    BY ClientBytes
  <2>2. Len(h) = 1
    OBVIOUS
  <2>3. ClientPart(c) = <<>> \/ ClientPart(c) = h \o c.address
    BY DEF ClientPart
  <2> HIDE DEF h
  <2>4. Len(h \o c.address) = Len(h) + Len(c.address)
    BY <2>1, ConcatType
  <2>5. Len(c.address) = 0 \/ Len(c.address) = 4
    BY ClientBytes
  <2>6. Len(<<>>) = 0
    OBVIOUS
  <2>7. PICK m, n : m = Len(h \o c.address) /\ n = Len(c.address)
    OBVIOUS
  <2>8. m = 1 + n /\ (n = 0 \/ n = 4)
    BY <2>2, <2>4, <2>5, <2>7
  <2>9. Len(ClientPart(c)) = 0 \/ Len(ClientPart(c)) = m
    BY <2>3, <2>6, <2>7
  <2> QED
    BY <2>8, <2>9
<1>7. c.command \in WithPort => Len(DataPart(c)) = 0
  BY DEF DataPart, WithPort, WithData
<1> QED
  BY <1>4, <1>5, <1>6, <1>7

LEMMA CommandBodyType ==
    ASSUME NEW c \in CommandPackets
    PROVE  /\ CommandBody(c) \in Seq(Bytes) /\ Len(CommandBody(c)) <= 65000
           /\ command_serialize(c) = Framed("CTL_COMMAND", CommandBody(c))
<1> DEFINE h == <<CommandCode(c.command)>>
           d == DataPart(c)
           p == PortPart(c)
           a == ClientPart(c)
<1>1. h \in Seq(Bytes) /\ d \in Seq(Bytes) /\ p \in Seq(Bytes) /\ a \in Seq(Bytes)
  BY CommandPartTypes
<1>2. Len(h) = 1
  OBVIOUS
<1>3. CommandBody(c) = ((h \o d) \o p) \o a
  BY DEF CommandBody
<1>4a. Len(d) \in Nat /\ Len(d) <= 256
  BY CommandPartLengths
<1>4b. Len(a) \in Nat /\ Len(a) <= 5
  BY CommandPartLengths
<1>4c. Len(p) = 3 \/ Len(p) = 0
  BY CommandPartLengths
<1>5. command_serialize(c) = Framed("CTL_COMMAND", ((h \o d) \o p) \o a)
  BY DEF command_serialize, DataPart, PortPart, ClientPart
<1> HIDE DEF h, d, p, a
<1>6. h \o d \in Seq(Bytes) /\ Len(h \o d) = Len(h) + Len(d)
  BY <1>1, ConcatType
<1>7. (h \o d) \o p \in Seq(Bytes) /\ Len((h \o d) \o p) = Len(h \o d) + Len(p)
  BY <1>1, <1>6, ConcatType
<1>8. /\ ((h \o d) \o p) \o a \in Seq(Bytes)
      /\ Len(((h \o d) \o p) \o a) = Len((h \o d) \o p) + Len(a)
  BY <1>1, <1>7, ConcatType
<1>9. PICK i, j, k : i = Len(d) /\ j = Len(p) /\ k = Len(a)
  OBVIOUS
<1>10. Len(CommandBody(c)) = 1 + i + j + k
  BY <1>2, <1>3, <1>6, <1>7, <1>8, <1>9
<1>11. 1 + i + j + k <= 65000
  <2>1. i \in Nat /\ i <= 256 /\ k \in Nat /\ k <= 5
    BY <1>4a, <1>4b, <1>9
  <2>2. j = 3 \/ j = 0
    BY <1>4c, <1>9
  <2> QED
    BY <2>1, <2>2
<1> QED
  BY <1>3, <1>5, <1>8, <1>10, <1>11

LEMMA CommandImageFields ==
    ASSUME NEW c \in CommandPackets
    PROVE  CommandImage(c) =
              [type |-> "CTL_COMMAND", command |-> c.command,
               data |-> IF c.command \in WithData THEN c.data ELSE <<>>,
               port |-> IF c.command \in WithPort THEN c.port ELSE 0,
               address |-> IF c.command = "SW_TO_CLIENT" THEN c.address ELSE <<>>]
<1>1. PICK da, po, ad :
         /\ da = IF c.command \in WithData THEN c.data ELSE <<>>
         /\ po = IF c.command \in WithPort THEN c.port ELSE 0
         /\ ad = IF c.command = "SW_TO_CLIENT" THEN c.address ELSE <<>>
  OBVIOUS
<1>2. CommandImage(c) = [c EXCEPT !.data = da, !.port = po, !.address = ad]
  BY <1>1 DEF CommandImage
<1>3. PICK m, d, p, a :
         c = [type |-> "CTL_COMMAND", command |-> m, data |-> d, port |-> p,
              address |-> a]
  BY CommandFields
<1>4. CommandImage(c) = [type |-> "CTL_COMMAND", command |-> m, data |-> da,
                         port |-> po, address |-> ad]
  BY <1>2, <1>3
<1>5. c.command = m
  BY <1>3
<1> QED
  BY <1>1, <1>4, <1>5

LEMMA ClientRead ==
    ASSUME NEW c \in CommandPackets, NEW buf \in Seq(Bytes),
           Holds(buf, 10, <<Family(c.address)>> \o c.address)
    PROVE  IF At(buf, 10) = IPV4
           THEN c.address = [k \in 1 .. 4 |-> At(buf, 10 + k)] ELSE c.address = <<>>
<1> DEFINE h == <<Family(c.address)>>
           a == c.address
<1>1. h \in Seq(Bytes) /\ a \in Seq(Bytes)
  BY ClientBytes
<1>2. Len(h) = 1 /\ Holds(buf, 10, h \o a)
  OBVIOUS
<1> HIDE DEF h, a
<1>3. Holds(buf, 10, h) /\ Holds(buf, 10 + Len(h), a)
  BY <1>1, <1>2, HoldsConcat
<1>4. At(buf, 10) = Family(a)
  BY <1>3, HoldsByte DEF h, a
<1>5. Holds(buf, 11, a)
  BY <1>2, <1>3
<1>6. CASE a = <<>>
  BY <1>4, <1>6 DEF Family, IPV4, IPV6, a
<1>7. CASE a \in [1 .. 4 -> Bytes]
  <2>1. Len(a) = 4 /\ a # <<>>
    <3>1. Len(a) = 4
      BY <1>7, FunctionSeq
    <3>2. a = <<>> => Len(a) = 0
      OBVIOUS
    <3>3. 4 # 0
      OBVIOUS
    <3> QED
      BY <3>1, <3>2, <3>3
  <2>2. At(buf, 10) = IPV4
    BY <1>4, <2>1 DEF Family
  <2>3. \A k \in 1 .. 4 : At(buf, 10 + k) = a[k]
    <3> SUFFICES ASSUME NEW k \in 1 .. 4 PROVE At(buf, 10 + k) = a[k]
      OBVIOUS
    <3>1. 11 + k - 1 = 10 + k
      OBVIOUS
    <3> QED
      BY <1>5, <2>1, <3>1 DEF Holds
  <2>4. a = [k \in 1 .. 4 |-> a[k]]
    BY <1>7
  <2> QED
    BY <2>2, <2>3, <2>4 DEF a
<1>8. a = <<>> \/ a \in [1 .. 4 -> Bytes]
  BY CommandFields DEF a
<1> QED
  BY <1>6, <1>7, <1>8

LEMMA CommandRead ==
    ASSUME NEW c \in CommandPackets, NEW buf \in Seq(Bytes), Holds(buf, 6, CommandBody(c))
    PROVE  command_deserialize(buf) = CommandImage(c)
<1> DEFINE h == <<CommandCode(c.command)>>
           d == DataPart(c)
           p == PortPart(c)
           a == ClientPart(c)
<1>1. h \in Seq(Bytes) /\ d \in Seq(Bytes) /\ p \in Seq(Bytes) /\ a \in Seq(Bytes)
  BY CommandPartTypes
<1>2. Len(h) = 1
  OBVIOUS
<1>3. Holds(buf, 6, ((h \o d) \o p) \o a)
  BY DEF CommandBody
<1>4. c.command \in WithPort => Len(d) = 0
  BY CommandPartLengths
<1>5. Len(p) = IF c.command \in WithPort THEN 3 ELSE 0
  BY CommandPartLengths
<1> HIDE DEF h, d, p, a
<1>6. h \o d \in Seq(Bytes) /\ Len(h \o d) = Len(h) + Len(d)
  BY <1>1, ConcatType
<1>7. (h \o d) \o p \in Seq(Bytes) /\ Len((h \o d) \o p) = Len(h \o d) + Len(p)
  BY <1>1, <1>6, ConcatType
<1>8. Holds(buf, 6, (h \o d) \o p) /\ Holds(buf, 6 + Len((h \o d) \o p), a)
  BY <1>1, <1>3, <1>7, HoldsConcat
<1>9. Holds(buf, 6, h \o d) /\ Holds(buf, 6 + Len(h \o d), p)
  BY <1>1, <1>6, <1>8, HoldsConcat
<1>10. Holds(buf, 6, h) /\ Holds(buf, 6 + Len(h), d)
  BY <1>1, <1>9, HoldsConcat
<1>11. CommandNames[At(buf, 6)] = c.command
  <2>1. At(buf, 6) = CommandCode(c.command)
    BY <1>10, HoldsByte DEF h
  <2>2. CommandNames[CommandCode(c.command)] = c.command
    BY CommandFields, CommandCodes
  <2> QED
    BY <2>1, <2>2
<1>12. c.command \in WithData => GetString(buf, 7) = c.data
  <2> SUFFICES ASSUME c.command \in WithData PROVE GetString(buf, 7) = c.data
    OBVIOUS
  <2>1. Holds(buf, 7, PutString(c.data))
    BY <1>2, <1>10 DEF d, DataPart
  <2> QED
    BY <2>1, CommandFields, StringRead
<1>13. c.command \in WithPort => LittleEndian(buf, 7, 3) = c.port
  <2> SUFFICES ASSUME c.command \in WithPort PROVE LittleEndian(buf, 7, 3) = c.port
    OBVIOUS
  <2>1. 6 + Len(h \o d) = 7
    BY <1>2, <1>4, <1>6
  <2>2. Holds(buf, 7, PutPort(c.port))
    BY <1>9, <2>1 DEF p, PortPart
  <2> QED
    BY <2>2, CommandFields, PortRead
<1>14. c.command = "SW_TO_CLIENT" =>
          c.address = IF At(buf, 10) = IPV4 THEN [k \in 1 .. 4 |-> At(buf, 10 + k)]
                                            ELSE <<>>
  <2> SUFFICES ASSUME c.command = "SW_TO_CLIENT"
               PROVE  c.address = IF At(buf, 10) = IPV4
                                  THEN [k \in 1 .. 4 |-> At(buf, 10 + k)] ELSE <<>>
    OBVIOUS
  <2>1. c.command \in WithPort
    BY DEF WithPort
  <2>2. 6 + Len((h \o d) \o p) = 10
    <3>1. Len(h) = 1 /\ Len(d) = 0 /\ Len(p) = 3
      BY <1>2, <1>4, <1>5, <2>1
    <3> QED
      BY <1>6, <1>7, <3>1
  <2>3. Holds(buf, 10, <<Family(c.address)>> \o c.address)
    BY <1>8, <2>2 DEF a, ClientPart
  <2> QED
    BY <2>3, ClientRead
<1>15. command_deserialize(buf) =
          [type    |-> "CTL_COMMAND", command |-> c.command,
           data    |-> IF c.command \in WithData THEN GetString(buf, 7) ELSE <<>>,
           port    |-> IF c.command \in WithPort THEN LittleEndian(buf, 7, 3) ELSE 0,
           address |-> IF c.command = "SW_TO_CLIENT" /\ At(buf, 10) = IPV4
                       THEN [k \in 1 .. 4 |-> At(buf, 10 + k)] ELSE <<>>]
  BY <1>11 DEF command_deserialize
<1>16. (IF c.command = "SW_TO_CLIENT" /\ At(buf, 10) = IPV4
        THEN [k \in 1 .. 4 |-> At(buf, 10 + k)] ELSE <<>>)
           = IF c.command = "SW_TO_CLIENT" THEN c.address ELSE <<>>
  BY <1>14
<1> QED
  BY <1>12, <1>13, <1>15, <1>16, CommandImageFields

-----------------------------------------------------------------------------
\* The parsers together

LEMMA BaseFrame ==
    ASSUME NEW p \in BasePackets
    PROVE  /\ IsFrame(serialize(p)) /\ Len(serialize(p)) = 5
           /\ serialize(p)[3] = TypeCode[p.type]
           /\ p.type \in DOMAIN TypeCode /\ p = [type |-> p.type]
           /\ p.type \notin {"HTTP_SYNC", "XT_RECENT_SYNC", "CTL_COMMAND", "XT_RECENT_TABLE"}
<1>1. /\ p.type \in {"CONNECT", "DISCONNECT", "GENERIC", "SYNC_REQUEST"}
      /\ p = [type |-> p.type]
  BY DEF BasePackets
<1>2. p.type \in DOMAIN TypeCode
  BY <1>1 DEF TypeCode
<1>3. p.type \notin {"HTTP_SYNC", "XT_RECENT_SYNC", "CTL_COMMAND", "XT_RECENT_TABLE"}
  BY <1>1
<1>4. PICK t : t = TypeCode[p.type]
  OBVIOUS
<1>5. serialize(p) = <<239, 171, t, 0, 0>>
  BY <1>3, <1>4 DEF serialize, base_serialize
<1>6. t \in Bytes /\ 239 \in Bytes /\ 171 \in Bytes /\ 0 \in Bytes
  BY <1>2, <1>4, TypeCodes DEF Bytes
<1>7. <<239, 171, t, 0, 0>> \in Seq(Bytes) /\ Len(<<239, 171, t, 0, 0>>) = 5
  BY <1>6
<1>8. /\ <<239, 171, t, 0, 0>>[3] = t
      /\ <<239, 171, t, 0, 0>>[4] + 256 * <<239, 171, t, 0, 0>>[5] = 0
  OBVIOUS
<1>9. IsFrame(<<239, 171, t, 0, 0>>)
  BY <1>7, <1>8 DEF IsFrame
<1> QED
  BY <1>1, <1>2, <1>3, <1>4, <1>5, <1>7, <1>8, <1>9

LEMMA HttpFrame ==
    ASSUME NEW p \in HttpPackets, NEW w \in Seq(Bytes)
    PROVE  /\ IsFrame(serialize(p)) /\ Reduced(p).type = "HTTP_SYNC"
           /\ deserialize(serialize(p) \o w) = Parsed(Reduced(p), Len(serialize(p)))
           /\ pound_deserialize(serialize(p) \o w) = Parsed(Reduced(p), Len(serialize(p)))
<1> DEFINE body == HttpBody(p)
           f == Framed("HTTP_SYNC", body)
           buf == f \o w
<1>1. body \in Seq(Bytes) /\ Len(body) <= 65000
  BY HttpBodyType
<1>2. p.type = "HTTP_SYNC"
  BY HttpFields
<1>3. serialize(p) = f
  BY <1>2, HttpBodyType DEF serialize
<1>4. "HTTP_SYNC" \in DOMAIN TypeCode
  BY DEF TypeCode
<1>5. Reduced(p) = HttpImage(p)
  BY <1>2 DEF Reduced
<1>6. HttpImage(p).type = "HTTP_SYNC"
  BY HttpImageFields
<1> HIDE DEF body
<1>7. IsFrame(f) /\ Len(f) = 5 + Len(body)
  BY <1>1, <1>4, FramedIsFrame
<1>8. buf \in Seq(Bytes) /\ Complete(buf) /\ TypeOf(buf) = "HTTP_SYNC" /\ Holds(buf, 6, body)
  BY <1>1, <1>4, FramedRead
<1> HIDE DEF f, buf
<1>9. http_deserialize(buf) = Parsed(HttpImage(p), 5 + Len(body))
  BY <1>8, HttpRead DEF body
<1>10. deserialize(buf) = http_deserialize(buf)
  BY <1>8 DEF deserialize
<1>11. pound_deserialize(buf) = http_deserialize(buf)
  BY <1>8 DEF pound_deserialize
<1> QED
  BY <1>3, <1>5, <1>6, <1>7, <1>9, <1>10, <1>11 DEF buf

LEMMA RecentFrame ==
    ASSUME NEW p \in RecentPackets, NEW w \in Seq(Bytes)
    PROVE  /\ IsFrame(serialize(p)) /\ Reduced(p).type = "XT_RECENT_SYNC"
           /\ deserialize(serialize(p) \o w) = Parsed(Reduced(p), Len(serialize(p)))
<1> DEFINE body == RecentBody(p)
           f == Framed("XT_RECENT_SYNC", body)
           buf == f \o w
<1>1. body \in Seq(Bytes) /\ Len(body) <= 65000
  BY RecentBodyType
<1>2. p.type = "XT_RECENT_SYNC"
  BY RecentFields
<1>3. serialize(p) = f
  BY <1>2, RecentBodyType DEF serialize
<1>4. "XT_RECENT_SYNC" \in DOMAIN TypeCode
  BY DEF TypeCode
<1>5. Reduced(p) = RecentImage(p)
  BY <1>2 DEF Reduced
<1>6. RecentImage(p).type = "XT_RECENT_SYNC"
  BY RecentImageFields
<1> HIDE DEF body
<1>7. IsFrame(f) /\ Len(f) = 5 + Len(body)
  BY <1>1, <1>4, FramedIsFrame
<1>8. /\ buf \in Seq(Bytes) /\ Complete(buf) /\ TypeOf(buf) = "XT_RECENT_SYNC"
      /\ Holds(buf, 6, body)
  BY <1>1, <1>4, FramedRead
<1> HIDE DEF f, buf
<1>9. recent_deserialize(buf) = Parsed(RecentImage(p), 5 + Len(body))
  BY <1>8, RecentRead DEF body
<1>10. deserialize(buf) = recent_deserialize(buf)
  BY <1>8 DEF deserialize
<1> QED
  BY <1>3, <1>5, <1>6, <1>7, <1>9, <1>10 DEF buf

LEMMA BaseRead ==
    ASSUME NEW p \in BasePackets, NEW w \in Seq(Bytes)
    PROVE  /\ Reduced(p) = p
           /\ deserialize(serialize(p) \o w) = Parsed(p, Len(serialize(p)))
<1> DEFINE f == serialize(p)
           buf == f \o w
<1>1. IsFrame(f) /\ Len(f) = 5 /\ f[3] = TypeCode[p.type]
  BY BaseFrame
<1>2. /\ p.type \in DOMAIN TypeCode /\ p = [type |-> p.type]
      /\ p.type \notin {"HTTP_SYNC", "XT_RECENT_SYNC", "CTL_COMMAND", "XT_RECENT_TABLE"}
  BY BaseFrame
<1>3. Reduced(p) = p
  BY <1>2 DEF Reduced
<1> HIDE DEF f
<1>4. Complete(buf)
  BY <1>1, FrameWhole
<1>5. TypeOf(buf) = p.type
  BY <1>1, <1>2, FrameType, TypeCodes
<1> HIDE DEF buf
<1>6. deserialize(buf) = base_deserialize(buf)
  BY <1>2, <1>4, <1>5 DEF deserialize
<1>7. base_deserialize(buf) = Parsed(p, 5)
  BY <1>2, <1>5 DEF base_deserialize, HeaderSize
<1> QED
  BY <1>1, <1>3, <1>6, <1>7 DEF buf, f

(***************************************************************************)
(* Every packet with room in its format is read back, and with it the      *)
(* number of bytes it takes, whatever follows it in the buffer.  What is   *)
(* read is the packet but for the fields that do not go over the wire.     *)
(***************************************************************************)
THEOREM PacketsReadBack ==
    ASSUME NEW p \in Packets, NEW w \in Seq(Bytes)
    PROVE  deserialize(serialize(p) \o w) = Parsed(Reduced(p), Len(serialize(p)))
<1>1. CASE p \in BasePackets
  BY <1>1, BaseRead
<1>2. CASE p \in HttpPackets
  BY <1>2, HttpFrame
<1>3. CASE p \in RecentPackets
  BY <1>3, RecentFrame
<1> QED
  BY <1>1, <1>2, <1>3 DEF Packets

(***************************************************************************)
(* The daemon reads the command it was sent, with the arguments this       *)
(* command takes.                                                          *)
(***************************************************************************)
THEOREM CommandsReadBack ==
    ASSUME NEW c \in CommandPackets
    PROVE  /\ Complete(command_serialize(c))
           /\ command_deserialize(command_serialize(c)) = Reduced(c)
<1> DEFINE body == CommandBody(c)
           f == Framed("CTL_COMMAND", body)
<1>1. body \in Seq(Bytes) /\ Len(body) <= 65000 /\ command_serialize(c) = f
  BY CommandBodyType
<1>2. "CTL_COMMAND" \in DOMAIN TypeCode /\ <<>> \in Seq(Bytes)
  BY DEF TypeCode
<1>3. Reduced(c) = CommandImage(c)
  <2>1. c.type = "CTL_COMMAND"
    BY CommandFields
  <2> QED
    BY <2>1 DEF Reduced
<1> HIDE DEF body
<1>4. IsFrame(f)
  BY <1>1, <1>2, FramedIsFrame
<1>5. f \o <<>> = f
  <2>1. f \in Seq(Bytes)
    BY <1>4 DEF IsFrame
  <2> HIDE DEF f
  <2> QED
    BY <2>1
<1>5a. /\ f \o <<>> \in Seq(Bytes) /\ Complete(f \o <<>>)
       /\ Holds(f \o <<>>, 6, body)
  <2>1. body \in Seq(Bytes) /\ Len(body) <= 65000
    BY <1>1
  <2>2. PICK w \in Seq(Bytes) : w = <<>>
    BY <1>2
  <2>3. f \o w \in Seq(Bytes) /\ Complete(f \o w) /\ Holds(f \o w, 6, body)
    BY <1>2, <2>1, FramedRead
  <2> HIDE DEF f
  <2> QED
    BY <2>2, <2>3
<1> HIDE DEF f
<1>6. f \in Seq(Bytes) /\ Complete(f) /\ Holds(f, 6, body)
  BY <1>5, <1>5a
<1>7. command_deserialize(f) = CommandImage(c)
  BY <1>6, CommandRead DEF body
<1> QED
  BY <1>1, <1>3, <1>6, <1>7

LEMMA PacketFacts ==
    ASSUME NEW p \in Packets
    PROVE  /\ IsFrame(serialize(p)) /\ serialize(p) \in Seq(Bytes)
           /\ Reduced(p).type \in DOMAIN TypeCode
<1>1. {"HTTP_SYNC", "XT_RECENT_SYNC"} \subseteq DOMAIN TypeCode /\ <<>> \in Seq(Bytes)
  BY DEF TypeCode
<1>2. IsFrame(serialize(p)) /\ Reduced(p).type \in DOMAIN TypeCode
  <2>1. CASE p \in BasePackets
    BY <1>1, <2>1, BaseFrame, BaseRead
  <2>2. CASE p \in HttpPackets
    BY <1>1, <2>2, HttpFrame
  <2>3. CASE p \in RecentPackets
    BY <1>1, <2>3, RecentFrame
  <2> QED
    BY <2>1, <2>2, <2>3 DEF Packets
<1> QED
  BY <1>2 DEF IsFrame

LEMMA CommandType ==
    ASSUME NEW c \in CommandPackets
    PROVE  Reduced(c).type \in DOMAIN TypeCode /\ command_serialize(c) \in Seq(Bytes)
<1>1. Reduced(c) = CommandImage(c)
  <2>1. c.type = "CTL_COMMAND"
    BY CommandFields
  <2> QED
    BY <2>1 DEF Reduced
<1>2. CommandImage(c).type = "CTL_COMMAND"
  BY CommandImageFields
<1>3. "CTL_COMMAND" \in DOMAIN TypeCode
  BY DEF TypeCode
<1>4. command_serialize(c) \in Seq(Bytes)
  <2>1. /\ CommandBody(c) \in Seq(Bytes) /\ Len(CommandBody(c)) <= 65000
        /\ command_serialize(c) = Framed("CTL_COMMAND", CommandBody(c))
    BY CommandBodyType
  <2> QED
    BY <1>3, <2>1, FramedIsFrame DEF IsFrame
<1> QED
  BY <1>1, <1>2, <1>3, <1>4

-----------------------------------------------------------------------------
\* Packets, one after the other

BehindStep == [p \in Packets |-> [s \in Seq(Bytes) |-> s \o serialize(p)]]

LEMMA BehindStepType == BehindStep \in [Packets -> [Seq(Bytes) -> Seq(Bytes)]]
<1>1. ASSUME NEW p \in Packets, NEW s \in Seq(Bytes) PROVE s \o serialize(p) \in Seq(Bytes)
  <2>1. serialize(p) \in Seq(Bytes)
    BY PacketFacts
  <2> QED
    BY <2>1, ConcatType
<1> QED
  BY <1>1 DEF BehindStep

LEMMA BehindFold ==
    ASSUME NEW st \in Seq(Bytes), NEW q \in Seq(Packets)
    PROVE  FoldLeft(Behind, st, q) = Result(Seq(Bytes), BehindStep, st, q)
<1> DEFINE n == Len(q)
           V == Seq(Bytes)
           Eq(g) == g = [s \in SUBSET (DOMAIN q) |->
                           IF s = {} THEN st
                           ELSE Behind(g[s \ {Max(s)}], q[Max(s)])]
           c == CHOOSE g : Eq(g)
<1>1. FoldLeft(Behind, st, q) = c[DOMAIN q]
  BY DEF FoldLeft, MapThenFoldSet
<1>2. n \in Nat /\ DOMAIN q = 1 .. n /\ \A i \in 1 .. n : q[i] \in Packets
  OBVIOUS
<1> HIDE DEF n, V
<1>3. ASSUME NEW s \in SUBSET (1 .. n), s # {}
      PROVE  Max(s) \in s /\ q[Max(s)] \in Packets /\ s \ {Max(s)} \in SUBSET (1 .. n)
  <2>1. Max(s) \in s
    BY <1>2, <1>3, MaxOf
  <2> QED
    BY <1>2, <2>1
<1>4. PICK g : Folds(n, g, V, BehindStep, st, q)
  BY BehindStepType, FoldingFunction DEF n, V
<1>5. /\ g \in [SUBSET (1 .. n) -> V] /\ g[{}] = st
      /\ \A s \in SUBSET (1 .. n) :
            s # {} => g[s] = BehindStep[q[Max(s)]][g[s \ {Max(s)}]]
  BY <1>4 DEF Folds
<1>6. Eq(g)
  <2> DEFINE body(s) == IF s = {} THEN st ELSE Behind(g[s \ {Max(s)}], q[Max(s)])
  <2>1. ASSUME NEW s \in SUBSET (1 .. n) PROVE g[s] = body(s)
    <3>1. CASE s = {}
      BY <1>5, <3>1
    <3>2. CASE s # {}
      <4>1. q[Max(s)] \in Packets /\ g[s \ {Max(s)}] \in V
        BY <1>3, <1>5, <3>2
      <4>2. g[s] = BehindStep[q[Max(s)]][g[s \ {Max(s)}]]
        BY <1>5, <3>2
      <4>3. g[s] = Behind(g[s \ {Max(s)}], q[Max(s)])
        BY <4>1, <4>2 DEF BehindStep, Behind, V
      <4> QED
        BY <3>2, <4>3
    <3> QED
      BY <3>1, <3>2
  <2> HIDE DEF body
  <2>2. g = [s \in SUBSET (1 .. n) |-> body(s)]
    BY <1>5, <2>1
  <2> QED
    BY <1>2, <2>2 DEF body
<1>7. Eq(c)
  <2> HIDE DEF Eq
  <2> QED
    BY <1>6
<1> HIDE DEF c
<1>8. \A s \in SUBSET (1 .. n) :
         c[s] = IF s = {} THEN st ELSE Behind(c[s \ {Max(s)}], q[Max(s)])
  BY <1>2, <1>7
<1>9. c[{}] = st
  BY <1>8
<1>10. \A s \in SUBSET (1 .. n) :
          s # {} /\ c[s \ {Max(s)}] \in V =>
             c[s] = BehindStep[q[Max(s)]][c[s \ {Max(s)}]]
  <2> SUFFICES ASSUME NEW s \in SUBSET (1 .. n), s # {}, c[s \ {Max(s)}] \in V
               PROVE  c[s] = BehindStep[q[Max(s)]][c[s \ {Max(s)}]]
    OBVIOUS
  <2>1. c[s] = Behind(c[s \ {Max(s)}], q[Max(s)])
    BY <1>8
  <2>2. q[Max(s)] \in Packets
    BY <1>3
  <2> QED
    BY <2>1, <2>2 DEF BehindStep, Behind, V
<1>11. c[1 .. n] = Result(V, BehindStep, st, q)
  <2>1. FoldsIn(c, V, BehindStep, st, q)
    BY <1>9, <1>10 DEF n, FoldsIn
  <2>2. c[1 .. Len(q)] = Result(V, BehindStep, st, q)
    BY <2>1, BehindStepType, FoldValue DEF V
  <2> QED
    BY <2>2 DEF n
<1> QED
  BY <1>1, <1>2, <1>11 DEF V

LEMMA FlatIs ==
    ASSUME NEW q \in Seq(Packets)
    PROVE  Flat(q) = Result(Seq(Bytes), BehindStep, <<>>, q) /\ Flat(q) \in Seq(Bytes)
<1>1. <<>> \in Seq(Bytes)
  OBVIOUS
<1>2. Flat(q) = Result(Seq(Bytes), BehindStep, <<>>, q)
  BY <1>1, BehindFold DEF Flat
<1>3. Result(Seq(Bytes), BehindStep, <<>>, q) \in Seq(Bytes)
  BY <1>1, BehindStepType, ResultType
<1> QED
  BY <1>2, <1>3

LEMMA FlatNil == Flat(<<>>) = <<>>
<1>1. <<>> \in Seq(Bytes) /\ <<>> \in Seq(Packets)
  OBVIOUS
<1>2. Result(Seq(Bytes), BehindStep, <<>>, <<>>) = <<>>
  BY <1>1, BehindStepType, ResultEmpty
<1> QED
  BY <1>1, <1>2, FlatIs

LEMMA FlatAppend ==
    ASSUME NEW q \in Seq(Packets), NEW p \in Packets
    PROVE  Flat(Append(q, p)) = Flat(q) \o serialize(p)
<1>1. <<>> \in Seq(Bytes) /\ Append(q, p) \in Seq(Packets)
  OBVIOUS
<1>2. Result(Seq(Bytes), BehindStep, <<>>, Append(q, p)) =
         BehindStep[p][Result(Seq(Bytes), BehindStep, <<>>, q)]
  <2> DEFINE V == Seq(Bytes)
  <2>1. PICK e \in V : e = <<>>
    BY <1>1
  <2>2. BehindStep \in [Packets -> [V -> V]]
    BY BehindStepType
  <2> HIDE DEF V
  <2>3. Result(V, BehindStep, e, Append(q, p)) = BehindStep[p][Result(V, BehindStep, e, q)]
    BY <2>2, ResultAppend
  <2> QED
    BY <2>1, <2>3 DEF V
<1>3. Flat(Append(q, p)) = BehindStep[p][Flat(q)] /\ Flat(q) \in Seq(Bytes)
  BY <1>1, <1>2, FlatIs
<1> QED
  BY <1>3 DEF BehindStep

(***************************************************************************)
(* What was written first stays in front.                                  *)
(***************************************************************************)
LEMMA FlatFrom ==
    ASSUME NEW v \in Seq(Bytes), NEW q \in Seq(Packets)
    PROVE  Result(Seq(Bytes), BehindStep, v, q) = v \o Flat(q)
<1> DEFINE n == Len(q)
           V == Seq(Bytes)
<1>1. n \in Nat /\ \A i \in 0 .. n - 1 : i \in 0 .. n /\ i + 1 \in 0 .. n /\ i + 1 \in 1 .. n
  OBVIOUS
<1>2. \A i \in 1 .. n : q[i] \in Packets
  OBVIOUS
<1>3. <<>> \in V
  OBVIOUS
<1> HIDE DEF n
<1>4. PICK g : IsRun(g, V, BehindStep, <<>>, q)
  BY <1>3, BehindStepType, RunExists
<1>5. /\ g \in [0 .. n -> V] /\ g[0] = <<>>
      /\ \A i \in 0 .. n - 1 : g[i + 1] = BehindStep[q[i + 1]][g[i]]
  BY <1>4 DEF IsRun, n
<1>6. Flat(q) = g[n]
  <2>1. Result(V, BehindStep, <<>>, q) = g[n]
    <3>1. PICK e \in V : e = <<>>
      BY <1>3
    <3>2. BehindStep \in [Packets -> [V -> V]]
      BY BehindStepType
    <3>3. IsRun(g, V, BehindStep, e, q)
      BY <1>4, <3>1
    <3> HIDE DEF V
    <3>4. Result(V, BehindStep, e, q) = g[Len(q)]
      BY <3>2, <3>3, ResultRun
    <3> QED
      BY <3>1, <3>4 DEF n
  <2> QED
    BY <2>1, FlatIs
<1> DEFINE h == [i \in 0 .. n |-> v \o g[i]]
<1>7. h \in [0 .. n -> V]
  <2>1. ASSUME NEW i \in 0 .. n PROVE v \o g[i] \in V
    <3>1. g[i] \in V
      BY <1>5
    <3> QED
      BY <3>1, ConcatType
  <2> HIDE DEF V
  <2> QED
    BY <2>1
<1>8. h[0] = v
  <2>1. 0 \in 0 .. n /\ v \o <<>> = v
    BY <1>1
  <2> QED
    BY <1>5, <2>1
<1>9. ASSUME NEW i \in 0 .. n - 1 PROVE h[i + 1] = BehindStep[q[i + 1]][h[i]]
  <2>1. i \in 0 .. n /\ i + 1 \in 0 .. n /\ q[i + 1] \in Packets
    BY <1>1, <1>2
  <2>2. g[i] \in V /\ serialize(q[i + 1]) \in V
    BY <1>5, <2>1, PacketFacts
  <2>3. g[i + 1] = g[i] \o serialize(q[i + 1])
    <3>1. g[i + 1] = BehindStep[q[i + 1]][g[i]]
      BY <1>5
    <3> QED
      BY <2>1, <2>2, <3>1 DEF BehindStep
  <2>4. v \o (g[i] \o serialize(q[i + 1])) = (v \o g[i]) \o serialize(q[i + 1])
    <3>1. PICK a \in V, b \in V : a = g[i] /\ b = serialize(q[i + 1])
      BY <2>2
    <3>2. (v \o a) \o b = v \o (a \o b)
      BY ConcatAssoc
    <3> QED
      BY <3>1, <3>2
  <2>5. h[i] = v \o g[i] /\ h[i + 1] = v \o g[i + 1] /\ h[i] \in V
    BY <1>7, <2>1
  <2> HIDE DEF h
  <2>6. BehindStep[q[i + 1]][h[i]] = h[i] \o serialize(q[i + 1])
    BY <2>1, <2>5 DEF BehindStep
  <2> QED
    BY <2>3, <2>4, <2>5, <2>6
<1> HIDE DEF h, V
<1>10. IsRun(h, V, BehindStep, v, q)
  BY <1>7, <1>8, <1>9 DEF IsRun, n
<1>11. Result(V, BehindStep, v, q) = h[n]
  BY <1>10, BehindStepType, ResultRun DEF n, V
<1>12. h[n] = v \o g[n]
  <2>1. n \in 0 .. n
    BY <1>1
  <2> QED
    BY <2>1 DEF h
<1> QED
  BY <1>6, <1>11, <1>12 DEF V

LEMMA FlatHead ==
    ASSUME NEW q \in Seq(Packets), q # <<>>
    PROVE  /\ Head(q) \in Packets /\ Tail(q) \in Seq(Packets)
           /\ Flat(q) = serialize(Head(q)) \o Flat(Tail(q))
<1> DEFINE p == Head(q)
           v == serialize(p)
<1>1. p \in Packets /\ Tail(q) \in Seq(Packets) /\ <<>> \in Seq(Bytes)
  OBVIOUS
<1>2. v \in Seq(Bytes)
  BY <1>1, PacketFacts
<1>3. BehindStep[p][<<>>] = v
  <2>1. BehindStep[p][<<>>] = <<>> \o v
    BY <1>1 DEF BehindStep
  <2>2. <<>> \o v = v
    <3> HIDE DEF v
    <3> QED
      BY <1>2
  <2> QED
    BY <2>1, <2>2
<1>4. Result(Seq(Bytes), BehindStep, <<>>, q)
         = Result(Seq(Bytes), BehindStep, BehindStep[p][<<>>], Tail(q))
  <2> DEFINE V == Seq(Bytes)
  <2>1. PICK e \in V : e = <<>>
    BY <1>1
  <2>2. BehindStep \in [Packets -> [V -> V]]
    BY BehindStepType
  <2> HIDE DEF V
  <2>3. Result(V, BehindStep, e, q) = Result(V, BehindStep, BehindStep[p][e], Tail(q))
    BY <2>2, ResultTail
  <2> QED
    BY <2>1, <2>3 DEF V
<1> HIDE DEF v
<1>5. Result(Seq(Bytes), BehindStep, v, Tail(q)) = v \o Flat(Tail(q))
  BY <1>1, <1>2, FlatFrom
<1>6. Flat(q) = v \o Flat(Tail(q))
  BY <1>3, <1>4, <1>5, FlatIs
<1> QED
  BY <1>1, <1>6 DEF v

-----------------------------------------------------------------------------
\* Cutting sequences

\* c is in front of what a and b hold together.
InFront(a, b, c, d) ==
    /\ a \in Seq(Bytes) /\ b \in Seq(Bytes) /\ c \in Seq(Bytes) /\ d \in Seq(Bytes)
    /\ a \o b = c \o d /\ Len(a) >= Len(c)

\* What is behind it in a
BehindIt(a, b, c, d) ==
    LET r == SubSeq(a, Len(c) + 1, Len(a))
    IN  r \in Seq(Bytes) /\ Len(r) = Len(a) - Len(c) /\ r \o b = d

LEMMA CutBehind ==
    ASSUME NEW a, NEW b, NEW c, NEW d, InFront(a, b, c, d)
    PROVE  BehindIt(a, b, c, d)
<1> DEFINE n == Len(a)
           m == Len(c)
           r == SubSeq(a, m + 1, n)
<1>0. a \in Seq(Bytes) /\ b \in Seq(Bytes) /\ c \in Seq(Bytes) /\ d \in Seq(Bytes)
  BY DEF InFront
<1>0a. a \o b = c \o d /\ n >= m
  BY DEF InFront
<1>1. /\ n \in Nat /\ m \in Nat /\ n >= m
      /\ Len(b) \in Nat /\ Len(d) \in Nat
  BY <1>0, <1>0a
<1>2. n + Len(b) = m + Len(d)
  <2>1. Len(a \o b) = n + Len(b)
    BY <1>0, ConcatType
  <2>2. Len(c \o d) = m + Len(d)
    BY <1>0, ConcatType
  <2> QED
    BY <1>0a, <2>1, <2>2
<1>3. r \in Seq(Bytes) /\ Len(r) = n - m /\ \A k \in 1 .. n - m : r[k] = a[m + k]
  BY <1>0, <1>1
<1>4. \A k \in 1 .. n + Len(b) : (a \o b)[k] = IF k <= n THEN a[k] ELSE b[k - n]
  BY <1>0
<1>5. \A k \in 1 .. m + Len(d) : (c \o d)[k] = IF k <= m THEN c[k] ELSE d[k - m]
  BY <1>0
<1> HIDE DEF r, n, m
<1>6. PICK i, j : i = Len(b) /\ j = Len(d)
  OBVIOUS
<1>7. i \in Nat /\ j \in Nat /\ n + i = m + j
  BY <1>1, <1>2, <1>6
<1>8. r \o b \in Seq(Bytes) /\ Len(r \o b) = j
  <2>1. r \o b \in Seq(Bytes) /\ Len(r \o b) = Len(r) + Len(b)
    BY <1>0, <1>3, ConcatType
  <2>2. Len(r \o b) = (n - m) + i
    BY <1>3, <1>6, <2>1
  <2>3. (n - m) + i = j
    BY <1>1, <1>7
  <2> QED
    BY <2>1, <2>2, <2>3
<1>9. ASSUME NEW k \in 1 .. j PROVE (r \o b)[k] = d[k]
  <2>1. m + k \in 1 .. m + j /\ m + k \in 1 .. n + i /\ ~(m + k <= m) /\ (m + k) - m = k
    BY <1>1, <1>7
  <2>2. (c \o d)[m + k] = d[k]
    BY <1>5, <1>6, <2>1
  <2>3. (c \o d)[m + k] = IF m + k <= n THEN a[m + k] ELSE b[(m + k) - n]
    BY <1>0a, <1>4, <1>6, <2>1
  <2>4. CASE m + k <= n
    <3>1. k \in 1 .. n - m
      BY <1>1, <1>7, <2>4
    <3>2. (r \o b)[k] = r[k]
      BY <1>3, <3>1
    <3> QED
      BY <1>3, <2>2, <2>3, <2>4, <3>1, <3>2
  <2>5. CASE ~(m + k <= n)
    <3>1. k - (n - m) \in 1 .. i /\ k - (n - m) = (m + k) - n
      BY <1>1, <1>7, <2>5
    <3>2. (r \o b)[k] = b[k - (n - m)]
      <4>1. k > n - m /\ k <= (n - m) + i /\ n - m \in Nat
        BY <1>1, <1>7, <2>5
      <4>2. PICK l \in Nat : l = n - m
        BY <4>1
      <4>3. Len(r) = l /\ r \in Seq(Bytes) /\ k > l /\ k <= l + Len(b) /\ k \in Nat
        BY <1>3, <1>6, <4>1, <4>2
      <4>4. (r \o b)[k] = b[k - l]
        BY <1>0, <4>3
      <4> QED
        BY <4>2, <4>4
    <3> QED
      BY <2>2, <2>3, <2>5, <3>1, <3>2
  <2> QED
    BY <2>4, <2>5
<1>10. r \o b = d
  <2>1. \A k \in 1 .. Len(r \o b) : (r \o b)[k] = d[k]
    BY <1>8, <1>9
  <2>2. Len(r \o b) = Len(d)
    BY <1>6, <1>8
  <2> QED
    BY <1>0, <1>8, <2>1, <2>2, SeqEqual
<1> QED
  BY <1>3, <1>10 DEF r, n, m, BehindIt

LEMMA CutWire ==
    ASSUME NEW S, NEW w \in Seq(S), NEW n \in 1 .. Len(w)
    PROVE  /\ SubSeq(w, 1, n) \in Seq(S) /\ Len(SubSeq(w, 1, n)) = n
           /\ SubSeq(w, n + 1, Len(w)) \in Seq(S)
           /\ SubSeq(w, 1, n) \o SubSeq(w, n + 1, Len(w)) = w
<1> DEFINE a == SubSeq(w, 1, n)
           b == SubSeq(w, n + 1, Len(w))
           l == Len(w)
<1>1. /\ a \in Seq(S) /\ Len(a) = n /\ \A k \in 1 .. n : a[k] = w[k]
      /\ b \in Seq(S) /\ Len(b) = l - n /\ \A k \in 1 .. l - n : b[k] = w[n + k]
      /\ l \in Nat
  OBVIOUS
<1> HIDE DEF a, b, l
<1>2. a \o b \in Seq(S) /\ Len(a \o b) = l
  <2>1. a \o b \in Seq(S) /\ Len(a \o b) = Len(a) + Len(b)
    BY <1>1, ConcatType
  <2>2. Len(a) = n /\ Len(b) = l - n /\ l \in Nat
    BY <1>1
  <2>3. n + (l - n) = l
    BY <2>2 DEF l
  <2> QED
    BY <2>1, <2>2, <2>3
<1>3. ASSUME NEW k \in 1 .. l PROVE (a \o b)[k] = w[k]
  <2>1. CASE k <= n
    BY <1>1, <2>1
  <2>2. CASE ~(k <= n)
    <3>1. k - n \in 1 .. l - n /\ n + (k - n) = k
      BY <1>1, <2>2
    <3>2. (a \o b)[k] = b[k - n]
      BY <1>1, <2>2
    <3> QED
      BY <1>1, <3>1, <3>2
  <2> QED
    BY <2>1, <2>2
<1>4. a \o b = w
  BY <1>2, <1>3, SeqEqual DEF l
<1> QED
  BY <1>1, <1>4 DEF a, b, l

\* What follows the first k elements
LEMMA SuffixFacts ==
    ASSUME NEW S, NEW s \in Seq(S), NEW k \in Nat, k <= Len(s)
    PROVE  LET r == SubSeq(s, k + 1, Len(s))
           IN  /\ r \in Seq(S)
               /\ k = Len(s) => r = <<>>
               /\ k < Len(s) => /\ r # <<>> /\ Head(r) = s[k + 1]
                                /\ Tail(r) = SubSeq(s, k + 2, Len(s))
<1> DEFINE n == Len(s)
           r == SubSeq(s, k + 1, n)
           t == SubSeq(s, k + 2, n)
<1>1. n \in Nat /\ k <= n /\ \A i \in 1 .. n : s[i] \in S
  OBVIOUS
<1>2. r \in Seq(S) /\ Len(r) = n - k /\ \A i \in 1 .. n - k : r[i] = s[k + i]
  OBVIOUS
<1>3. k < n => /\ t \in Seq(S) /\ Len(t) = n - (k + 1)
               /\ \A i \in 1 .. n - (k + 1) : t[i] = s[(k + 1) + i]
  <2> SUFFICES ASSUME k < n
               PROVE  /\ t \in Seq(S) /\ Len(t) = n - (k + 1)
                      /\ \A i \in 1 .. n - (k + 1) : t[i] = s[(k + 1) + i]
    OBVIOUS
  <2> QED
    OBVIOUS
<1> HIDE DEF r, t, n
<1>4. k = n => r = <<>>
  BY <1>1, <1>2
<1>5. ASSUME k < n PROVE r # <<>> /\ Head(r) = s[k + 1] /\ Tail(r) = t
  <2>1. r # <<>> /\ Head(r) = r[1] /\ 1 \in 1 .. n - k
    BY <1>1, <1>2, <1>5
  <2>2. Head(r) = s[k + 1]
    BY <1>2, <2>1
  <2> DEFINE u == Tail(r)
  <2>3. /\ u \in Seq(S) /\ Len(u) = (n - k) - 1
        /\ \A i \in 1 .. (n - k) - 1 : u[i] = r[i + 1]
    BY <1>2, <2>1
  <2> HIDE DEF u
  <2>4. (n - k) - 1 = n - (k + 1)
    BY <1>1
  <2>5. ASSUME NEW i \in 1 .. n - (k + 1) PROVE u[i] = t[i]
    <3>1. i + 1 \in 1 .. n - k /\ k + (i + 1) = (k + 1) + i
      BY <1>1
    <3>2. u[i] = s[k + (i + 1)]
      BY <1>2, <2>3, <2>4, <3>1
    <3> QED
      BY <1>3, <1>5, <3>1, <3>2
  <2>6. u = t
    <3>1. Len(u) = n - (k + 1) /\ Len(t) = n - (k + 1) /\ u \in Seq(S) /\ t \in Seq(S)
      BY <1>3, <1>5, <2>3, <2>4
    <3> QED
      BY <2>5, <3>1, SeqEqual
  <2> QED
    BY <2>1, <2>2, <2>6 DEF u
<1> QED
  BY <1>2, <1>4, <1>5 DEF r, t, n

LEMMA SuffixAppend ==
    ASSUME NEW S, NEW s \in Seq(S), NEW p \in S, NEW k \in Nat, k <= Len(s)
    PROVE  SubSeq(Append(s, p), k + 1, Len(Append(s, p)))
              = Append(SubSeq(s, k + 1, Len(s)), p)
<1> DEFINE n == Len(s)
           q == Append(s, p)
           r == SubSeq(s, k + 1, n)
           t == SubSeq(q, k + 1, n + 1)
           u == Append(r, p)
<1>1. /\ n \in Nat /\ k <= n
      /\ q \in Seq(S) /\ Len(q) = n + 1 /\ q[n + 1] = p
      /\ \A i \in 1 .. n : q[i] = s[i]
  OBVIOUS
<1>2. r \in Seq(S) /\ Len(r) = n - k /\ \A i \in 1 .. n - k : r[i] = s[k + i]
  OBVIOUS
<1> HIDE DEF q, r, n
<1>3. t \in Seq(S) /\ Len(t) = (n + 1) - k /\ \A i \in 1 .. (n + 1) - k : t[i] = q[k + i]
  BY <1>1
<1>4. /\ u \in Seq(S) /\ Len(u) = (n - k) + 1 /\ u[(n - k) + 1] = p
      /\ \A i \in 1 .. n - k : u[i] = r[i]
  BY <1>2
<1> HIDE DEF t, u
<1>5. ASSUME NEW i \in 1 .. (n + 1) - k PROVE t[i] = u[i]
  <2>1. CASE i \in 1 .. n - k
    <3>1. k + i \in 1 .. n
      BY <1>1, <2>1
    <3> QED
      BY <1>1, <1>2, <1>3, <1>4, <2>1, <3>1
  <2>2. CASE i \notin 1 .. n - k
    <3>0. n \in Int /\ k \in Int /\ i \in Int
      BY <1>1
    <3>1. i = (n - k) + 1 /\ k + i = n + 1
      BY <2>2, <3>0
    <3> QED
      BY <1>1, <1>3, <1>4, <3>1
  <2> QED
    BY <2>1, <2>2
<1>6. (n - k) + 1 = (n + 1) - k
  BY <1>1
<1>7. t = u
  BY <1>3, <1>4, <1>5, <1>6, SeqEqual
<1>8. Len(q) = n + 1
  BY <1>1
<1> QED
  BY <1>7, <1>8 DEF t, u, q, r, n

LEMMA MaxTwo ==
    ASSUME NEW a \in Nat, NEW b \in Nat
    PROVE  Max({a, b}) = IF a >= b THEN a ELSE b
<1>1. \E x \in {a, b} : \A y \in {a, b} : x >= y
  OBVIOUS
<1> DEFINE m == CHOOSE x \in {a, b} : \A y \in {a, b} : x >= y
<1>2. m \in {a, b} /\ \A y \in {a, b} : m >= y
  BY <1>1
<1>3. Max({a, b}) = m
  BY DEF Max
<1> HIDE DEF m
<1>4. m = IF a >= b THEN a ELSE b
  BY <1>2
<1> QED
  BY <1>3, <1>4

-----------------------------------------------------------------------------
\* The invariant

LEMMA Constants ==
    /\ BufSize \in Nat /\ BufSize >= 5
    /\ Outgoing \subseteq Packets /\ NodePackets \subseteq Packets
    /\ PoundPackets \subseteq Packets /\ PoundPackets \subseteq HttpPackets
    /\ Commands \subseteq CommandPackets
BY StreamAssumption DEF Outgoing, Packets, HeaderSize

LEMMA ImagesTyped ==
    ASSUME NEW x \in Images
    PROVE  x.type \in DOMAIN TypeCode
<1>1. PICK p \in Outgoing \cup Commands : x = Reduced(p)
  BY DEF Images
<1>2. p \in Packets \/ p \in CommandPackets
  BY <1>1, Constants
<1> QED
  BY <1>1, <1>2, PacketFacts, CommandType

LEMMA LongestBounds ==
    ASSUME NEW p \in Outgoing
    PROVE  /\ Longest \in Nat /\ Len(serialize(p)) <= Longest
           /\ Len(serialize(p)) \in Nat /\ Len(serialize(p)) >= 5
<1> DEFINE s == {Len(serialize(o)) : o \in Outgoing}
<1>1. ASSUME NEW o \in Outgoing
      PROVE  Len(serialize(o)) \in Nat /\ Len(serialize(o)) >= 5
             /\ Len(serialize(o)) <= 65535
  <2>1. IsFrame(serialize(o))
    BY Constants, PacketFacts
  <2> QED
    BY <2>1, FrameFacts
<1>2. \A x \in s : x \in Nat /\ x >= 5 /\ x <= 65535
  BY <1>1
<1>3. Len(serialize(p)) \in s
  OBVIOUS
<1>4. PICK n \in Nat : n = 65535
  OBVIOUS
<1>5. Longest = Max(s)
  BY DEF Longest
<1> HIDE DEF s
<1>6. s \in SUBSET (1 .. n) /\ s # {}
  <2>1. \A x, m \in Nat : x >= 5 /\ x <= m => x \in 1 .. m
    OBVIOUS
  <2>2. \A x \in s : x \in Nat /\ x >= 5 /\ x <= n
    BY <1>2, <1>4
  <2>3. \A x \in s : x \in 1 .. n
    BY <2>1, <2>2, Zenon
  <2> QED
    BY <1>3, <2>3
<1>7. Max(s) \in s /\ \A y \in s : y <= Max(s)
  BY <1>6, MaxOf
<1> QED
  BY <1>1, <1>2, <1>3, <1>5, <1>7

LEMMA InvFacts ==
    ASSUME StreamInv
    PROVE  /\ buffer \in Seq(Bytes) /\ wire \in Seq(Bytes) /\ Len(buffer) \in Nat
           /\ Len(buffer) <= BufSize /\ reader \in Readers
           /\ queue \in Seq(Images) /\ Len(queue) \in Nat /\ kept \in Nat /\ kept <= Len(queue)
           /\ sent \in Seq(Outgoing \cup Commands) /\ Len(sent) \in Nat /\ kept <= Len(sent)
           /\ peak \in Nat /\ peak <= BufSize /\ lost \in BOOLEAN
           /\ at \in {"recv", "parse", "closed", "answered"}
           /\ ~lost => kept = Len(queue)
           /\ \A i \in 1 .. kept : queue[i] = Reduced(sent[i])
<1>1. /\ buffer \in Seq(Bytes) /\ wire \in Seq(Bytes) /\ Len(buffer) <= BufSize
      /\ reader \in Readers /\ lost \in BOOLEAN
      /\ at \in {"recv", "parse", "closed", "answered"}
      /\ sent \in Seq(Outgoing \cup Commands)
  BY DEF StreamInv, StreamTypeOK
<1>2. kept \in 0 .. Len(queue) /\ peak \in 0 .. BufSize
  BY DEF StreamInv, StreamTypeOK
<1>3. /\ queue \in Seq(Images) /\ kept <= Len(sent)
      /\ ~lost => kept = Len(queue)
      /\ \A i \in 1 .. kept : queue[i] = Reduced(sent[i])
  BY DEF StreamInv, QueuedInOrder
<1>4. Len(queue) \in Nat
  BY <1>3
<1>5. Len(buffer) \in Nat /\ Len(sent) \in Nat
  BY <1>1
<1>6. kept \in Nat /\ kept <= Len(queue) /\ peak \in Nat /\ peak <= BufSize
  BY <1>2, <1>4, Constants
<1> QED
  BY <1>1, <1>3, <1>4, <1>5, <1>6

\* The packets of a node or of Pound
LEMMA SentPackets ==
    ASSUME StreamInv, reader # "ctl"
    PROVE  sent \in Seq(Packets) /\ \A i \in 1 .. Len(sent) : sent[i] \in Outgoing
<1>1. reader \in Readers
  BY InvFacts
<1>2. sent \in Seq(NodePackets) \/ sent \in Seq(PoundPackets)
  BY <1>1 DEF StreamInv, FromReader, Readers
<1>3. sent \in Seq(Outgoing)
  BY <1>2 DEF Outgoing
<1> QED
  BY <1>3, Constants

LEMMA UnreadFacts ==
    ASSUME StreamInv, reader # "ctl"
    PROVE  /\ Unmoved \in Nat /\ Unmoved <= Len(sent)
           /\ Unread \in Seq(Packets) /\ buffer \o wire = Flat(Unread)
           /\ lost => kept > 0 /\ Unmoved = kept - 1
           /\ ~lost => Unmoved = kept
<1>1. /\ kept \in Nat /\ kept <= Len(sent) /\ lost \in BOOLEAN /\ Len(sent) \in Nat
  BY InvFacts
<1>2. lost => kept > 0
  BY DEF StreamInv, StuckWhenFull
<1>3. Unmoved \in Nat /\ Unmoved <= Len(sent)
  BY <1>1, <1>2 DEF Unmoved
<1>4. Unread \in Seq(Packets)
  BY <1>3, SentPackets, SuffixFacts DEF Unread
<1>5. buffer \o wire = Flat(Unread)
  BY DEF StreamInv, BytesUnread
<1> QED
  BY <1>2, <1>3, <1>4, <1>5 DEF Unmoved

(***************************************************************************)
(* The buffer starts with the first packet not yet taken off it, or with   *)
(* as much of it as has arrived.                                           *)
(***************************************************************************)
LEMMA FirstPacket ==
    ASSUME StreamInv, reader # "ctl", Unmoved < Len(sent),
           NEW p, p = sent[Unmoved + 1]
    PROVE  /\ p \in Outgoing /\ IsFrame(serialize(p))
           /\ LET next == SubSeq(sent, Unmoved + 2, Len(sent))
              IN  /\ next \in Seq(Packets)
                  /\ buffer \o wire = serialize(p) \o Flat(next)
           /\ Complete(buffer) <=> Len(buffer) >= Len(serialize(p))
<1> DEFINE next == SubSeq(sent, Unmoved + 2, Len(sent))
<1>1. /\ Unmoved \in Nat /\ Unmoved <= Len(sent)
      /\ Unread \in Seq(Packets) /\ buffer \o wire = Flat(Unread)
  BY UnreadFacts
<1>2. sent \in Seq(Packets)
  BY SentPackets
<1>3. Unmoved + 1 \in 1 .. Len(sent)
  <2>1. Len(sent) \in Nat
    BY InvFacts
  <2> QED
    BY <1>1, <2>1
<1>4. p \in Outgoing
  BY <1>3, SentPackets
<1>5. Unread # <<>> /\ Head(Unread) = p /\ Tail(Unread) = next
  BY <1>1, <1>2, SuffixFacts DEF Unread
<1>6. /\ Tail(Unread) \in Seq(Packets)
      /\ Flat(Unread) = serialize(Head(Unread)) \o Flat(Tail(Unread))
  BY <1>1, <1>5, FlatHead
<1>7. IsFrame(serialize(p))
  BY <1>4, Constants, PacketFacts
<1> HIDE DEF next
<1>8. next \in Seq(Packets) /\ buffer \o wire = serialize(p) \o Flat(next)
  BY <1>1, <1>5, <1>6
<1>9. Flat(next) \in Seq(Bytes) /\ buffer \in Seq(Bytes) /\ wire \in Seq(Bytes)
  BY <1>8, InvFacts, FlatIs
<1>10. Complete(buffer) <=> Len(buffer) >= Len(serialize(p))
  BY <1>7, <1>8, <1>9, FrameCut
<1> QED
  BY <1>4, <1>7, <1>8, <1>10 DEF next

LEMMA NothingUnread ==
    ASSUME StreamInv, reader # "ctl", ~(Unmoved < Len(sent))
    PROVE  buffer = <<>> /\ wire = <<>>
<1>1. /\ Unmoved \in Nat /\ Unmoved <= Len(sent) /\ buffer \o wire = Flat(Unread)
  BY UnreadFacts
<1>2. Len(sent) \in Nat
  BY InvFacts
<1>3. Unmoved = Len(sent)
  BY <1>1, <1>2
<1>4. Unread = <<>>
  BY <1>1, <1>3, SentPackets, SuffixFacts DEF Unread
<1>5. buffer \o wire = <<>>
  BY <1>1, <1>4, FlatNil
<1>6. buffer \in Seq(Bytes) /\ wire \in Seq(Bytes)
  BY InvFacts
<1> QED
  BY <1>5, <1>6

(***************************************************************************)
(* A complete packet is the next one of those sent; both loops parse it    *)
(* and, when they move the rest to the front, the next one comes first.    *)
(***************************************************************************)
LEMMA NextPacket ==
    ASSUME StreamInv, reader # "ctl", Complete(buffer),
           NEW p, p = sent[Unmoved + 1]
    PROVE  /\ Unmoved < Len(sent) /\ p \in Outgoing
           /\ Len(serialize(p)) \in Nat /\ Len(serialize(p)) >= 5
           /\ Len(serialize(p)) <= Len(buffer)
           /\ deserialize(buffer) = Parsed(Reduced(p), Len(serialize(p)))
           /\ p \in PoundPackets =>
                 pound_deserialize(buffer) = Parsed(Reduced(p), Len(serialize(p)))
           /\ LET r == Rest(buffer, Len(serialize(p)))
              IN  /\ r \in Seq(Bytes) /\ Len(r) = Len(buffer) - Len(serialize(p))
                  /\ r \o wire = Flat(SubSeq(sent, Unmoved + 2, Len(sent)))
<1>1. buffer \in Seq(Bytes) /\ wire \in Seq(Bytes) /\ Len(buffer) \in Nat
  BY InvFacts
<1>2. Unmoved < Len(sent)
  <2> SUFFICES ASSUME ~(Unmoved < Len(sent)) PROVE FALSE
    OBVIOUS
  <2>1. buffer = <<>>
    BY NothingUnread
  <2>2. Len(buffer) = 0
    BY <2>1
  <2>3. Len(buffer) >= 5
    BY DEF Complete, HeaderSize
  <2> QED
    BY <2>2, <2>3
<1> DEFINE f == serialize(p)
           next == SubSeq(sent, Unmoved + 2, Len(sent))
           r == Rest(buffer, Len(f))
<1>3. /\ p \in Outgoing /\ IsFrame(f) /\ next \in Seq(Packets)
      /\ buffer \o wire = f \o Flat(next) /\ Len(buffer) >= Len(f)
  BY <1>2, FirstPacket
<1>4. f \in Seq(Bytes) /\ Len(f) \in Nat /\ Len(f) >= 5
  BY <1>3, FrameFacts
<1>5. Flat(next) \in Seq(Bytes)
  BY <1>3, FlatIs
<1> HIDE DEF f, next
<1>6. r \in Seq(Bytes) /\ Len(r) = Len(buffer) - Len(f) /\ r \o wire = Flat(next)
  <2>1. InFront(buffer, wire, f, Flat(next))
    BY <1>1, <1>3, <1>4, <1>5 DEF InFront
  <2>2. BehindIt(buffer, wire, f, Flat(next))
    BY <2>1, CutBehind
  <2> QED
    BY <2>2 DEF BehindIt, Rest
<1> HIDE DEF r
<1>7. buffer = f \o r
  <2>1. <<>> \in Seq(Bytes) /\ buffer \in Seq(Bytes)
    BY <1>1
  <2>2. f \o r \in Seq(Bytes) /\ Len(f \o r) = Len(f) + Len(r)
    BY <1>4, <1>6, ConcatType
  <2>3. Len(f \o r) = Len(buffer)
    BY <1>1, <1>4, <1>6, <2>2
  <2>4. (f \o r) \o wire = f \o (r \o wire)
    <3>1. f \in Seq(Bytes) /\ r \in Seq(Bytes) /\ wire \in Seq(Bytes)
      BY <1>1, <1>4, <1>6
    <3> QED
      BY <3>1, ConcatAssoc
  <2>5. buffer \o wire = (f \o r) \o wire
    BY <1>3, <1>6, <2>4
  <2>6. \A k \in 1 .. Len(buffer) : (buffer \o wire)[k] = buffer[k]
    BY <1>1, ConcatFront
  <2> DEFINE g == f \o r
  <2>7. g \in Seq(Bytes) /\ Len(g) = Len(buffer) /\ buffer \o wire = g \o wire
    BY <2>2, <2>3, <2>5
  <2> HIDE DEF g
  <2>8. \A k \in 1 .. Len(g) : (g \o wire)[k] = g[k]
    BY <1>1, <2>7, ConcatFront
  <2>9. \A k \in 1 .. Len(buffer) : buffer[k] = g[k]
    BY <2>6, <2>7, <2>8
  <2>10. buffer = g
    BY <2>1, <2>7, <2>9, SeqEqual
  <2> QED
    BY <2>10 DEF g
<1>8. p \in Packets
  BY <1>3, Constants
<1>9. deserialize(buffer) = Parsed(Reduced(p), Len(f))
  BY <1>6, <1>7, <1>8, PacketsReadBack DEF f
<1>10. p \in PoundPackets => pound_deserialize(buffer) = Parsed(Reduced(p), Len(f))
  BY <1>6, <1>7, Constants, HttpFrame DEF f
<1> QED
  BY <1>2, <1>3, <1>4, <1>6, <1>9, <1>10 DEF f, next, r

LEMMA NotNull ==
    ASSUME NEW x, NEW n \in Nat, n >= 5
    PROVE  Parsed(x, n) # NullPtr
<1>1. Parsed(x, n).used = n /\ NullPtr.used = 0
  BY DEF Parsed, NullPtr
<1>2. n # 0
  OBVIOUS
<1> QED
  BY <1>1, <1>2

-----------------------------------------------------------------------------
\* Every step keeps the invariant

LEMMA InitKeeps == StreamInit => StreamInv
<1> SUFFICES ASSUME StreamInit PROVE StreamInv
  OBVIOUS
<1>1. /\ reader \in Readers /\ sent = <<>> /\ wire = <<>> /\ buffer = <<>> /\ queue = <<>>
      /\ at = "recv" /\ lost = FALSE /\ kept = 0 /\ peak = 0
  BY DEF StreamInit
<1>2. /\ \A S : <<>> \in Seq(S) /\ Len(<<>>) = 0 /\ DOMAIN <<>> = {}
      /\ <<>> \o <<>> = <<>>
  OBVIOUS
<1>3. StreamTypeOK
  <2>1. /\ sent \in Seq(Outgoing \cup Commands) /\ wire \in Seq(Bytes)
        /\ buffer \in Seq(Bytes) /\ Len(buffer) = 0 /\ Len(queue) = 0
        /\ DOMAIN queue = {}
    BY <1>1, <1>2
  <2>2. BufSize \in Nat /\ 0 <= BufSize /\ 0 \in 0 .. BufSize /\ 0 \in 0 .. 0
    BY Constants
  <2>3. Len(buffer) <= BufSize /\ kept \in 0 .. Len(queue) /\ peak \in 0 .. BufSize
    BY <1>1, <2>1, <2>2
  <2>4. \A i \in DOMAIN queue : queue[i].type \in DOMAIN TypeCode
    BY <2>1
  <2> QED
    BY <1>1, <2>1, <2>3, <2>4 DEF StreamTypeOK
<1>4. FromReader
  BY <1>1, <1>2 DEF FromReader
<1>5. QueuedInOrder
  BY <1>1, <1>2 DEF QueuedInOrder
<1>6. BytesUnread
  <2>1. Unread = <<>>
    <3>1. Unmoved = 0
      BY <1>1 DEF Unmoved
    <3>2. SubSeq(<<>>, 0 + 1, Len(<<>>)) = <<>>
      OBVIOUS
    <3> QED
      BY <1>1, <3>1, <3>2 DEF Unread
  <2> QED
    BY <1>1, <1>2, <2>1, FlatNil DEF BytesUnread
<1>7. StuckWhenFull
  BY <1>1, <1>2 DEF StuckWhenFull
<1>8. OneCommand
  BY <1>1 DEF OneCommand
<1> QED
  BY <1>3, <1>4, <1>5, <1>6, <1>7, <1>8 DEF StreamInv

LEMMA StutterKeeps ==
    ASSUME StreamInv, UNCHANGED streamVars
    PROVE  StreamInv'
BY DEF StreamInv, streamVars, StreamTypeOK, FromReader, QueuedInOrder, BytesUnread,
       StuckWhenFull, OneCommand, Unread, Unmoved

LEMMA SendKeeps ==
    ASSUME StreamInv, NEW p \in Outgoing, Send(p)
    PROVE  StreamInv'
<1>1. /\ ~lost /\ sent' = Append(sent, p) /\ wire' = wire \o serialize(p)
      /\ \/ reader = "node" /\ p \in NodePackets
         \/ reader = "pound" /\ p \in PoundPackets
      /\ reader' = reader /\ buffer' = buffer /\ at' = at /\ queue' = queue
      /\ lost' = lost /\ kept' = kept /\ peak' = peak
  BY DEF Send
<1>2. reader # "ctl"
  BY <1>1
<1>3. /\ buffer \in Seq(Bytes) /\ wire \in Seq(Bytes) /\ kept \in Nat /\ kept <= Len(sent)
      /\ sent \in Seq(Outgoing \cup Commands) /\ Len(sent) \in Nat
  BY InvFacts
<1>4. serialize(p) \in Seq(Bytes) /\ p \in Packets
  BY Constants, PacketFacts
<1>5. /\ sent' \in Seq(Outgoing \cup Commands) /\ Len(sent') = Len(sent) + 1
      /\ \A i \in 1 .. Len(sent) : sent'[i] = sent[i]
  BY <1>1, <1>3
<1>6. StreamTypeOK'
  <2>1. wire' \in Seq(Bytes)
    BY <1>1, <1>3, <1>4, ConcatType
  <2> QED
    BY <1>1, <1>5, <2>1 DEF StreamInv, StreamTypeOK
<1>7. FromReader'
  <2>1. CASE reader = "node"
    <3>1. sent \in Seq(NodePackets) /\ p \in NodePackets
      BY <1>1, <2>1 DEF StreamInv, FromReader
    <3>2. Append(sent, p) \in Seq(NodePackets)
      BY <3>1
    <3> QED
      BY <1>1, <2>1, <3>2 DEF FromReader
  <2>2. CASE reader = "pound"
    <3>1. sent \in Seq(PoundPackets) /\ p \in PoundPackets
      BY <1>1, <2>2 DEF StreamInv, FromReader
    <3>2. Append(sent, p) \in Seq(PoundPackets)
      BY <3>1
    <3> QED
      BY <1>1, <2>2, <3>2 DEF FromReader
  <2> QED
    BY <1>1, <2>1, <2>2
<1>8. QueuedInOrder'
  <2>1. kept <= Len(sent) + 1 /\ \A i \in 1 .. kept : i \in 1 .. Len(sent)
    BY <1>3
  <2>2. \A i \in 1 .. kept : queue[i] = Reduced(sent'[i])
    BY <1>5, <2>1, InvFacts
  <2> QED
    BY <1>1, <1>5, <2>1, <2>2 DEF StreamInv, QueuedInOrder
<1>9. BytesUnread'
  <2>1. /\ Unmoved = kept /\ Unmoved' = kept
    BY <1>1 DEF Unmoved
  <2>2. Unread \in Seq(Packets) /\ buffer \o wire = Flat(Unread)
    BY <1>2, UnreadFacts
  <2>3. Unread' = Append(Unread, p)
    <3>1. sent \in Seq(Packets)
      BY <1>2, SentPackets
    <3> QED
      BY <1>1, <1>3, <1>4, <2>1, <3>1, SuffixAppend DEF Unread
  <2>4. Flat(Unread') = (buffer \o wire) \o serialize(p)
    BY <1>4, <2>2, <2>3, FlatAppend
  <2>5. (buffer \o wire) \o serialize(p) = buffer \o (wire \o serialize(p))
    BY <1>3, <1>4, ConcatAssoc
  <2> QED
    BY <1>1, <2>4, <2>5 DEF BytesUnread
<1>10. StuckWhenFull'
  <2>1. sent' # <<>>
    <3>1. sent' = <<>> => Len(sent') = 0
      OBVIOUS
    <3>2. Len(sent) + 1 # 0
      BY <1>3
    <3> QED
      BY <1>5, <3>1, <3>2
  <2> QED
    BY <1>1, <2>1 DEF StreamInv, StuckWhenFull
<1>11. OneCommand'
  BY <1>1, <1>2 DEF OneCommand
<1> QED
  BY <1>6, <1>7, <1>8, <1>9, <1>10, <1>11 DEF StreamInv

LEMMA RecvKeeps ==
    ASSUME StreamInv, NEW n \in 1 .. Len(wire), Recv(n)
    PROVE  StreamInv'
<1> DEFINE a == SubSeq(wire, 1, n)
           b == SubSeq(wire, n + 1, Len(wire))
<1>1. /\ at = "recv" /\ reader # "ctl" /\ ~lost /\ buffer' = buffer \o a /\ wire' = b
      /\ peak' = Max({peak, Len(buffer')})
      /\ \/ n < Room(buffer) /\ at' = "parse"
         \/ n = BufSize /\ buffer = <<>> /\ at' = "parse"
         \/ n = Room(buffer) /\ at' = "closed"
      /\ reader' = reader /\ sent' = sent /\ queue' = queue /\ lost' = lost /\ kept' = kept
  BY DEF Recv
<1>2. /\ buffer \in Seq(Bytes) /\ wire \in Seq(Bytes) /\ Len(buffer) \in Nat
      /\ Len(buffer) <= BufSize /\ peak \in Nat /\ peak <= BufSize
  BY InvFacts
<1>3. /\ a \in Seq(Bytes) /\ Len(a) = n /\ b \in Seq(Bytes) /\ a \o b = wire
  BY <1>2, CutWire
<1> HIDE DEF a, b
<1>4. n \in Nat /\ n >= 1
  <2>1. Len(wire) \in Nat
    BY <1>2
  <2> QED
    BY <2>1
<1>5. buffer' \in Seq(Bytes) /\ Len(buffer') = Len(buffer) + n
  <2>1. buffer \o a \in Seq(Bytes) /\ Len(buffer \o a) = Len(buffer) + Len(a)
    BY <1>2, <1>3, ConcatType
  <2> QED
    BY <1>1, <1>3, <2>1
<1>6. Room(buffer) = BufSize - Len(buffer) /\ (buffer = <<>> => Len(buffer) = 0)
  BY DEF Room
<1>7. PICK m : m = Len(buffer)
  OBVIOUS
<1>8. PICK k : k = Len(buffer')
  OBVIOUS
<1>9. m \in Nat /\ k = m + n /\ k \in Nat
  BY <1>2, <1>4, <1>5, <1>7, <1>8
<1>10. k <= BufSize /\ (at' = "closed" => k = BufSize)
  <2>1. \/ n < BufSize - m /\ at' = "parse"
        \/ n = BufSize /\ m = 0 /\ at' = "parse"
        \/ n = BufSize - m /\ at' = "closed"
    BY <1>1, <1>6, <1>7
  <2>2. BufSize \in Nat
    BY Constants
  <2> QED
    BY <1>4, <1>9, <2>1, <2>2
<1>11. peak' = (IF peak >= k THEN peak ELSE k)
  <2>1. peak' = Max({peak, k})
    BY <1>1, <1>8
  <2> QED
    BY <1>2, <1>9, <2>1, MaxTwo
<1>12. peak' \in 0 .. BufSize /\ k <= peak' /\ (at' = "closed" => peak' = BufSize)
  <2>1. BufSize \in Nat
    BY Constants
  <2> QED
    BY <1>2, <1>9, <1>10, <1>11, <2>1
<1>13. StreamTypeOK'
  <2>1. wire' \in Seq(Bytes) /\ buffer' \in Seq(Bytes) /\ Len(buffer') <= BufSize
    BY <1>1, <1>3, <1>5, <1>8, <1>10
  <2>2. at' \in {"recv", "parse", "closed", "answered"}
    BY <1>1
  <2> QED
    BY <1>1, <1>12, <2>1, <2>2 DEF StreamInv, StreamTypeOK
<1>14. FromReader'
  BY <1>1 DEF StreamInv, FromReader
<1>15. QueuedInOrder'
  BY <1>1 DEF StreamInv, QueuedInOrder
<1>16. BytesUnread'
  <2>1. Unread' = Unread
    BY <1>1 DEF Unread, Unmoved
  <2>2. (buffer \o a) \o b = buffer \o (a \o b)
    <3>1. a \in Seq(Bytes) /\ b \in Seq(Bytes) /\ buffer \in Seq(Bytes)
      BY <1>2, <1>3
    <3> QED
      BY <3>1, ConcatAssoc
  <2>3. buffer' \o wire' = buffer \o wire
    BY <1>1, <1>3, <2>2
  <2> QED
    BY <1>1, <2>1, <2>3 DEF StreamInv, BytesUnread
<1>17. sent # <<>>
  <2> SUFFICES ASSUME sent = <<>> PROVE FALSE
    OBVIOUS
  <2>1. ~(Unmoved < Len(sent))
    <3>1. Len(sent) = 0
      OBVIOUS
    <3>2. Unmoved \in Nat
      BY <1>1, UnreadFacts
    <3> QED
      BY <3>1, <3>2
  <2>2. wire = <<>>
    BY <1>1, <2>1, NothingUnread
  <2>3. Len(wire) = 0
    BY <2>2
  <2> QED
    BY <1>4, <2>3
<1>18. StuckWhenFull'
  <2>1. Len(buffer') <= peak'
    BY <1>8, <1>12
  <2> QED
    BY <1>1, <1>12, <1>17, <2>1 DEF StuckWhenFull
<1>19. OneCommand'
  BY <1>1 DEF OneCommand
<1> QED
  BY <1>13, <1>14, <1>15, <1>16, <1>18, <1>19 DEF StreamInv

\* A packet more in the queue
LEMMA QueueLonger ==
    ASSUME StreamInv, NEW p \in Outgoing \cup Commands, queue' = Append(queue, Reduced(p))
    PROVE  /\ queue' \in Seq(Images) /\ Len(queue') = Len(queue) + 1
           /\ \A i \in 1 .. Len(queue) : queue'[i] = queue[i]
           /\ queue'[Len(queue) + 1] = Reduced(p)
           /\ \A i \in DOMAIN queue' : queue'[i].type \in DOMAIN TypeCode
<1>1. queue \in Seq(Images) /\ Reduced(p) \in Images
  BY InvFacts DEF Images
<1>2. /\ queue' \in Seq(Images) /\ Len(queue') = Len(queue) + 1
      /\ \A i \in 1 .. Len(queue) : queue'[i] = queue[i]
      /\ queue'[Len(queue) + 1] = Reduced(p)
  BY <1>1
<1>3. \A i \in DOMAIN queue' : queue'[i] \in Images
  BY <1>2
<1> QED
  BY <1>2, <1>3, ImagesTyped

\* The next packet taken off the buffer: the two receive loops
LEMMA TakenKeeps ==
    ASSUME StreamInv, reader # "ctl", at = "parse", ~lost, Complete(buffer),
           NEW p, p = sent[Unmoved + 1],
           queue' = Append(queue, Reduced(p)), kept' = Len(queue'),
           buffer' = Rest(buffer, Len(serialize(p))), ~lost', lost' \in BOOLEAN,
           at' \in {"recv", "parse"},
           UNCHANGED <<reader, sent, wire, peak>>
    PROVE  StreamInv'
<1>1. /\ Unmoved < Len(sent) /\ p \in Outgoing
      /\ Len(serialize(p)) \in Nat /\ Len(serialize(p)) >= 5
      /\ Len(serialize(p)) <= Len(buffer)
  BY NextPacket
<1>2. /\ buffer' \in Seq(Bytes) /\ Len(buffer') = Len(buffer) - Len(serialize(p))
      /\ buffer' \o wire = Flat(SubSeq(sent, Unmoved + 2, Len(sent)))
  BY NextPacket
<1>3. /\ Len(buffer) \in Nat /\ Len(buffer) <= BufSize /\ Len(queue) \in Nat
      /\ kept \in Nat /\ kept = Len(queue) /\ Len(sent) \in Nat
      /\ peak \in Nat /\ peak <= BufSize
  BY InvFacts
<1>4. Unmoved = kept /\ p = sent[kept + 1] /\ kept < Len(sent)
  <2>1. Unmoved = kept
    BY DEF Unmoved
  <2> QED
    BY <1>1, <2>1
<1>5. /\ queue' \in Seq(Images) /\ Len(queue') = Len(queue) + 1
      /\ \A i \in 1 .. Len(queue) : queue'[i] = queue[i]
      /\ queue'[Len(queue) + 1] = Reduced(p)
      /\ \A i \in DOMAIN queue' : queue'[i].type \in DOMAIN TypeCode
  BY <1>1, QueueLonger
<1>6. /\ kept' = kept + 1 /\ kept' \in Nat /\ kept' <= Len(sent) /\ kept' \in 0 .. Len(queue')
  <2>1. kept' = kept + 1 /\ Len(queue') = kept + 1
    BY <1>3, <1>5
  <2>2. kept + 1 \in Nat /\ kept + 1 <= Len(sent) /\ kept + 1 \in 0 .. kept + 1
    BY <1>3, <1>4
  <2> QED
    BY <2>1, <2>2
<1>7. Len(buffer') \in Nat /\ Len(buffer') <= Len(buffer) /\ Len(buffer') <= BufSize
  <2>1. PICK n, m, l : n = Len(buffer) /\ m = Len(serialize(p)) /\ l = Len(buffer')
    OBVIOUS
  <2>2. n \in Nat /\ m \in Nat /\ m <= n /\ l = n - m /\ n <= BufSize /\ BufSize \in Nat
    BY <1>1, <1>2, <1>3, <2>1, Constants
  <2>3. l \in Nat /\ l <= n /\ l <= BufSize
    BY <2>2
  <2> QED
    BY <2>1, <2>3
<1>8. StreamTypeOK'
  <2>1. at' \in {"recv", "parse", "closed", "answered"}
    OBVIOUS
  <2> QED
    BY <1>2, <1>5, <1>6, <1>7, <2>1 DEF StreamInv, StreamTypeOK
<1>9. FromReader'
  BY DEF StreamInv, FromReader
<1>10. QueuedInOrder'
  <2>1. ASSUME NEW i \in 1 .. kept' PROVE queue'[i] = Reduced(sent[i])
    <3>1. CASE i \in 1 .. kept
      <4>1. queue[i] = Reduced(sent[i])
        BY <3>1, InvFacts
      <4> QED
        BY <1>3, <1>5, <3>1, <4>1
    <3>2. CASE i \notin 1 .. kept
      <4>1. i = kept + 1
        BY <1>3, <1>6, <3>2
      <4> QED
        BY <1>3, <1>4, <1>5, <4>1
    <3> QED
      BY <3>1, <3>2
  <2> QED
    BY <1>5, <1>6, <2>1 DEF QueuedInOrder
<1>11. BytesUnread'
  <2>1. Unmoved' = kept + 1
    BY <1>6 DEF Unmoved
  <2>2. (kept + 1) + 1 = kept + 2
    BY <1>3
  <2>3. Unread' = SubSeq(sent, kept + 2, Len(sent))
    BY <2>1, <2>2 DEF Unread
  <2>4. buffer' \o wire = Flat(Unread')
    BY <1>2, <1>4, <2>3
  <2> QED
    BY <2>4 DEF BytesUnread
<1>12. StuckWhenFull'
  <2>1. at' # "closed"
    OBVIOUS
  <2>2. Len(buffer') <= peak'
    <3>1. Len(buffer) <= peak
      BY DEF StreamInv, StuckWhenFull
    <3> QED
      BY <1>3, <1>7, <3>1
  <2> QED
    BY <2>1, <2>2 DEF StuckWhenFull
<1>13. OneCommand'
  BY DEF OneCommand
<1> QED
  BY <1>8, <1>9, <1>10, <1>11, <1>12, <1>13 DEF StreamInv

LEMMA NotTaken == ASSUME StreamInv, reader # "ctl", at = "parse"
    PROVE /\ deserialize(buffer) # NullPtr => Complete(buffer)
          /\ pound_deserialize(buffer) # NullPtr => Complete(buffer)
BY DEF deserialize, pound_deserialize

(***************************************************************************)
(* receive_task: the packet is moved out, or stays for good.               *)
(***************************************************************************)
LEMMA TakePacketKeeps ==
    ASSUME StreamInv, TakePacket
    PROVE  StreamInv'
<1> DEFINE p == sent[Unmoved + 1]
           f == serialize(p)
<1>1. /\ at = "parse" /\ reader = "node" /\ deserialize(buffer) # NullPtr
      /\ reader' = reader /\ sent' = sent /\ wire' = wire /\ peak' = peak
  BY DEF TakePacket
<1>2. Complete(buffer)
  BY <1>1, NotTaken
<1>3. /\ Unmoved < Len(sent) /\ p \in Outgoing
      /\ Len(f) \in Nat /\ Len(f) >= 5 /\ Len(f) <= Len(buffer)
      /\ deserialize(buffer) = Parsed(Reduced(p), Len(f))
  BY <1>1, <1>2, NextPacket
<1>4. deserialize(buffer).pkt = Reduced(p) /\ deserialize(buffer).used = Len(f)
  BY <1>3 DEF Parsed
<1> HIDE DEF p, f
<1>5. /\ queue' = Append(queue, Reduced(p))
      /\ buffer' = IF Moves(buffer, Len(f)) THEN Rest(buffer, Len(f)) ELSE buffer
      /\ lost' = (lost \/ ~Moves(buffer, Len(f)))
      /\ kept' = IF lost THEN kept ELSE Len(queue')
      /\ at' = IF Len(buffer') < HeaderSize THEN "recv" ELSE "parse"
  BY <1>4 DEF TakePacket
<1>6. /\ buffer \in Seq(Bytes) /\ Len(buffer) \in Nat /\ Len(buffer) <= BufSize
      /\ Len(queue) \in Nat /\ kept \in Nat /\ kept <= Len(queue) /\ Len(sent) \in Nat
      /\ kept <= Len(sent) /\ lost \in BOOLEAN
  BY InvFacts
<1>6a. ~lost => kept = Len(queue)
  BY InvFacts
<1>7. CASE ~lost /\ Moves(buffer, Len(f))
  <2>1. /\ kept' = Len(queue') /\ buffer' = Rest(buffer, Len(f)) /\ ~lost'
        /\ lost' \in BOOLEAN /\ at' \in {"recv", "parse"}
    BY <1>5, <1>7
  <2> QED
    BY <1>1, <1>2, <1>5, <1>7, <2>1, TakenKeeps DEF p, f
<1>8. CASE lost \/ ~Moves(buffer, Len(f))
  <2>1. lost => /\ kept > 0 /\ Unmoved = kept - 1
                /\ ~Moves(buffer, Len(serialize(sent[kept])))
    BY DEF StreamInv, StuckWhenFull, Unmoved
  <2>2. lost => p = sent[kept]
    <3>1. lost => (kept - 1) + 1 = kept
      BY <1>6
    <3> QED
      BY <2>1, <3>1 DEF p
  <2>3. ~Moves(buffer, Len(f))
    BY <1>8, <2>1, <2>2 DEF f
  <2>4. buffer' = buffer /\ lost' = TRUE
    BY <1>5, <2>3
  <2>5. at' = "parse"
    <3>1. PICK n, m : n = Len(buffer) /\ m = Len(f)
      OBVIOUS
    <3>2. ~(n < 5)
      BY <1>3, <1>6, <3>1
    <3> QED
      BY <1>5, <2>4, <3>1, <3>2 DEF HeaderSize
  <2>6. /\ queue' \in Seq(Images) /\ Len(queue') = Len(queue) + 1
        /\ \A i \in 1 .. Len(queue) : queue'[i] = queue[i]
        /\ queue'[Len(queue) + 1] = Reduced(p)
        /\ \A i \in DOMAIN queue' : queue'[i].type \in DOMAIN TypeCode
    BY <1>3, <1>5, QueueLonger
  <2>7. ~lost => Unmoved = kept /\ p = sent[kept + 1] /\ kept < Len(sent)
    <3>1. ~lost => Unmoved = kept
      BY DEF Unmoved
    <3> QED
      BY <1>3, <3>1 DEF p
  <2>8. kept' = IF lost THEN kept ELSE kept + 1
    BY <1>5, <1>6a, <2>6
  <2>9. /\ kept' \in Nat /\ kept' > 0 /\ kept' <= Len(sent) /\ kept' \in 0 .. Len(queue')
        /\ kept' - 1 = Unmoved /\ p = sent[kept']
    <3>1. CASE lost
      <4>1. kept' = kept /\ kept > 0 /\ Unmoved = kept - 1 /\ p = sent[kept]
        BY <2>1, <2>2, <2>8, <3>1
      <4>2. kept \in 0 .. Len(queue')
        BY <1>6, <2>6
      <4> QED
        BY <1>6, <4>1, <4>2
    <3>2. CASE ~lost
      <4>1. /\ kept' = kept + 1 /\ Unmoved = kept /\ p = sent[kept + 1] /\ kept < Len(sent)
            /\ Len(queue') = kept + 1
        BY <1>6a, <2>6, <2>7, <2>8, <3>2
      <4>2. /\ kept + 1 \in Nat /\ kept + 1 > 0 /\ kept + 1 <= Len(sent)
            /\ kept + 1 \in 0 .. kept + 1 /\ (kept + 1) - 1 = kept
        BY <1>6, <4>1
      <4> QED
        BY <4>1, <4>2
    <3> QED
      BY <3>1, <3>2
  <2>10. StreamTypeOK'
    BY <1>1, <2>4, <2>5, <2>6, <2>9 DEF StreamInv, StreamTypeOK
  <2>11. FromReader'
    BY <1>1 DEF StreamInv, FromReader
  <2>12. QueuedInOrder'
    <3>1. ASSUME NEW i \in 1 .. kept' PROVE queue'[i] = Reduced(sent[i])
      <4>1. CASE i \in 1 .. kept
        <5>1. queue[i] = Reduced(sent[i])
          BY <4>1, InvFacts
        <5>2. i \in 1 .. Len(queue)
          BY <1>6, <4>1
        <5> QED
          BY <2>6, <5>1, <5>2
      <4>2. CASE i \notin 1 .. kept
        <5>1. ~lost /\ i = kept + 1
          BY <1>6, <2>8, <4>2
        <5> QED
          BY <1>6a, <2>6, <2>7, <5>1
      <4> QED
        BY <4>1, <4>2
    <3> QED
      BY <1>1, <2>4, <2>6, <2>9, <3>1 DEF QueuedInOrder
  <2>13. BytesUnread'
    <3>1. Unmoved' = Unmoved
      BY <2>4, <2>9 DEF Unmoved
    <3>2. Unread' = Unread
      BY <1>1, <3>1 DEF Unread
    <3> QED
      BY <1>1, <2>4, <3>2 DEF StreamInv, BytesUnread
  <2>14. StuckWhenFull'
    <3>1. Len(serialize(sent'[kept'])) = Len(f)
      BY <1>1, <2>9 DEF f
    <3>2. Len(buffer') <= peak'
      BY <1>1, <2>4 DEF StreamInv, StuckWhenFull
    <3> QED
      BY <1>1, <1>3, <2>3, <2>4, <2>5, <2>9, <3>1, <3>2 DEF StuckWhenFull, Moves
  <2>15. OneCommand'
    BY <1>1 DEF OneCommand
  <2> QED
    BY <2>10, <2>11, <2>12, <2>13, <2>14, <2>15 DEF StreamInv
<1> QED
  BY <1>6, <1>7, <1>8

\* listen_task
LEMMA TakeActionKeeps ==
    ASSUME StreamInv, TakeAction
    PROVE  StreamInv'
<1> DEFINE p == sent[Unmoved + 1]
           f == serialize(p)
<1>1. /\ at = "parse" /\ reader = "pound" /\ pound_deserialize(buffer) # NullPtr
      /\ reader' = reader /\ sent' = sent /\ wire' = wire /\ peak' = peak
      /\ at' = at /\ lost' = lost
  BY DEF TakeAction
<1>2. Complete(buffer)
  BY <1>1, NotTaken
<1>3. ~lost /\ lost \in BOOLEAN
  BY <1>1, InvFacts DEF StreamInv, StuckWhenFull
<1>4. /\ Unmoved < Len(sent)
      /\ p \in PoundPackets => pound_deserialize(buffer) = Parsed(Reduced(p), Len(f))
  BY <1>1, <1>2, NextPacket
<1>5. p \in PoundPackets
  <2>1. sent \in Seq(PoundPackets)
    BY <1>1 DEF StreamInv, FromReader
  <2>2. Unmoved \in Nat /\ Len(sent) \in Nat
    BY <1>1, UnreadFacts, InvFacts
  <2>3. Unmoved + 1 \in 1 .. Len(sent)
    BY <1>4, <2>2
  <2> QED
    BY <2>1, <2>3
<1>6. pound_deserialize(buffer).pkt = Reduced(p) /\ pound_deserialize(buffer).used = Len(f)
  BY <1>4, <1>5 DEF Parsed
<1> HIDE DEF p, f
<1>7. /\ queue' = Append(queue, Reduced(p)) /\ buffer' = Rest(buffer, Len(f))
      /\ kept' = Len(queue')
  BY <1>6 DEF TakeAction
<1> QED
  BY <1>1, <1>2, <1>3, <1>7, TakenKeeps DEF p, f

LEMMA SendCommandKeeps ==
    ASSUME StreamInv, NEW c \in Commands, SendCommand(c)
    PROVE  StreamInv'
<1>1. /\ reader = "ctl" /\ sent = <<>> /\ sent' = <<c>> /\ wire' = command_serialize(c)
      /\ reader' = reader /\ buffer' = buffer /\ at' = at /\ queue' = queue
      /\ lost' = lost /\ kept' = kept /\ peak' = peak
  BY DEF SendCommand
<1>2. Len(sent) = 0
  BY <1>1
<1>3. buffer = <<>> /\ at = "recv" /\ kept = 0
  BY <1>1, <1>2 DEF StreamInv, OneCommand
<1>4. command_serialize(c) \in Seq(Bytes)
  BY Constants, CommandType
<1>5. /\ <<c>> \in Seq(Outgoing \cup Commands) /\ <<c>> \in Seq(Commands)
      /\ Len(<<c>>) = 1 /\ <<c>>[1] = c /\ <<c>> # <<>>
  OBVIOUS
<1>6. StreamTypeOK'
  BY <1>1, <1>4, <1>5 DEF StreamInv, StreamTypeOK
<1>7. FromReader'
  BY <1>1, <1>5 DEF FromReader
<1>8. QueuedInOrder'
  <2>1. \A i \in 1 .. 0 : FALSE
    OBVIOUS
  <2>2. queue \in Seq(Images) /\ (~lost => kept = Len(queue))
    BY InvFacts
  <2>3. kept' <= Len(sent')
    BY <1>1, <1>3, <1>5
  <2>4. \A i \in 1 .. kept' : queue'[i] = Reduced(sent'[i])
    BY <1>1, <1>3, <2>1
  <2> QED
    BY <1>1, <2>2, <2>3, <2>4 DEF QueuedInOrder
<1>9. BytesUnread'
  BY <1>1 DEF BytesUnread
<1>10. StuckWhenFull'
  <2>1. ~lost
    BY <1>1 DEF StreamInv, StuckWhenFull
  <2> QED
    BY <1>1, <1>3, <2>1 DEF StreamInv, StuckWhenFull
<1>11. OneCommand'
  BY <1>1, <1>3, <1>5 DEF OneCommand
<1> QED
  BY <1>6, <1>7, <1>8, <1>9, <1>10, <1>11 DEF StreamInv

\* The command that ctl_task takes is the one that was sent.
LEMMA CommandTaken ==
    ASSUME StreamInv, TakeCommand
    PROVE  /\ reader = "ctl" /\ Len(sent) = 1 /\ sent[1] \in Commands /\ kept = 0
           /\ ~lost /\ lost \in BOOLEAN /\ queue = <<>> /\ buffer = <<>> /\ at = "recv"
           /\ queue' = Append(queue, Reduced(sent[1]))
<1>1. /\ reader = "ctl" /\ at = "recv" /\ Complete(wire)
      /\ queue' = Append(queue, command_deserialize(wire))
  BY DEF TakeCommand
<1>2. wire # <<>>
  <2> SUFFICES ASSUME wire = <<>> PROVE FALSE
    OBVIOUS
  <2>1. Len(wire) = 0
    OBVIOUS
  <2>2. Len(wire) >= 5
    BY <1>1 DEF Complete, HeaderSize
  <2> QED
    BY <2>1, <2>2
<1>3. Len(sent) = 1 /\ wire = command_serialize(sent[1]) /\ kept = 0 /\ buffer = <<>>
  BY <1>1, <1>2 DEF StreamInv, OneCommand
<1>4. sent \in Seq(Commands)
  BY <1>1 DEF StreamInv, FromReader
<1>5. sent[1] \in Commands
  BY <1>3, <1>4
<1>6. command_deserialize(wire) = Reduced(sent[1])
  BY <1>3, <1>5, Constants, CommandsReadBack
<1>7. ~lost /\ lost \in BOOLEAN
  BY <1>1, InvFacts DEF StreamInv, StuckWhenFull
<1>8. queue = <<>>
  <2>1. queue \in Seq(Images) /\ Len(queue) = 0
    BY <1>3, <1>7, InvFacts
  <2> QED
    BY <2>1
<1> QED
  BY <1>1, <1>3, <1>5, <1>6, <1>7, <1>8

LEMMA TakeCommandKeeps ==
    ASSUME StreamInv, TakeCommand
    PROVE  StreamInv'
<1>1. /\ reader = "ctl" /\ Len(sent) = 1 /\ sent[1] \in Commands /\ kept = 0
      /\ ~lost /\ queue = <<>> /\ buffer = <<>>
      /\ queue' = Append(queue, Reduced(sent[1]))
  BY CommandTaken
<1>2. /\ kept' = Len(queue') /\ wire' = <<>> /\ at' = "answered" /\ reader' = reader
      /\ sent' = sent /\ buffer' = buffer /\ lost' = lost /\ peak' = peak
  BY DEF TakeCommand
<1>3. /\ queue' \in Seq(Images) /\ Len(queue') = Len(queue) + 1
      /\ queue'[Len(queue) + 1] = Reduced(sent[1])
      /\ \A i \in DOMAIN queue' : queue'[i].type \in DOMAIN TypeCode
  BY <1>1, QueueLonger
<1>4. Len(queue) = 0
  BY <1>1
<1>5. kept' = 1 /\ Len(queue') = 1 /\ queue'[1] = Reduced(sent[1])
  BY <1>2, <1>3, <1>4
<1>6. <<>> \in Seq(Bytes) /\ 1 \in 0 .. 1
  OBVIOUS
<1>7. StreamTypeOK'
  BY <1>2, <1>3, <1>5, <1>6 DEF StreamInv, StreamTypeOK
<1>8. FromReader'
  BY <1>2 DEF StreamInv, FromReader
<1>9. QueuedInOrder'
  <2>1. \A i \in 1 .. 1 : i = 1
    OBVIOUS
  <2>2. \A i \in 1 .. kept' : queue'[i] = Reduced(sent'[i])
    BY <1>2, <1>5, <2>1
  <2>3. kept' <= Len(sent')
    BY <1>1, <1>2, <1>5
  <2> QED
    BY <1>2, <1>3, <2>2, <2>3 DEF QueuedInOrder
<1>10. BytesUnread'
  BY <1>1, <1>2 DEF BytesUnread
<1>11. StuckWhenFull'
  BY <1>1, <1>2 DEF StreamInv, StuckWhenFull
<1>12. OneCommand'
  BY <1>1, <1>2, <1>5 DEF OneCommand
<1> QED
  BY <1>7, <1>8, <1>9, <1>10, <1>11, <1>12 DEF StreamInv

\* A packet that stays in the buffer is complete.
LEMMA StuckParses ==
    ASSUME StreamInv, lost
    PROVE  reader = "node" /\ deserialize(buffer) # NullPtr
<1>1. /\ reader = "node" /\ kept > 0
      /\ Len(serialize(sent[kept])) <= Len(buffer)
  BY DEF StreamInv, StuckWhenFull
<1>2. /\ kept \in Nat /\ kept <= Len(sent) /\ Len(sent) \in Nat /\ Len(buffer) \in Nat
  BY InvFacts
<1>3. Unmoved = kept - 1
  BY DEF Unmoved
<1>4. Unmoved < Len(sent) /\ Unmoved + 1 = kept
  BY <1>1, <1>2, <1>3
<1> DEFINE p == sent[kept]
<1>5. p = sent[Unmoved + 1]
  BY <1>4
<1>6. IsFrame(serialize(p)) /\ (Complete(buffer) <=> Len(buffer) >= Len(serialize(p)))
  BY <1>1, <1>4, <1>5, FirstPacket
<1>7. Len(serialize(p)) \in Nat
  BY <1>6, FrameFacts
<1>8. Complete(buffer)
  <2>1. Len(buffer) >= Len(serialize(p))
    BY <1>1, <1>2, <1>7
  <2> QED
    BY <1>6, <2>1
<1>9. /\ deserialize(buffer) = Parsed(Reduced(p), Len(serialize(p)))
      /\ Len(serialize(p)) >= 5
  BY <1>1, <1>5, <1>8, NextPacket
<1> HIDE DEF p
<1> QED
  BY <1>1, <1>7, <1>9, NotNull

LEMMA IncompleteKeeps ==
    ASSUME StreamInv, Incomplete
    PROVE  StreamInv'
<1>1. /\ at = "parse" /\ at' = "recv" /\ reader' = reader /\ sent' = sent /\ wire' = wire
      /\ buffer' = buffer /\ queue' = queue /\ lost' = lost /\ kept' = kept /\ peak' = peak
      /\ reader = "node" => deserialize(buffer) = NullPtr
  BY DEF Incomplete
<1>2. ~lost
  BY <1>1, StuckParses
<1>3. reader # "ctl"
  BY <1>1 DEF StreamInv, OneCommand
<1>4. StreamTypeOK'
  BY <1>1 DEF StreamInv, StreamTypeOK
<1>5. FromReader'
  BY <1>1 DEF StreamInv, FromReader
<1>6. QueuedInOrder'
  BY <1>1 DEF StreamInv, QueuedInOrder
<1>7. BytesUnread'
  <2>1. Unread' = Unread
    BY <1>1 DEF Unread, Unmoved
  <2> QED
    BY <1>1, <2>1 DEF StreamInv, BytesUnread
<1>8. StuckWhenFull'
  BY <1>1, <1>2 DEF StreamInv, StuckWhenFull
<1>9. OneCommand'
  BY <1>1, <1>3 DEF OneCommand
<1> QED
  BY <1>4, <1>5, <1>6, <1>7, <1>8, <1>9 DEF StreamInv

(***************************************************************************)
(* The inductive invariant: what is in the buffer and on the wire is what  *)
(* was sent and has not been taken, and what was taken is what was sent.   *)
(***************************************************************************)
THEOREM StreamInvHolds == StreamSpec => []StreamInv
<1>1. StreamInit => StreamInv
  BY InitKeeps
<1>2. StreamInv /\ [StreamNext]_streamVars => StreamInv'
  <2> SUFFICES ASSUME StreamInv, [StreamNext]_streamVars PROVE StreamInv'
    OBVIOUS
  <2>1. CASE UNCHANGED streamVars
    BY <2>1, StutterKeeps
  <2>2. CASE \E n \in 1 .. Len(wire) : Recv(n)
    BY <2>2, RecvKeeps
  <2>3. CASE TakePacket
    BY <2>3, TakePacketKeeps
  <2>4. CASE TakeAction
    BY <2>4, TakeActionKeeps
  <2>5. CASE Incomplete
    BY <2>5, IncompleteKeeps
  <2>6. CASE TakeCommand
    BY <2>6, TakeCommandKeeps
  <2>7. CASE \E p \in Outgoing : Send(p)
    BY <2>7, SendKeeps
  <2>8. CASE \E c \in Commands : SendCommand(c)
    BY <2>8, SendCommandKeeps
  <2> QED
    BY <2>1, <2>2, <2>3, <2>4, <2>5, <2>6, <2>7, <2>8 DEF StreamNext, ReceiveLoop
<1> QED
  BY <1>1, <1>2, PTL DEF StreamSpec

(***************************************************************************)
(* The receive loops stay within their buffer and queue only packets of a  *)
(* type the protocol has.                                                  *)
(***************************************************************************)
THEOREM StreamTypeHolds == StreamSpec => []StreamTypeOK
<1>1. StreamInv => StreamTypeOK
  BY DEF StreamInv
<1> QED
  BY <1>1, StreamInvHolds, PTL

(***************************************************************************)
(* With room left for the longest packet, receive_task moves every packet  *)
(* out of its buffer and no full buffer is taken for a closed connection.  *)
(***************************************************************************)
THEOREM RoomToMoveHolds == StreamSpec => []RoomToMove
<1>1. StreamInv => RoomToMove
  <2> SUFFICES ASSUME StreamInv, peak <= BufSize - Longest PROVE at # "closed" /\ ~lost
    BY DEF RoomToMove
  <2>1. /\ Len(buffer) \in Nat /\ peak \in Nat /\ BufSize \in Nat /\ Len(sent) \in Nat
        /\ kept \in Nat /\ kept <= Len(sent)
    BY InvFacts, Constants
  <2>2. Len(buffer) <= peak
    BY DEF StreamInv, StuckWhenFull
  <2>3. at # "closed"
    <3> SUFFICES ASSUME at = "closed" PROVE FALSE
      OBVIOUS
    <3>1. reader # "ctl" /\ sent # <<>> /\ peak = BufSize
      BY DEF StreamInv, StuckWhenFull
    <3>2. sent \in Seq(Packets)
      BY <3>1, SentPackets
    <3>3. 1 \in 1 .. Len(sent)
      BY <3>1, <3>2
    <3>4. sent[1] \in Outgoing
      BY <3>1, <3>3, SentPackets
    <3> DEFINE n == Len(serialize(sent[1]))
    <3>5. Longest \in Nat /\ n <= Longest /\ n \in Nat /\ n >= 5
      BY <3>4, LongestBounds
    <3> HIDE DEF n
    <3> QED
      BY <2>1, <3>1, <3>5
  <2>4. ~lost
    <3> SUFFICES ASSUME lost PROVE FALSE
      OBVIOUS
    <3>1. /\ reader = "node" /\ kept > 0
          /\ ~Moves(buffer, Len(serialize(sent[kept])))
      BY DEF StreamInv, StuckWhenFull
    <3>2. kept \in 1 .. Len(sent)
      BY <2>1, <3>1
    <3>3. sent[kept] \in Outgoing
      BY <3>1, <3>2, SentPackets
    <3> DEFINE n == Len(serialize(sent[kept]))
               m == Len(buffer)
    <3>4. Longest \in Nat /\ n <= Longest /\ n \in Nat
      BY <3>3, LongestBounds
    <3>5. ~(BufSize - m >= n)
      BY <3>1 DEF Moves
    <3>6. m \in Nat /\ m <= peak
      BY <2>1, <2>2
    <3> HIDE DEF n, m
    <3> QED
      BY <2>1, <3>4, <3>5, <3>6
  <2> QED
    BY <2>3, <2>4
<1> QED
  BY <1>1, StreamInvHolds, PTL

-----------------------------------------------------------------------------
\* The channel of packets

LEMMA WholeSeq ==
    ASSUME NEW S, NEW q \in Seq(S)
    PROVE  SubSeq(q, 1, Len(q)) = q
<1>1. SubSeq(q, 1, Len(q)) \in Seq(S) /\ Len(SubSeq(q, 1, Len(q))) = Len(q)
  OBVIOUS
<1>2. \A i \in 1 .. Len(q) : SubSeq(q, 1, Len(q))[i] = q[i]
  OBVIOUS
<1> DEFINE r == SubSeq(q, 1, Len(q))
<1> HIDE DEF r
<1>3. r = q
  BY <1>1, <1>2, SeqEqual DEF r
<1> QED
  BY <1>3 DEF r

LEMMA FrontSame ==
    ASSUME NEW S, NEW q \in Seq(S), NEW x \in S, NEW k \in Nat, k <= Len(q)
    PROVE  SubSeq(Append(q, x), 1, k) = SubSeq(q, 1, k)
<1> DEFINE a == SubSeq(Append(q, x), 1, k)
           b == SubSeq(q, 1, k)
<1>1. a \in Seq(S) /\ Len(a) = k /\ \A i \in 1 .. k : a[i] = q[i]
  OBVIOUS
<1>2. b \in Seq(S) /\ Len(b) = k /\ \A i \in 1 .. k : b[i] = q[i]
  OBVIOUS
<1> HIDE DEF a, b
<1>3. a = b
  BY <1>1, <1>2, SeqEqual
<1> QED
  BY <1>3 DEF a, b

\* The step delivers the packet after those delivered.
LEMMA Delivers ==
    ASSUME StreamInv, StreamInv', ~lost, kept < Len(sent), at # "closed",
           queue' = Append(queue, Reduced(sent[kept + 1])), kept' = Len(queue'),
           sent' = sent
    PROVE  Channel!Deliver
<1>1. /\ queue \in Seq(Images) /\ kept = Len(queue) /\ kept \in Nat
  BY InvFacts
<1>2. queue' \in Seq(Images)
  BY DEF StreamInv, QueuedInOrder
<1>3. SubSeq(queue, 1, kept) = queue
  BY <1>1, WholeSeq
<1>4. SubSeq(queue', 1, kept') = queue'
  BY <1>2, WholeSeq
<1>5. Len(SubSeq(queue, 1, kept)) = kept
  BY <1>1, <1>3
<1>6. (at' = "closed" \/ lost') \in BOOLEAN
  OBVIOUS
<1> QED
  BY <1>3, <1>4, <1>5, <1>6 DEF Channel!Deliver

LEMMA ChannelStart == StreamInit => Channel!ChannelInit
<1> SUFFICES ASSUME StreamInit PROVE Channel!ChannelInit
  OBVIOUS
<1>1. sent = <<>> /\ queue = <<>> /\ kept = 0 /\ at = "recv" /\ lost = FALSE
  BY DEF StreamInit
<1>2. SubSeq(<<>>, 1, 0) = <<>>
  OBVIOUS
<1>3. SubSeq(queue, 1, kept) = <<>>
  BY <1>1, <1>2
<1>4. (at = "closed" \/ lost) = FALSE
  BY <1>1
<1> QED
  BY <1>1, <1>3, <1>4 DEF Channel!ChannelInit

(***************************************************************************)
(* Every step of the sender and of the three readers is one of the         *)
(* channel, or none.                                                       *)
(***************************************************************************)
LEMMA ChannelStep ==
    ASSUME StreamInv, StreamInv', [StreamNext]_streamVars
    PROVE  [Channel!Put \/ Channel!Deliver \/ Channel!Break]_Channel!channelVars
<1>0. /\ queue \in Seq(Images) /\ kept \in Nat /\ kept <= Len(queue)
      /\ lost \in BOOLEAN /\ Len(sent) \in Nat /\ sent \in Seq(Outgoing \cup Commands)
  BY InvFacts
<1>1. ASSUME sent' = sent, queue' = queue, kept' = kept, at' = at, lost' = lost
      PROVE  UNCHANGED Channel!channelVars
  BY <1>1 DEF Channel!channelVars
<1>2. CASE UNCHANGED streamVars
  BY <1>1, <1>2 DEF streamVars
<1>3. ASSUME NEW p \in Outgoing, Send(p) PROVE Channel!Put
  BY <1>3 DEF Send, Channel!Put
<1>4. ASSUME NEW c \in Commands, SendCommand(c) PROVE Channel!Put
  <2>1. sent = <<>> /\ sent' = <<c>> /\ queue' = queue /\ kept' = kept /\ at' = at
        /\ lost' = lost
    BY <1>4 DEF SendCommand
  <2>2. <<c>> = Append(<<>>, c)
    OBVIOUS
  <2>3. sent' = Append(sent, c)
    BY <2>1, <2>2
  <2> QED
    BY <2>1, <2>3 DEF Channel!Put
<1>5. ASSUME NEW n \in 1 .. Len(wire), Recv(n)
      PROVE  Channel!Break \/ UNCHANGED Channel!channelVars
  <2>1. /\ at = "recv" /\ ~lost /\ sent' = sent /\ queue' = queue /\ lost' = lost
        /\ kept' = kept /\ at' \in {"parse", "closed"}
    BY <1>5 DEF Recv
  <2>2. CASE at' = "closed"
    BY <2>1, <2>2 DEF Channel!Break
  <2>3. CASE at' = "parse"
    <3>1. (at = "closed" \/ lost) = (at' = "closed" \/ lost')
      BY <1>0, <2>1, <2>3
    <3> QED
      BY <2>1, <3>1 DEF Channel!channelVars
  <2> QED
    BY <2>1, <2>2, <2>3
<1>6. ASSUME TakePacket PROVE Channel!Deliver \/ UNCHANGED Channel!channelVars
  <2> DEFINE p == sent[Unmoved + 1]
  <2>1. /\ at = "parse" /\ reader = "node" /\ deserialize(buffer) # NullPtr
        /\ queue' = Append(queue, deserialize(buffer).pkt)
        /\ kept' = IF lost THEN kept ELSE Len(queue')
        /\ lost => lost'
        /\ at' \in {"recv", "parse"} /\ sent' = sent
    BY <1>6 DEF TakePacket
  <2>2. Complete(buffer)
    BY <2>1, NotTaken
  <2>3. Unmoved < Len(sent) /\ deserialize(buffer).pkt = Reduced(p) /\ p \in Outgoing
    BY <2>1, <2>2, NextPacket DEF Parsed
  <2>4. CASE ~lost
    <3>1. Unmoved = kept
      BY <2>4 DEF Unmoved
    <3> QED
      BY <2>1, <2>3, <2>4, <3>1, Delivers
  <2>5. CASE lost
    <3>1. kept' = kept /\ lost' /\ Reduced(p) \in Images
      BY <2>1, <2>3, <2>5 DEF Images
    <3>2. SubSeq(queue', 1, kept') = SubSeq(queue, 1, kept)
      BY <1>0, <2>1, <2>3, <3>1, FrontSame
    <3>3. (at = "closed" \/ lost) = (at' = "closed" \/ lost')
      BY <2>5, <3>1
    <3> QED
      BY <2>1, <3>2, <3>3 DEF Channel!channelVars
  <2> QED
    BY <2>4, <2>5
<1>7. ASSUME TakeAction PROVE Channel!Deliver
  <2> DEFINE p == sent[Unmoved + 1]
  <2>1. /\ at = "parse" /\ reader = "pound" /\ pound_deserialize(buffer) # NullPtr
        /\ queue' = Append(queue, pound_deserialize(buffer).pkt)
        /\ kept' = Len(queue') /\ sent' = sent
    BY <1>7 DEF TakeAction
  <2>2. Complete(buffer)
    BY <2>1, NotTaken
  <2>3. ~lost
    BY <2>1 DEF StreamInv, StuckWhenFull
  <2>4. Unmoved = kept
    BY <2>3 DEF Unmoved
  <2>5. /\ Unmoved < Len(sent)
        /\ p \in PoundPackets =>
              pound_deserialize(buffer) = Parsed(Reduced(p), Len(serialize(p)))
    BY <2>1, <2>2, NextPacket
  <2>6. p \in PoundPackets
    <3>1. sent \in Seq(PoundPackets)
      BY <2>1 DEF StreamInv, FromReader
    <3>2. Unmoved + 1 \in 1 .. Len(sent)
      BY <1>0, <2>4, <2>5
    <3> QED
      BY <3>1, <3>2
  <2>7. pound_deserialize(buffer).pkt = Reduced(p)
    BY <2>5, <2>6 DEF Parsed
  <2> QED
    BY <2>1, <2>3, <2>4, <2>5, <2>7, Delivers
<1>8. ASSUME TakeCommand PROVE Channel!Deliver
  <2>1. /\ Len(sent) = 1 /\ kept = 0 /\ ~lost /\ at = "recv"
        /\ queue' = Append(queue, Reduced(sent[1]))
    BY <1>8, CommandTaken
  <2>2. kept' = Len(queue') /\ sent' = sent
    BY <1>8 DEF TakeCommand
  <2>3. 0 + 1 = 1 /\ 0 < 1
    OBVIOUS
  <2> QED
    BY <2>1, <2>2, <2>3, Delivers
<1>9. ASSUME Incomplete PROVE UNCHANGED Channel!channelVars
  <2>1. /\ at = "parse" /\ at' = "recv" /\ sent' = sent /\ queue' = queue
        /\ lost' = lost /\ kept' = kept
    BY <1>9 DEF Incomplete
  <2>2. (at = "closed" \/ lost) = (at' = "closed" \/ lost')
    BY <1>0, <2>1
  <2> QED
    BY <2>1, <2>2 DEF Channel!channelVars
<1> QED
  BY <1>2, <1>3, <1>4, <1>5, <1>6, <1>7, <1>8, <1>9 DEF StreamNext, ReceiveLoop

(***************************************************************************)
(* The receive loops implement the channel: first in, first out, nothing   *)
(* lost, doubled or made up until it breaks, each packet as it was sent    *)
(* but for the fields that do not go over the wire.                        *)
(***************************************************************************)
THEOREM FirstInFirstOutHolds == StreamSpec => FirstInFirstOut
<1>1. StreamInit => Channel!ChannelInit
  BY ChannelStart
<1>2. StreamInv /\ StreamInv' /\ [StreamNext]_streamVars
         => [Channel!Put \/ Channel!Deliver \/ Channel!Break]_Channel!channelVars
  BY ChannelStep
<1> QED
  BY <1>1, <1>2, StreamInvHolds, PTL
     DEF Channel!ChannelSpec, FirstInFirstOut, StreamSpec
=============================================================================
