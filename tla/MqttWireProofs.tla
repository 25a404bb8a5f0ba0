---------------------------- MODULE MqttWireProofs ----------------------------
(***************************************************************************)
(* Theorems about MqttWire: what was encoded is understood, whatever the   *)
(* requests, the packets among them and the bytes in these.                *)
(***************************************************************************)
EXTENDS MqttWire, MqttStreamProofs, WellFoundedInduction

-----------------------------------------------------------------------------
(* Induction on a number, for a set instead of a predicate.                *)

LEMMA SetInduction ==
    ASSUME NEW T, 0 \in T, \A n \in Nat : n \in T => n + 1 \in T
    PROVE  Nat \subseteq T
<1> SUFFICES ASSUME Nat \ T # {} PROVE FALSE
  OBVIOUS
<1>1. PICK least \in Nat \ T : \A n \in Nat \ T : ~(<<n, least>> \in OpToRel(<, Nat))
  <2>1. IsWellFoundedOn(OpToRel(<, Nat), Nat)
    BY NatLessThanWellFounded
  <2>2. QED
    BY <2>1, WFMin
<1>2. \A n \in Nat \ T : ~(n < least)
  BY <1>1 DEF OpToRel
<1>3. least - 1 \in Nat /\ least - 1 < least /\ (least - 1) + 1 = least
  OBVIOUS
<1>4. least - 1 \in T
  BY <1>2, <1>3
<1>5. QED
  BY <1>3, <1>4

-----------------------------------------------------------------------------
(* Lists of strings.                                                       *)

Strings == Seq(Seq(Byte))

\* Where each string of a list ends, if the bytes are that list.
Cuts(cut, bytes, extra, strings) ==
    /\ cut \in [0 .. Len(strings) -> Nat]
    /\ cut[0] = 0 /\ cut[Len(strings)] = Len(bytes)
    /\ \A n \in 1 .. Len(strings) :
           /\ cut[n - 1] + 2 + extra <= cut[n] /\ cut[n] <= Len(bytes)
           /\ 256 * bytes[cut[n - 1] + 1] + bytes[cut[n - 1] + 2] = cut[n] - cut[n - 1] - 2 - extra
           /\ Len(strings[n]) = cut[n] - cut[n - 1] - 2
           /\ \A j \in 1 .. Len(strings[n]) : strings[n][j] = bytes[cut[n - 1] + 2 + j]

Reads(bytes, extra, strings) == \E cut : Cuts(cut, bytes, extra, strings)

LEMMA FromBytes ==
    ASSUME NEW bytes \in Seq(Byte), NEW at \in 1 .. Len(bytes) + 1
    PROVE  /\ From(bytes, at) \in Seq(Byte)
           /\ Len(From(bytes, at)) = Len(bytes) + 1 - at
           /\ \A i \in 1 .. Len(bytes) + 1 - at : From(bytes, at)[i] = bytes[at + i - 1]
<1>1. Len(bytes) \in Nat
  BY LenProperties
<1>2. \A i \in at .. Len(bytes) : bytes[i] \in Byte
  BY <1>1, ElementOfSeq
<1>3. QED
  BY <1>1, <1>2, SubSeqProperties DEF From

LEMMA LengthAt ==
    ASSUME NEW bytes \in Seq(Byte), NEW at \in Nat, at + 2 <= Len(bytes)
    PROVE  byteutil_read_uint16(From(bytes, at + 1)) = 256 * bytes[at + 1] + bytes[at + 2]
<1>1. Len(bytes) \in Nat
  BY LenProperties
<1>2. at + 1 \in 1 .. Len(bytes) + 1
  BY <1>1
<1> DEFINE rest == From(bytes, at + 1)
<1>3. /\ Len(rest) = Len(bytes) + 1 - (at + 1)
      /\ \A i \in 1 .. Len(bytes) + 1 - (at + 1) : rest[i] = bytes[(at + 1) + i - 1]
  BY <1>2, FromBytes
<1> HIDE DEF rest
<1>4. Len(rest) >= 2 /\ rest[1] = bytes[at + 1]
  BY <1>1, <1>3
<1>5. rest[2] = bytes[(at + 1) + 2 - 1]
  BY <1>1, <1>3
<1>6. (at + 1) + 2 - 1 = at + 2
  OBVIOUS
<1>7. byteutil_read_uint16(rest) = 256 * bytes[at + 1] + bytes[at + 2]
  BY <1>4, <1>5, <1>6 DEF byteutil_read_uint16
<1>8. QED
  BY <1>7 DEF rest

\* Where IsList looks for the strings is where they are.
LEMMA CutsAreUnique ==
    ASSUME NEW bytes \in Seq(Byte), NEW extra \in 0 .. 1, NEW strings \in Strings,
           NEW cut, Cuts(cut, bytes, extra, strings)
    PROVE  IsList(bytes, extra, strings)
<1> DEFINE N == Len(strings)
           After(f, n) == f[n - 1] + 2 + byteutil_read_uint16(From(bytes, f[n - 1] + 1)) + extra
           after == CHOOSE f : f = [n \in 0 .. N |-> IF n = 0 THEN 0 ELSE After(f, n)]
<1>1. N \in Nat /\ Len(bytes) \in Nat
  BY LenProperties DEF Strings
<1>2. IsList(bytes, extra, strings) <=>
          /\ after[N] = Len(bytes)
          /\ \A n \in 1 .. N : strings[n] = SubSeq(bytes, after[n - 1] + 3, after[n])
  BY DEF IsList
<1>3. /\ cut \in [0 .. N -> Nat] /\ cut[0] = 0 /\ cut[N] = Len(bytes)
      /\ \A n \in 1 .. N :
             /\ cut[n - 1] + 2 + extra <= cut[n] /\ cut[n] <= Len(bytes)
             /\ 256 * bytes[cut[n - 1] + 1] + bytes[cut[n - 1] + 2] = cut[n] - cut[n - 1] - 2 - extra
             /\ Len(strings[n]) = cut[n] - cut[n - 1] - 2
             /\ \A j \in 1 .. Len(strings[n]) : strings[n][j] = bytes[cut[n - 1] + 2 + j]
  BY DEF Cuts
<1> HIDE DEF N
<1>4. ASSUME NEW n \in 1 .. N PROVE cut[n] = After(cut, n)
  <2>1. cut[n] \in Nat /\ cut[n - 1] \in Nat /\ cut[n - 1] + 2 + extra <= cut[n] /\ cut[n] <= Len(bytes)
    <3>1. n \in 0 .. N /\ n - 1 \in 0 .. N
      BY <1>1
    <3>2. cut \in [0 .. N -> Nat]
      BY <1>3
    <3>3. cut[n] \in Nat /\ cut[n - 1] \in Nat
      BY <3>1, <3>2
    <3>4. cut[n - 1] + 2 + extra <= cut[n] /\ cut[n] <= Len(bytes)
      BY <1>3, Zenon
    <3>5. QED
      BY <3>3, <3>4
  <2>2. cut[n - 1] + 2 <= Len(bytes)
    BY <1>1, <2>1
  <2>3. byteutil_read_uint16(From(bytes, cut[n - 1] + 1)) = cut[n] - cut[n - 1] - 2 - extra
    <3> DEFINE at == cut[n - 1]
    <3>1. at \in Nat /\ at + 2 <= Len(bytes)
      BY <2>1, <2>2
    <3>2. 256 * bytes[at + 1] + bytes[at + 2] = cut[n] - at - 2 - extra
      BY <1>3
    <3> HIDE DEF at
    <3>3. byteutil_read_uint16(From(bytes, at + 1)) = 256 * bytes[at + 1] + bytes[at + 2]
      BY <3>1, LengthAt
    <3>4. byteutil_read_uint16(From(bytes, at + 1)) = cut[n] - at - 2 - extra
      BY <3>2, <3>3, Zenon
    <3>5. QED
      BY <3>4 DEF at
  <2>4. \A p, q, e \in Nat : q = p + 2 + (q - p - 2 - e) + e
    OBVIOUS
  <2>5. cut[n] = cut[n - 1] + 2 + (cut[n] - cut[n - 1] - 2 - extra) + extra
    BY <2>1, <2>4
  <2>6. QED
    BY <2>3, <2>5
<1> HIDE DEF After
<1>5. cut = [n \in 0 .. N |-> IF n = 0 THEN 0 ELSE After(cut, n)]
  BY <1>1, <1>3, <1>4
<1>6. after = [n \in 0 .. N |-> IF n = 0 THEN 0 ELSE After(after, n)]
  BY <1>5, Zenon
<1> HIDE DEF after
<1>7. \A n \in 0 .. N : after[n] = cut[n]
  <2> DEFINE T == {n \in Nat : n <= N => after[n] = cut[n]}
  <2>1. 0 \in T
    BY <1>1, <1>3, <1>6
  <2>2. ASSUME NEW n \in Nat, n \in T PROVE n + 1 \in T
    <3> SUFFICES ASSUME n + 1 <= N PROVE after[n + 1] = cut[n + 1]
      OBVIOUS
    <3>1. after[n] = cut[n] /\ n + 1 \in 1 .. N /\ n + 1 \in 0 .. N /\ n + 1 # 0 /\ (n + 1) - 1 = n
      BY <1>1, <2>2
    <3>2. after[n + 1] = After(after, n + 1)
      BY <1>6, <3>1
    <3>3. After(after, n + 1) = After(cut, n + 1)
      BY <3>1 DEF After
    <3>4. QED
      BY <1>4, <3>1, <3>2, <3>3
  <2>3. Nat \subseteq T
    <3> HIDE DEF T
    <3>1. QED
      BY <2>1, <2>2, SetInduction
  <2>4. QED
    BY <1>1, <2>3
<1>8. ASSUME NEW n \in 1 .. N PROVE strings[n] = SubSeq(bytes, after[n - 1] + 3, after[n])
  <2>1. /\ n \in 0 .. N /\ n - 1 \in 0 .. N /\ cut[n] \in Nat /\ cut[n - 1] \in Nat
        /\ cut[n - 1] + 2 + extra <= cut[n] /\ cut[n] <= Len(bytes)
    <3>1. n \in 0 .. N /\ n - 1 \in 0 .. N
      BY <1>1
    <3>2. cut \in [0 .. N -> Nat]
      BY <1>3
    <3>3. cut[n] \in Nat /\ cut[n - 1] \in Nat
      BY <3>1, <3>2
    <3>4. cut[n - 1] + 2 + extra <= cut[n] /\ cut[n] <= Len(bytes)
      BY <1>3, Zenon
    <3>5. QED
      BY <3>1, <3>3, <3>4
  <2> DEFINE from == cut[n - 1] + 3
             to == cut[n]
  <2>2. from \in Int /\ to \in Int /\ from >= 1 /\ to <= Len(bytes) /\ from <= to + 1
    <3>1. \A p, q, e \in Nat :
              p + 2 + e <= q => p + 3 \in Int /\ q \in Int /\ p + 3 >= 1 /\ p + 3 <= q + 1
      OBVIOUS
    <3>2. extra \in Nat
      OBVIOUS
    <3>3. QED
      BY <2>1, <3>1, <3>2
  <2>3. \A i \in from .. to : bytes[i] \in Byte
    BY <1>1, <2>2, ElementOfSeq
  <2> HIDE DEF from, to
  <2>4. /\ SubSeq(bytes, from, to) \in Seq(Byte)
        /\ Len(SubSeq(bytes, from, to)) = to - from + 1
        /\ \A i \in 1 .. to - from + 1 : SubSeq(bytes, from, to)[i] = bytes[from + i - 1]
    BY <2>2, <2>3, SubSeqProperties
  <2>5. strings[n] \in Seq(Byte)
    BY ElementOfSeq DEF Strings, N
  <2>6. Len(strings[n]) = to - from + 1
    BY <1>3, <2>1 DEF from, to
  <2>7. ASSUME NEW i \in 1 .. Len(strings[n]) PROVE strings[n][i] = SubSeq(bytes, from, to)[i]
    <3>1. i \in 1 .. to - from + 1 /\ from + i - 1 = cut[n - 1] + 2 + i
      BY <2>1, <2>6 DEF from
    <3>2. strings[n][i] = bytes[cut[n - 1] + 2 + i]
      BY <1>3
    <3>3. QED
      BY <2>4, <3>1, <3>2
  <2>8. strings[n] = SubSeq(bytes, from, to)
    BY <2>4, <2>5, <2>6, <2>7, SeqEqual
  <2>9. QED
    BY <1>7, <2>1, <2>8 DEF from, to
<1>9. after[N] = Len(bytes)
  BY <1>1, <1>3, <1>7
<1>10. QED
  BY <1>2, <1>8, <1>9

-----------------------------------------------------------------------------
(* One string after the other.                                             *)

\* How a string is written into a list.
Item(item, string, extra) ==
    /\ item \in Seq(Byte) /\ string \in Seq(Byte)
    /\ Len(item) = 2 + Len(string) /\ extra <= Len(string)
    /\ 256 * item[1] + item[2] = Len(string) - extra
    /\ \A j \in 1 .. Len(string) : item[2 + j] = string[j]

LEMMA NoStrings == ASSUME NEW extra PROVE Reads(<<>>, extra, <<>>)
<1>1. Len(<<>>) = 0
  BY EmptySeq
<1> DEFINE cut == [n \in 0 .. 0 |-> 0]
<1>2. Cuts(cut, <<>>, extra, <<>>)
  BY <1>1 DEF Cuts
<1>3. QED
  BY <1>2 DEF Reads

LEMMA OneMore ==
    ASSUME NEW bytes \in Seq(Byte), NEW extra \in 0 .. 1, NEW strings \in Strings,
           Reads(bytes, extra, strings),
           NEW item, NEW string, Item(item, string, extra)
    PROVE  /\ bytes \o item \in Seq(Byte) /\ Append(strings, string) \in Strings
           /\ Reads(bytes \o item, extra, Append(strings, string))
<1>1. PICK cut : Cuts(cut, bytes, extra, strings)
  BY DEF Reads
<1> DEFINE more == bytes \o item
           longer == Append(strings, string)
           N == Len(strings)
           L == Len(bytes)
           last == [n \in 0 .. N + 1 |-> IF n = N + 1 THEN L + Len(item) ELSE cut[n]]
<1>2. /\ item \in Seq(Byte) /\ string \in Seq(Byte)
      /\ Len(item) = 2 + Len(string) /\ extra <= Len(string)
      /\ 256 * item[1] + item[2] = Len(string) - extra
      /\ \A j \in 1 .. Len(string) : item[2 + j] = string[j]
      /\ Len(string) \in Nat /\ Len(item) \in Nat
  BY LenProperties DEF Item
<1>3. N \in Nat /\ L \in Nat
  BY LenProperties DEF Strings
<1>4. /\ more \in Seq(Byte) /\ Len(more) = L + Len(item)
      /\ \A i \in 1 .. L : more[i] = bytes[i]
      /\ \A i \in 1 .. Len(item) : more[L + i] = item[i]
  <2>1. /\ more \in Seq(Byte) /\ Len(more) = L + Len(item)
        /\ \A i \in 1 .. L + Len(item) : more[i] = IF i <= L THEN bytes[i] ELSE item[i - L]
    <3>1. item \in Seq(Byte)
      BY <1>2
    <3>2. QED
      BY <3>1, ConcatProperties
  <2> HIDE DEF more, L
  <2>2. \A i \in 1 .. Len(item) : (L + i) - L = i /\ L + i \in 1 .. L + Len(item) /\ ~(L + i <= L)
    BY <1>2, <1>3
  <2>3. QED
    BY <1>2, <1>3, <2>1, <2>2
<1>5. /\ longer \in Strings /\ Len(longer) = N + 1
      /\ \A n \in 1 .. N : longer[n] = strings[n]
      /\ longer[N + 1] = string
  BY <1>2, AppendProperties DEF Strings
<1>6. /\ cut \in [0 .. N -> Nat] /\ cut[0] = 0 /\ cut[N] = L
      /\ \A n \in 1 .. N :
             /\ cut[n - 1] + 2 + extra <= cut[n] /\ cut[n] <= L
             /\ 256 * bytes[cut[n - 1] + 1] + bytes[cut[n - 1] + 2] = cut[n] - cut[n - 1] - 2 - extra
             /\ Len(strings[n]) = cut[n] - cut[n - 1] - 2
             /\ \A j \in 1 .. Len(strings[n]) : strings[n][j] = bytes[cut[n - 1] + 2 + j]
  BY <1>1 DEF Cuts
<1> HIDE DEF more, longer, N, L
<1>7. /\ last \in [0 .. N + 1 -> Nat] /\ last[0] = 0 /\ last[N + 1] = Len(more)
      /\ \A n \in 0 .. N : last[n] = cut[n]
  BY <1>2, <1>3, <1>4, <1>6
<1> HIDE DEF last
<1>8. ASSUME NEW n \in 1 .. N + 1
      PROVE  /\ last[n - 1] + 2 + extra <= last[n] /\ last[n] <= Len(more)
             /\ 256 * more[last[n - 1] + 1] + more[last[n - 1] + 2] = last[n] - last[n - 1] - 2 - extra
             /\ Len(longer[n]) = last[n] - last[n - 1] - 2
             /\ \A j \in 1 .. Len(longer[n]) : longer[n][j] = more[last[n - 1] + 2 + j]
  <2>1. CASE n \in 1 .. N
    <3>1. /\ last[n] = cut[n] /\ last[n - 1] = cut[n - 1] /\ longer[n] = strings[n]
          /\ cut[n] \in Nat /\ cut[n - 1] \in Nat
      <4>1. n \in 0 .. N /\ n - 1 \in 0 .. N
        BY <1>3, <2>1
      <4>2. cut \in [0 .. N -> Nat]
        BY <1>6
      <4>3. cut[n] \in Nat /\ cut[n - 1] \in Nat
        BY <4>1, <4>2
      <4>4. last[n] = cut[n] /\ last[n - 1] = cut[n - 1]
        BY <1>7, <4>1, Zenon
      <4>5. longer[n] = strings[n]
        BY <1>5, <2>1, Zenon
      <4>6. QED
        BY <4>3, <4>4, <4>5
    <3>2. /\ cut[n - 1] + 2 + extra <= cut[n] /\ cut[n] <= L
          /\ Len(strings[n]) = cut[n] - cut[n - 1] - 2
      BY <1>6, <2>1
    <3>3. cut[n - 1] + 1 \in 1 .. L /\ cut[n - 1] + 2 \in 1 .. L
      <4>1. \A p, q, e, l \in Nat :
                p + 2 + e <= q /\ q <= l => p + 1 \in 1 .. l /\ p + 2 \in 1 .. l
        OBVIOUS
      <4>2. extra \in Nat
        OBVIOUS
      <4>3. QED
        BY <1>3, <3>1, <3>2, <4>1, <4>2
    <3>4. /\ more[cut[n - 1] + 1] = bytes[cut[n - 1] + 1]
          /\ more[cut[n - 1] + 2] = bytes[cut[n - 1] + 2]
      BY <1>4, <3>3
    <3>5. ASSUME NEW j \in 1 .. Len(strings[n]) PROVE strings[n][j] = more[cut[n - 1] + 2 + j]
      <4>1. Len(strings[n]) = cut[n] - cut[n - 1] - 2 /\ cut[n] <= L
        BY <3>2
      <4>2. \A p, q, l \in Nat : \A k \in 1 .. q - p - 2 : q <= l => p + 2 + k \in 1 .. l
        OBVIOUS
      <4>3. cut[n - 1] + 2 + j \in 1 .. L
        BY <1>3, <3>1, <4>1, <4>2
      <4>4. QED
        BY <1>4, <1>6, <2>1, <4>3
    <3>6. last[n] <= Len(more)
      BY <1>2, <1>3, <1>4, <3>1, <3>2
    <3>7. QED
      BY <1>6, <2>1, <3>1, <3>2, <3>4, <3>5, <3>6
  <2>2. CASE n = N + 1
    <3>1. last[n] = L + Len(item) /\ last[n - 1] = L /\ longer[n] = string
      BY <1>3, <1>4, <1>5, <1>6, <1>7, <2>2
    <3>2. more[L + 1] = item[1] /\ more[L + 2] = item[2]
      BY <1>2, <1>4
    <3>3. ASSUME NEW j \in 1 .. Len(string) PROVE string[j] = more[L + 2 + j]
      <4>1. 2 + j \in 1 .. Len(item) /\ L + (2 + j) = L + 2 + j
        BY <1>2, <1>3
      <4>2. QED
        BY <1>2, <1>4, <4>1
    <3>4. QED
      BY <1>2, <1>3, <1>4, <3>1, <3>2, <3>3
  <2>3. QED
    BY <1>3, <2>1, <2>2
<1>9. Cuts(last, more, extra, longer)
  BY <1>4, <1>5, <1>7, <1>8 DEF Cuts
<1>10. QED
  BY <1>4, <1>5, <1>9 DEF Reads, more, longer

LEMMA WriteInt ==
    ASSUME NEW value \in Nat, value <= 65535
    PROVE  /\ byteutil_writeInt(value) \in Seq(Byte) /\ Len(byteutil_writeInt(value)) = 2
           /\ byteutil_writeInt(value)[1] = value \div 256
           /\ byteutil_writeInt(value)[2] = value % 256
           /\ 256 * byteutil_writeInt(value)[1] + byteutil_writeInt(value)[2] = value
<1>1. value \div 256 \in 0 .. 255 /\ value % 256 \in 0 .. 255
  OBVIOUS
<1>2. 256 * (value \div 256) + (value % 256) = value
  OBVIOUS
<1>3. /\ <<value \div 256, value % 256>> \in Seq(Byte)
      /\ Len(<<value \div 256, value % 256>>) = 2
  BY <1>1 DEF Byte
<1>4. QED
  BY <1>2, <1>3 DEF byteutil_writeInt

LEMMA WriteUTF ==
    ASSUME NEW string \in Seq(Byte), Len(string) <= 65535
    PROVE  Item(byteutil_writeUTF(string), string, 0)
<1> DEFINE size == byteutil_writeInt(Len(string))
           item == byteutil_writeUTF(string)
<1>1. Len(string) \in Nat
  BY LenProperties
<1>2. size \in Seq(Byte) /\ Len(size) = 2 /\ 256 * size[1] + size[2] = Len(string)
  BY <1>1, WriteInt
<1>3. item = size \o string
  BY DEF byteutil_writeUTF
<1> HIDE DEF size, item
<1>4. /\ item \in Seq(Byte) /\ Len(item) = 2 + Len(string)
      /\ \A i \in 1 .. 2 + Len(string) : item[i] = IF i <= 2 THEN size[i] ELSE string[i - 2]
  BY <1>2, <1>3, ConcatProperties
<1>5. item[1] = size[1] /\ item[2] = size[2]
  BY <1>1, <1>4
<1>6. ASSUME NEW j \in 1 .. Len(string) PROVE item[2 + j] = string[j]
  <2>1. 2 + j \in 1 .. 2 + Len(string) /\ ~(2 + j <= 2) /\ (2 + j) - 2 = j
    BY <1>1
  <2>2. QED
    BY <1>4, <2>1
<1>7. Item(item, string, 0)
  BY <1>1, <1>2, <1>4, <1>5, <1>6 DEF Item
<1>8. QED
  BY <1>7 DEF item

LEMMA WriteUTFAndByte ==
    ASSUME NEW string \in Seq(Byte), Len(string) <= 65535, NEW byte \in Byte
    PROVE  Item(byteutil_writeUTF(string) \o <<byte>>, Append(string, byte), 1)
<1> DEFINE begin == byteutil_writeUTF(string)
           item == begin \o <<byte>>
           longer == Append(string, byte)
<1>1. /\ begin \in Seq(Byte) /\ Len(begin) = 2 + Len(string) /\ Len(string) \in Nat
      /\ 256 * begin[1] + begin[2] = Len(string) - 0
      /\ \A j \in 1 .. Len(string) : begin[2 + j] = string[j]
  BY WriteUTF, LenProperties DEF Item
<1>2. <<byte>> \in Seq(Byte) /\ Len(<<byte>>) = 1 /\ <<byte>>[1] = byte
  OBVIOUS
<1> HIDE DEF begin
<1>3. /\ item \in Seq(Byte) /\ Len(item) = 2 + Len(string) + 1
      /\ \A i \in 1 .. 2 + Len(string) + 1 :
             item[i] = IF i <= 2 + Len(string) THEN begin[i] ELSE <<byte>>[i - (2 + Len(string))]
  BY <1>1, <1>2, ConcatProperties
<1>4. /\ longer \in Seq(Byte) /\ Len(longer) = Len(string) + 1
      /\ \A i \in 1 .. Len(string) : longer[i] = string[i]
      /\ longer[Len(string) + 1] = byte
  BY AppendProperties
<1> HIDE DEF item, longer
<1>5. item[1] = begin[1] /\ item[2] = begin[2]
  BY <1>1, <1>3
<1>6. ASSUME NEW j \in 1 .. Len(longer) PROVE item[2 + j] = longer[j]
  <2>1. CASE j \in 1 .. Len(string)
    <3>1. 2 + j \in 1 .. 2 + Len(string) + 1 /\ 2 + j <= 2 + Len(string)
      BY <1>1, <2>1
    <3>2. QED
      BY <1>1, <1>3, <1>4, <2>1, <3>1
  <2>2. CASE j = Len(string) + 1
    <3>1. /\ 2 + j \in 1 .. 2 + Len(string) + 1 /\ ~(2 + j <= 2 + Len(string))
          /\ (2 + j) - (2 + Len(string)) = 1
      BY <1>1, <2>2
    <3>2. QED
      BY <1>2, <1>3, <1>4, <2>2, <3>1
  <2>3. QED
    BY <1>1, <1>4, <2>1, <2>2
<1>7. Item(item, longer, 1)
  BY <1>1, <1>3, <1>4, <1>5, <1>6 DEF Item
<1>8. QED
  BY <1>7 DEF item, longer, begin

-----------------------------------------------------------------------------
(* The lists of addListItems.                                              *)

\* The recursion of addListItems has a solution.
LEMMA ListItemsRecursion ==
    ASSUME NEW items, NEW N \in Nat
    PROVE  \E f : f = [n \in 0 .. N |-> IF n = 0 THEN <<>> ELSE f[n - 1] \o items[n]]
<1> DEFINE T == {m \in Nat : \E f : f = [n \in 0 .. m |-> IF n = 0 THEN <<>> ELSE f[n - 1] \o items[n]]}
<1>1. 0 \in T
  <2> DEFINE g == [n \in 0 .. 0 |-> <<>>]
  <2>1. g = [n \in 0 .. 0 |-> IF n = 0 THEN <<>> ELSE g[n - 1] \o items[n]]
    OBVIOUS
  <2>2. QED
    BY <2>1
<1>2. ASSUME NEW m \in Nat, m \in T PROVE m + 1 \in T
  <2>1. PICK f : f = [n \in 0 .. m |-> IF n = 0 THEN <<>> ELSE f[n - 1] \o items[n]]
    BY <1>2
  <2> DEFINE g == [n \in 0 .. m + 1 |-> IF n = m + 1 THEN f[m] \o items[m + 1] ELSE f[n]]
  <2>2. ASSUME NEW n \in 0 .. m + 1 PROVE g[n] = IF n = 0 THEN <<>> ELSE g[n - 1] \o items[n]
    <3>1. CASE n = m + 1
      <4>1. n # 0 /\ n - 1 = m /\ m \in 0 .. m + 1 /\ m # m + 1
        BY <3>1
      <4>2. QED
        BY <3>1, <4>1
    <3>2. CASE n \in 0 .. m /\ n # 0
      <4>1. n # m + 1 /\ n - 1 # m + 1 /\ n - 1 \in 0 .. m + 1
        BY <3>2
      <4>2. g[n] = f[n] /\ g[n - 1] = f[n - 1]
        BY <4>1
      <4>3. f[n] = f[n - 1] \o items[n]
        BY <2>1, <3>2
      <4>4. QED
        BY <3>2, <4>2, <4>3
    <3>3. CASE n = 0
      <4>1. n # m + 1 /\ n \in 0 .. m
        BY <3>3
      <4>2. QED
        BY <2>1, <3>3, <4>1
    <3>4. QED
      BY <3>1, <3>2, <3>3
  <2>3. g = [n \in 0 .. m + 1 |-> IF n = 0 THEN <<>> ELSE g[n - 1] \o items[n]]
    <3>1. g = [n \in 0 .. m + 1 |-> g[n]]
      OBVIOUS
    <3> HIDE DEF g
    <3>2. QED
      BY <2>2, <3>1
  <2> HIDE DEF g
  <2>4. \E h : h = [n \in 0 .. m + 1 |-> IF n = 0 THEN <<>> ELSE h[n - 1] \o items[n]]
    BY <2>3
  <2>5. QED
    BY <2>4
<1>3. Nat \subseteq T
  <2> HIDE DEF T
  <2>1. QED
    BY <1>1, <1>2, SetInduction
<1>4. QED
  BY <1>3

\* Cutting a list short at its end.
LEMMA Shorter ==
    ASSUME NEW strings \in Strings, NEW n \in Nat, n + 1 <= Len(strings)
    PROVE  /\ SubSeq(strings, 1, n) \in Strings
           /\ SubSeq(strings, 1, n + 1) = Append(SubSeq(strings, 1, n), strings[n + 1])
<1> DEFINE S == Seq(Byte)
<1>1. Len(strings) \in Nat /\ strings \in Seq(S)
  BY LenProperties DEF Strings
<1>2. \A i \in 1 .. n : strings[i] \in S
  BY <1>1, ElementOfSeq
<1>3. strings[n + 1] \in S
  BY <1>1, ElementOfSeq
<1> HIDE DEF S
<1>4. SubSeq(strings, 1, n) \in Seq(S)
  BY <1>2, SubSeqProperties
<1>5. n + 1 \in 1 .. Len(strings) /\ 1 \in 1 .. Len(strings) /\ (n + 1) - 1 = n
  BY <1>1
<1>6. SubSeq(strings, 1, n + 1) = SubSeq(strings, 1, (n + 1) - 1) \o <<strings[n + 1]>>
  BY <1>1, <1>5, SubSeqRecursiveSecond
<1>7. SubSeq(strings, 1, n + 1) = Append(SubSeq(strings, 1, n), strings[n + 1])
  BY <1>3, <1>4, <1>5, <1>6, AppendIsConcat
<1>8. QED
  BY <1>4, <1>7 DEF Strings, S

LEMMA ListItems ==
    ASSUME NEW extra \in 0 .. 1, NEW strings \in Strings, NEW items,
           Len(items) = Len(strings),
           \A i \in 1 .. Len(strings) : Item(items[i], strings[i], extra)
    PROVE  addListItems(items) \in Seq(Byte) /\ Reads(addListItems(items), extra, strings)
<1> DEFINE N == Len(items)
           packet == CHOOSE f : f = [n \in 0 .. N |-> IF n = 0 THEN <<>> ELSE f[n - 1] \o items[n]]
<1>1. N \in Nat
  BY LenProperties DEF Strings
<1>2. addListItems(items) = packet[N]
  BY DEF addListItems
<1> HIDE DEF N
<1>3. \E f : f = [n \in 0 .. N |-> IF n = 0 THEN <<>> ELSE f[n - 1] \o items[n]]
  BY <1>1, ListItemsRecursion
<1>4. packet = [n \in 0 .. N |-> IF n = 0 THEN <<>> ELSE packet[n - 1] \o items[n]]
  BY <1>3, Zenon
<1> HIDE DEF packet
<1> DEFINE T == {n \in Nat : n <= N => /\ packet[n] \in Seq(Byte)
                                       /\ Reads(packet[n], extra, SubSeq(strings, 1, n))}
<1>5. 0 \in T
  <2>1. packet[0] = <<>>
    BY <1>1, <1>4
  <2>2. SubSeq(strings, 1, 0) = <<>>
    BY SubSeqEmpty
  <2>3. QED
    BY <2>1, <2>2, NoStrings, EmptySeq
<1>6. ASSUME NEW n \in Nat, n \in T PROVE n + 1 \in T
  <2> SUFFICES ASSUME n + 1 <= N
               PROVE  /\ packet[n + 1] \in Seq(Byte)
                      /\ Reads(packet[n + 1], extra, SubSeq(strings, 1, n + 1))
    OBVIOUS
  <2>1. packet[n] \in Seq(Byte) /\ Reads(packet[n], extra, SubSeq(strings, 1, n))
    BY <1>1, <1>6
  <2>2. packet[n + 1] = packet[n] \o items[n + 1]
    <3>1. n + 1 \in 0 .. N /\ n + 1 # 0 /\ (n + 1) - 1 = n
      BY <1>1
    <3>2. QED
      BY <1>4, <3>1
  <2>3. /\ SubSeq(strings, 1, n) \in Strings
        /\ SubSeq(strings, 1, n + 1) = Append(SubSeq(strings, 1, n), strings[n + 1])
    BY Shorter DEF N
  <2>4. Item(items[n + 1], strings[n + 1], extra)
    <3>1. n + 1 \in 1 .. Len(strings)
      BY <1>1 DEF N
    <3>2. QED
      BY <3>1
  <2>5. QED
    BY <2>1, <2>2, <2>3, <2>4, OneMore
<1>7. Nat \subseteq T
  <2> HIDE DEF T
  <2>1. QED
    BY <1>5, <1>6, SetInduction
<1>8. packet[N] \in Seq(Byte) /\ Reads(packet[N], extra, SubSeq(strings, 1, N))
  BY <1>1, <1>7
<1>9. SubSeq(strings, 1, N) = strings
  BY SubSeqFull DEF N, Strings
<1>10. QED
  BY <1>2, <1>8, <1>9

-----------------------------------------------------------------------------
(* What stands behind other bytes.                                         *)

LEMMA Regroup == \A s, t, u \in Seq(Byte) : (s \o t) \o u = s \o (t \o u)
BY ConcatAssociative

LEMMA FromConcat ==
    ASSUME NEW first \in Seq(Byte), NEW rest \in Seq(Byte), NEW at, at = Len(first) + 1
    PROVE  From(first \o rest, at) = rest
<1> DEFINE bytes == first \o rest
<1>1. Len(first) \in Nat /\ Len(rest) \in Nat
  BY LenProperties
<1>2. /\ bytes \in Seq(Byte) /\ Len(bytes) = Len(first) + Len(rest)
      /\ \A i \in 1 .. Len(first) + Len(rest) :
             bytes[i] = IF i <= Len(first) THEN first[i] ELSE rest[i - Len(first)]
  BY ConcatProperties
<1> HIDE DEF bytes
<1>3. at \in 1 .. Len(bytes) + 1
  BY <1>1, <1>2
<1>4. /\ From(bytes, at) \in Seq(Byte)
      /\ Len(From(bytes, at)) = Len(bytes) + 1 - at
      /\ \A i \in 1 .. Len(bytes) + 1 - at : From(bytes, at)[i] = bytes[at + i - 1]
  BY <1>2, <1>3, FromBytes
<1>5. Len(bytes) + 1 - at = Len(rest)
  BY <1>1, <1>2
<1>6. ASSUME NEW i \in 1 .. Len(rest) PROVE From(bytes, at)[i] = rest[i]
  <2>1. /\ at + i - 1 \in 1 .. Len(first) + Len(rest) /\ ~(at + i - 1 <= Len(first))
        /\ (at + i - 1) - Len(first) = i
    BY <1>1
  <2>2. QED
    BY <1>2, <1>4, <1>5, <2>1
<1>7. From(bytes, at) = rest
  BY <1>4, <1>5, <1>6, SeqEqual
<1>8. QED
  BY <1>7 DEF bytes

LEMMA ReadInt ==
    ASSUME NEW value \in UShort, NEW rest \in Seq(Byte)
    PROVE  /\ byteutil_read_uint16(byteutil_writeInt(value) \o rest) = value
           /\ From(byteutil_writeInt(value) \o rest, 3) = rest
           /\ byteutil_writeInt(value) \o rest \in Seq(Byte) \ {<<>>}
<1> DEFINE size == byteutil_writeInt(value)
           bytes == size \o rest
<1>1. size \in Seq(Byte) /\ Len(size) = 2 /\ 256 * size[1] + size[2] = value
  <2>1. value \in Nat /\ value <= 65535
    BY DEF UShort
  <2>2. QED
    BY <2>1, WriteInt
<1>2. Len(rest) \in Nat
  BY LenProperties
<1> HIDE DEF size
<1>3. /\ bytes \in Seq(Byte) /\ Len(bytes) = 2 + Len(rest)
      /\ \A i \in 1 .. 2 + Len(rest) : bytes[i] = IF i <= 2 THEN size[i] ELSE rest[i - 2]
  <2>1. size \in Seq(Byte) /\ Len(size) = 2
    BY <1>1
  <2>2. /\ bytes \in Seq(Byte) /\ Len(bytes) = Len(size) + Len(rest)
        /\ \A i \in 1 .. Len(size) + Len(rest) :
               bytes[i] = IF i <= Len(size) THEN size[i] ELSE rest[i - Len(size)]
    BY <2>1, ConcatProperties
  <2> HIDE DEF bytes
  <2>3. QED
    BY <2>1, <2>2
<1>4. From(bytes, 3) = rest
  <2>1. size \in Seq(Byte) /\ 3 = Len(size) + 1
    BY <1>1
  <2>2. QED
    BY <2>1, FromConcat
<1> HIDE DEF bytes
<1>5. bytes[1] = size[1] /\ bytes[2] = size[2] /\ Len(bytes) >= 2
  BY <1>2, <1>3
<1>6. byteutil_read_uint16(bytes) = value
  BY <1>1, <1>5 DEF byteutil_read_uint16
<1>7. bytes \in Seq(Byte) \ {<<>>}
  BY <1>3, <1>5, EmptySeq
<1>8. QED
  BY <1>4, <1>6, <1>7 DEF bytes, size

LEMMA ReadUTF ==
    ASSUME NEW string \in Seq(Byte), string # <<>>, Len(string) <= 65535, NEW rest \in Seq(Byte)
    PROVE  /\ byteutil_writeUTF(string) \o rest \in Seq(Byte)
           /\ byteutil_readUTF(byteutil_writeUTF(string) \o rest) = string
           /\ From(byteutil_writeUTF(string) \o rest, Length(string) + 3) = rest
<1> DEFINE begin == byteutil_writeUTF(string)
           bytes == begin \o rest
           n == Len(string)
<1>1. n \in Nat \ {0} /\ n \in UShort
  BY EmptySeq DEF UShort
<1>2. /\ begin \in Seq(Byte) /\ Len(begin) = 2 + n
      /\ \A j \in 1 .. n : begin[2 + j] = string[j]
  BY WriteUTF DEF Item
<1>3. byteutil_writeInt(n) \in Seq(Byte) /\ string \o rest \in Seq(Byte)
  BY <1>1, WriteInt, ConcatProperties DEF UShort
<1>4. begin \o rest = byteutil_writeInt(n) \o (string \o rest)
  BY <1>3, ConcatAssociative DEF byteutil_writeUTF
<1>5. bytes \in Seq(Byte) /\ byteutil_read_uint16(bytes) = n
  <2> DEFINE behind == string \o rest
  <2>1. n \in UShort /\ behind \in Seq(Byte) /\ bytes = byteutil_writeInt(n) \o behind
    BY <1>1, <1>3, <1>4
  <2> HIDE DEF behind, bytes, n
  <2>2. QED
    BY <2>1, ReadInt
<1>6. Length(string) = n
  BY PacketsAssumption DEF Length
<1> HIDE DEF begin, n
<1>7. From(bytes, n + 3) = rest
  <2>1. n + 3 = Len(begin) + 1
    BY <1>1, <1>2
  <2>2. QED
    BY <1>2, <2>1, FromConcat
<1>8. Len(rest) \in Nat
  BY LenProperties
<1>9. /\ Len(bytes) = 2 + n + Len(rest)
      /\ \A i \in 1 .. 2 + n + Len(rest) :
             bytes[i] = IF i <= 2 + n THEN begin[i] ELSE rest[i - (2 + n)]
  <2>1. begin \in Seq(Byte)
    BY <1>2
  <2>2. /\ Len(bytes) = Len(begin) + Len(rest)
        /\ \A i \in 1 .. Len(begin) + Len(rest) :
               bytes[i] = IF i <= Len(begin) THEN begin[i] ELSE rest[i - Len(begin)]
    BY <2>1, ConcatProperties
  <2> HIDE DEF bytes
  <2>3. QED
    BY <1>2, <2>2
<1> HIDE DEF bytes
<1>10. SubSeq(bytes, 3, n + 2) = string
  <2>1. \A i \in 3 .. n + 2 : bytes[i] \in Byte
    BY <1>1, <1>5, <1>8, <1>9, ElementOfSeq
  <2>2. /\ SubSeq(bytes, 3, n + 2) \in Seq(Byte)
        /\ Len(SubSeq(bytes, 3, n + 2)) = IF 3 <= n + 2 THEN (n + 2) - 3 + 1 ELSE 0
        /\ \A i \in 1 .. (n + 2) - 3 + 1 : SubSeq(bytes, 3, n + 2)[i] = bytes[3 + i - 1]
    BY <1>1, <2>1, SubSeqProperties
  <2>3. (n + 2) - 3 + 1 = n /\ Len(SubSeq(bytes, 3, n + 2)) = n
    BY <1>1, <2>2
  <2>4. ASSUME NEW i \in 1 .. n PROVE SubSeq(bytes, 3, n + 2)[i] = string[i]
    <3>1. 3 + i - 1 = 2 + i /\ 2 + i \in 1 .. 2 + n + Len(rest) /\ 2 + i <= 2 + n
      BY <1>1, <1>8
    <3>2. QED
      BY <1>2, <1>9, <2>2, <2>3, <3>1
  <2>5. Len(string) = n
    BY DEF n
  <2>6. QED
    BY <2>2, <2>3, <2>4, <2>5, SeqEqual
<1>11. byteutil_readUTF(bytes) = string
  BY <1>1, <1>5, <1>8, <1>9, <1>10 DEF byteutil_readUTF
<1>12. QED
  BY <1>5, <1>6, <1>7, <1>11 DEF bytes, begin

-----------------------------------------------------------------------------
(* PUBLISH and its answers.                                                *)

LEMMA FlagsOfPublish ==
    ASSUME NEW qos \in 0 .. 2, NEW duplicate \in BOOLEAN, NEW retain \in BOOLEAN,
           qos = 0 => ~duplicate /\ ~retain,
           NEW flags, flags = PublishFlags(qos, duplicate, retain)
    PROVE  /\ TypeOf(PUBLISH_TYPE + flags) = PUBLISH_TYPE
           /\ FlagsOf(PUBLISH_TYPE + flags) = flags
           /\ QosOfFlags(flags) = qos
           /\ Bit(flags, 8) <=> duplicate
           /\ Bit(flags, 1) <=> retain
<1>1. CASE qos = 0
  <2>1. flags = 0
    BY <1>1 DEF PublishFlags, DELIVER_AT_MOST_ONCE, DELIVER_AT_LEAST_ONCE, DELIVER_EXACTLY_ONCE
  <2>2. ~duplicate /\ ~retain
    BY <1>1
  <2>3. ~Bit(0, 8) /\ ~Bit(0, 1) /\ QosOfFlags(0) = 0
    BY DEF QosOfFlags, Bit, DELIVER_AT_MOST_ONCE
  <2>4. TypeOf(48 + 0) = 48 /\ FlagsOf(48 + 0) = 0
    BY DEF TypeOf, FlagsOf
  <2>5. QED
    BY <1>1, <2>1, <2>2, <2>3, <2>4 DEF PUBLISH_TYPE
<1>2. CASE qos = 1
  <2>1. flags = (IF duplicate THEN 8 ELSE 0) + (IF retain THEN 1 ELSE 0) + 2
    BY <1>2
    DEF PublishFlags, DELIVER_AT_MOST_ONCE, DELIVER_AT_LEAST_ONCE, DELIVER_EXACTLY_ONCE
  <2>2. flags \in {2, 3, 10, 11} /\ (duplicate <=> flags \in {10, 11}) /\ (retain <=> flags \in {3, 11})
    BY <2>1
  <2>3. QED
    BY <1>2, <2>2
    DEF TypeOf, FlagsOf, QosOfFlags, Bit, PUBLISH_TYPE, DELIVER_AT_MOST_ONCE, DELIVER_AT_LEAST_ONCE
<1>3. CASE qos = 2
  <2>1. flags = (IF duplicate THEN 8 ELSE 0) + (IF retain THEN 1 ELSE 0) + 4
    BY <1>3
    DEF PublishFlags, DELIVER_AT_MOST_ONCE, DELIVER_AT_LEAST_ONCE, DELIVER_EXACTLY_ONCE
  <2>2. flags \in {4, 5, 12, 13} /\ (duplicate <=> flags \in {12, 13}) /\ (retain <=> flags \in {5, 13})
    BY <2>1
  <2>3. QED
    BY <1>3, <2>2
    DEF TypeOf, FlagsOf, QosOfFlags, Bit, PUBLISH_TYPE, DELIVER_AT_MOST_ONCE, DELIVER_EXACTLY_ONCE
<1>4. QED
  BY <1>1, <1>2, <1>3

PublishBody(message) == constructPublishVariableHeader(message) \o message.payload

\* ProcessPublishMessage finds the topic, the number and the payload where they are.
LEMMA ReadPublish ==
    ASSUME NEW request, Meaningful(request), request.call = "publish",
           Len(request.message.topicName) <= 65535,
           NEW flags,
           flags = PublishFlags(request.message.qos, request.message.duplicate,
                                request.message.retain)
    PROVE  /\ PublishBody(request.message) \in Seq(Byte) \ {<<>>}
           /\ PublishedMessage(flags, PublishBody(request.message)) = Sent(request.message)
<1> DEFINE message == request.message
           body == PublishBody(message)
           topic == message.topicName
           id == byteutil_writeInt(message.packetId)
           behind == IF message.qos = 0 THEN message.payload ELSE id \o message.payload
<1>1. /\ message \in [qos : 0 .. 2, duplicate : BOOLEAN, retain : BOOLEAN, packetId : UShort,
                      topicName : Seq(Byte) \ {<<>>}, payload : Seq(Byte)]
      /\ message.qos = 0 => ~message.duplicate /\ ~message.retain
      /\ message.qos # 0 => message.packetId # 0
      /\ Len(topic) <= 65535
  BY DEF Meaningful, DELIVER_AT_MOST_ONCE
<1>2. flags = PublishFlags(message.qos, message.duplicate, message.retain)
  OBVIOUS
<1> HIDE DEF message
<1>3. /\ topic \in Seq(Byte) /\ topic # <<>> /\ message.payload \in Seq(Byte)
      /\ message.packetId \in UShort /\ message.qos \in 0 .. 2
      /\ message.duplicate \in BOOLEAN /\ message.retain \in BOOLEAN
  BY <1>1
<1>4. byteutil_writeUTF(topic) \in Seq(Byte)
  BY <1>1, <1>3, WriteUTF DEF Item
<1>5. /\ id \in Seq(Byte) /\ id \o message.payload \in Seq(Byte)
      /\ byteutil_read_uint16(id \o message.payload) = message.packetId
      /\ From(id \o message.payload, 3) = message.payload
  <2>1. message.packetId \in Nat /\ message.packetId <= 65535
    BY <1>3 DEF UShort
  <2>2. id \in Seq(Byte)
    BY <2>1, WriteInt
  <2>3. QED
    BY <1>3, <2>2, ReadInt
<1> HIDE DEF id, topic
<1>6. behind \in Seq(Byte)
  BY <1>3, <1>5
<1>7. body = byteutil_writeUTF(topic) \o behind
  <2>1. CASE message.qos = 0
    <3>1. body = (byteutil_writeUTF(topic) \o <<>>) \o message.payload
      BY <2>1 DEF PublishBody, constructPublishVariableHeader, DELIVER_AT_MOST_ONCE, topic
    <3>2. byteutil_writeUTF(topic) \o <<>> = byteutil_writeUTF(topic)
      BY <1>4, ConcatEmptySeq
    <3>3. QED
      BY <2>1, <3>1, <3>2
  <2>2. CASE message.qos # 0
    <3>0. constructPublishVariableHeader(message) = byteutil_writeUTF(topic) \o id
      BY <2>2 DEF constructPublishVariableHeader, DELIVER_AT_MOST_ONCE, topic, id
    <3>1. body = (byteutil_writeUTF(topic) \o id) \o message.payload
      BY <3>0 DEF PublishBody
    <3>2. (byteutil_writeUTF(topic) \o id) \o message.payload
              = byteutil_writeUTF(topic) \o (id \o message.payload)
      <4> DEFINE first == byteutil_writeUTF(topic)
                 second == id
                 third == message.payload
      <4>1. first \in Seq(Byte) /\ second \in Seq(Byte) /\ third \in Seq(Byte)
        BY <1>3, <1>4, <1>5
      <4> HIDE DEF first, second, third
      <4>2. (first \o second) \o third = first \o (second \o third)
        BY <4>1, Regroup
      <4>3. QED
        BY <4>2 DEF first, second, third
    <3>3. QED
      BY <2>2, <3>1, <3>2
  <2>3. QED
    BY <2>1, <2>2
<1> HIDE DEF behind, body
<1>8. /\ body \in Seq(Byte) /\ byteutil_readUTF(body) = topic
      /\ From(body, Length(topic) + 3) = behind
  BY <1>1, <1>3, <1>6, <1>7, ReadUTF
<1>9. /\ QosOfFlags(flags) = message.qos
      /\ Bit(flags, 8) <=> message.duplicate
      /\ Bit(flags, 1) <=> message.retain
  BY <1>1, <1>2, <1>3, FlagsOfPublish
<1>10. Bit(flags, 8) = message.duplicate /\ Bit(flags, 1) = message.retain
  BY <1>3, <1>9 DEF Bit
<1>11. topic # NULL
  BY <1>3, PacketsAssumption
<1>12. body # <<>>
  BY <1>8, <1>11, EmptySeq DEF byteutil_readUTF, byteutil_read_uint16
<1> DEFINE Result(id_) ==
        [qos |-> message.qos, duplicate |-> message.duplicate, retain |-> message.retain,
         packetId |-> id_, topicName |-> topic, payload |-> message.payload]
<1>13. PublishedMessage(flags, body) = Sent(message)
  <2>1. CASE message.qos = 0
    <3>1. behind = message.payload
      BY <2>1 DEF behind
    <3>2. PublishedMessage(flags, body) = Result(0)
      BY <1>8, <1>9, <1>10, <1>11, <2>1, <3>1 DEF PublishedMessage, DELIVER_AT_MOST_ONCE
    <3>3. Sent(message) = [message EXCEPT !.packetId = 0]
      BY <2>1 DEF Sent, DELIVER_AT_MOST_ONCE
    <3>4. QED
      BY <1>1, <3>2, <3>3 DEF topic
  <2>2. CASE message.qos # 0
    <3>1. behind = id \o message.payload /\ message.packetId # 0
      BY <1>1, <2>2 DEF behind
    <3>2. From(behind, 3) = message.payload /\ byteutil_read_uint16(behind) = message.packetId
      BY <1>5, <3>1
    <3>3. PublishedMessage(flags, body) = Result(message.packetId)
      <4>1. PublishedMessage(flags, body) =
                [qos |-> message.qos, duplicate |-> Bit(flags, 8), retain |-> Bit(flags, 1),
                 packetId |-> byteutil_read_uint16(behind), topicName |-> topic,
                 payload |-> From(behind, 3)]
        <5>1. byteutil_read_uint16(behind) # 0
          BY <3>1, <3>2
        <5>2. QED
          BY <1>8, <1>9, <1>11, <2>2, <5>1 DEF PublishedMessage, DELIVER_AT_MOST_ONCE
      <4>2. QED
        BY <1>10, <3>2, <4>1
    <3>4. Sent(message) = message
      BY <2>2 DEF Sent, DELIVER_AT_MOST_ONCE
    <3>5. message = Result(message.packetId)
      BY <1>1 DEF topic
    <3>6. QED
      BY <3>3, <3>4, <3>5
  <2>3. QED
    BY <2>1, <2>2
<1>14. QED
  BY <1>8, <1>12, <1>13 DEF body, message

LEMMA ReadReply ==
    ASSUME NEW packetId \in UShort
    PROVE  /\ byteutil_writeInt(packetId) \in Seq(Byte) \ {<<>>}
           /\ AcknowledgedId(byteutil_writeInt(packetId)) = packetId
<1>1. packetId \in Nat /\ packetId <= 65535
  BY DEF UShort
<1> DEFINE size == byteutil_writeInt(packetId)
<1>2. size \in Seq(Byte) /\ Len(size) = 2 /\ 256 * size[1] + size[2] = packetId
  BY <1>1, WriteInt
<1> HIDE DEF size
<1>3. size # <<>>
  BY <1>2, EmptySeq
<1>4. AcknowledgedId(size) = packetId
  BY <1>2 DEF AcknowledgedId, byteutil_read_uint16
<1>5. QED
  BY <1>2, <1>3, <1>4 DEF size

-----------------------------------------------------------------------------
(* SUBSCRIBE and UNSUBSCRIBE.                                              *)

SubscribeItems(list) ==
    [i \in DOMAIN list |-> byteutil_writeUTF(list[i].topic) \o <<list[i].qos>>]
SubscribeStrings(list) == [i \in DOMAIN list |-> Append(list[i].topic, list[i].qos)]

Filters == Seq([topic : Seq(Byte), qos : 0 .. 2])

SubscribeBody(packetId, list) == byteutil_writeInt(packetId) \o addListItems(SubscribeItems(list))

LEMMA ReadSubscribe ==
    ASSUME NEW packetId \in UShort, NEW list \in Filters,
           \A i \in DOMAIN list : Len(list[i].topic) <= 65535,
           NEW body, body = SubscribeBody(packetId, list)
    PROVE  body \in Seq(Byte) \ {<<>>} /\ IsSubscribe(body, packetId, list)
<1> DEFINE N == Len(list)
           items == SubscribeItems(list)
           strings == SubscribeStrings(list)
<1>1. N \in Nat /\ DOMAIN list = 1 .. N
  BY LenProperties DEF Filters
<1>2. ASSUME NEW i \in 1 .. N
      PROVE  /\ list[i].topic \in Seq(Byte) /\ list[i].qos \in Byte
             /\ Len(list[i].topic) <= 65535
  <2> DEFINE Filter == [topic : Seq(Byte), qos : 0 .. 2]
  <2>1. list \in Seq(Filter)
    BY DEF Filters
  <2> HIDE DEF Filter
  <2>2. list[i] \in Filter
    BY <2>1, ElementOfSeq
  <2>3. list[i].topic \in Seq(Byte) /\ list[i].qos \in 0 .. 2
    BY <2>2 DEF Filter
  <2>4. i \in DOMAIN list
    BY <1>1
  <2> HIDE DEF N
  <2>5. Len(list[i].topic) <= 65535
    BY <2>4
  <2>6. QED
    BY <2>3, <2>5 DEF Byte
<1>3. items = [i \in 1 .. N |-> items[i]] /\ strings = [i \in 1 .. N |-> strings[i]]
  BY <1>1 DEF SubscribeItems, SubscribeStrings
<1>4. ASSUME NEW i \in 1 .. N
      PROVE  Item(items[i], strings[i], 1)
  <2>1. items[i] = byteutil_writeUTF(list[i].topic) \o <<list[i].qos>>
    BY <1>1 DEF SubscribeItems
  <2>2. strings[i] = Append(list[i].topic, list[i].qos)
    BY <1>1 DEF SubscribeStrings
  <2>3. QED
    BY <1>2, <2>1, <2>2, WriteUTFAndByte
<1> HIDE DEF N, items, strings
<1>5. \A i \in 1 .. N : items[i] \in Seq(Byte) /\ strings[i] \in Seq(Byte)
  BY <1>4 DEF Item
<1>6. Len(items) = N /\ strings \in Strings /\ Len(strings) = N
  <2>1. Len(items) = N
    BY <1>1, <1>3, <1>5
  <2> DEFINE S == Seq(Byte)
             String(i) == strings[i]
  <2>2. \A i \in 1 .. N : String(i) \in S
    BY <1>5
  <2>3. strings = [i \in 1 .. N |-> String(i)]
    BY <1>3
  <2> HIDE DEF S, String
  <2>4. [i \in 1 .. N |-> String(i)] \in Seq(S) /\ Len([i \in 1 .. N |-> String(i)]) = N
    BY <1>1, <2>2, IsASeq
  <2>5. QED
    BY <2>1, <2>3, <2>4 DEF Strings, S
<1>7. addListItems(items) \in Seq(Byte) /\ Reads(addListItems(items), 1, strings)
  BY <1>4, <1>6, ListItems
<1>8. IsList(addListItems(items), 1, strings)
  BY <1>6, <1>7, CutsAreUnique DEF Reads
<1>9. body = byteutil_writeInt(packetId) \o addListItems(items)
  BY DEF items, SubscribeBody
<1>10. /\ body \in Seq(Byte) \ {<<>>} /\ byteutil_read_uint16(body) = packetId
       /\ From(body, 3) = addListItems(items)
  BY <1>7, <1>9, ReadInt
<1>11. QED
  BY <1>8, <1>10 DEF IsSubscribe, strings, SubscribeStrings

UnsubscribeItems(list) == [i \in DOMAIN list |-> byteutil_writeUTF(list[i])]

UnsubscribeBody(packetId, list) == byteutil_writeInt(packetId) \o addListItems(UnsubscribeItems(list))

LEMMA ReadUnsubscribe ==
    ASSUME NEW packetId \in UShort, NEW list \in Strings,
           \A i \in DOMAIN list : Len(list[i]) <= 65535,
           NEW body, body = UnsubscribeBody(packetId, list)
    PROVE  body \in Seq(Byte) \ {<<>>} /\ IsUnsubscribe(body, packetId, list)
<1> DEFINE N == Len(list)
           items == UnsubscribeItems(list)
<1>1. N \in Nat /\ DOMAIN list = 1 .. N
  BY LenProperties DEF Strings
<1>2. ASSUME NEW i \in 1 .. N
      PROVE  list[i] \in Seq(Byte) /\ Len(list[i]) <= 65535
  <2>1. list[i] \in Seq(Byte)
    BY ElementOfSeq DEF Strings
  <2>2. i \in DOMAIN list
    BY <1>1
  <2>3. QED
    BY <2>1, <2>2
<1>3. items = [i \in 1 .. N |-> items[i]]
  BY <1>1 DEF UnsubscribeItems
<1>4. ASSUME NEW i \in 1 .. N
      PROVE  Item(items[i], list[i], 0)
  <2>1. items[i] = byteutil_writeUTF(list[i])
    BY <1>1 DEF UnsubscribeItems
  <2>2. QED
    BY <1>2, <2>1, WriteUTF
<1>5. \A i \in 1 .. N : items[i] \in Seq(Byte)
  BY <1>4 DEF Item
<1> HIDE DEF items
<1>6. Len(items) = N
  BY <1>1, <1>3, <1>5
<1>7. addListItems(items) \in Seq(Byte) /\ Reads(addListItems(items), 0, list)
  BY <1>4, <1>6, ListItems
<1>8. IsList(addListItems(items), 0, list)
  BY <1>7, CutsAreUnique DEF Reads
<1>9. body = byteutil_writeInt(packetId) \o addListItems(items)
  BY DEF items, UnsubscribeBody
<1>10. /\ body \in Seq(Byte) \ {<<>>} /\ byteutil_read_uint16(body) = packetId
       /\ From(body, 3) = addListItems(items)
  BY <1>7, <1>9, ReadInt
<1>11. QED
  BY <1>8, <1>10 DEF IsUnsubscribe

-----------------------------------------------------------------------------
(* CONNECT.                                                                *)

\* A string that is not given, or given and not empty.
Proper(string) == string = NULL \/ (string \in Seq(Byte) /\ string # <<>> /\ Len(string) <= 65535)

LEMMA LengthOfProper ==
    ASSUME NEW string, Proper(string)
    PROVE  /\ Length(string) \in Nat
           /\ Length(string) > 0 <=> string # NULL
           /\ Length(string) = 0 <=> string = NULL
<1>1. CASE string = NULL
  BY <1>1 DEF Length
<1>2. CASE string # NULL
  <2>1. Len(string) \in Nat \ {0}
    BY <1>2, EmptySeq DEF Proper
  <2>2. QED
    BY <1>2, <2>1 DEF Length
<1>3. QED
  BY <1>1, <1>2

LEMMA Joined ==
    ASSUME NEW first \in Seq(Byte), NEW rest \in Seq(Byte)
    PROVE  /\ first \o rest \in Seq(Byte)
           /\ Len(first \o rest) = Len(first) + Len(rest)
           /\ \A i \in 1 .. Len(first) : (first \o rest)[i] = first[i]
           /\ \A i \in 1 .. Len(rest) : (first \o rest)[Len(first) + i] = rest[i]
<1> DEFINE bytes == first \o rest
<1>1. /\ bytes \in Seq(Byte) /\ Len(bytes) = Len(first) + Len(rest)
      /\ \A i \in 1 .. Len(first) + Len(rest) :
             bytes[i] = IF i <= Len(first) THEN first[i] ELSE rest[i - Len(first)]
  BY ConcatProperties
<1>2. Len(first) \in Nat /\ Len(rest) \in Nat
  BY LenProperties
<1> HIDE DEF bytes
<1>3. \A i \in 1 .. Len(first) : bytes[i] = first[i]
  BY <1>1, <1>2
<1>4. ASSUME NEW i \in 1 .. Len(rest) PROVE bytes[Len(first) + i] = rest[i]
  <2>1. /\ Len(first) + i \in 1 .. Len(first) + Len(rest) /\ ~(Len(first) + i <= Len(first))
        /\ (Len(first) + i) - Len(first) = i
    BY <1>2
  <2>2. QED
    BY <1>1, <2>1
<1>5. QED
  BY <1>1, <1>3, <1>4 DEF bytes

\* The protocol name, the protocol level and the flags.
NameLevelFlags(flags) == byteutil_writeUTF(<<77, 81, 84, 84>>) \o <<4, flags>>

LEMMA FirstEight ==
    ASSUME NEW flags \in Byte, NEW eight, eight = NameLevelFlags(flags)
    PROVE  /\ eight \in Seq(Byte) /\ Len(eight) = 8
           /\ eight[1] = 0 /\ eight[2] = 4 /\ eight[3] = 77 /\ eight[4] = 81 /\ eight[5] = 84
           /\ eight[6] = 84 /\ eight[7] = 4 /\ eight[8] = flags
<1> DEFINE name == <<77, 81, 84, 84>>
           four == byteutil_writeInt(4)
           six == four \o name
           two == <<4, flags>>
           all == six \o two
<1>1. name \in Seq(Byte)
  BY DEF Byte
<1>2. Len(name) = 4
  OBVIOUS
<1>3. name[1] = 77 /\ name[2] = 81 /\ name[3] = 84 /\ name[4] = 84
  OBVIOUS
<1>4. two \in Seq(Byte)
  BY DEF Byte
<1>5. Len(two) = 2
  OBVIOUS
<1>6. two[1] = 4 /\ two[2] = flags
  OBVIOUS
<1>7. four \in Seq(Byte)
  BY DEF byteutil_writeInt, Byte
<1>8. Len(four) = 2
  BY DEF byteutil_writeInt
<1>9. four[1] = 0 /\ four[2] = 4
  BY DEF byteutil_writeInt
<1>10. eight = all
  <2>1. byteutil_writeUTF(name) = byteutil_writeInt(Len(name)) \o name
    BY DEF byteutil_writeUTF
  <2>2. QED
    BY <1>2, <2>1 DEF NameLevelFlags
<1> HIDE DEF name, four, two, six
<1>11. /\ six \in Seq(Byte)
       /\ Len(six) = Len(four) + Len(name)
       /\ \A i \in 1 .. Len(four) : six[i] = four[i]
       /\ \A i \in 1 .. Len(name) : six[Len(four) + i] = name[i]
  BY <1>1, <1>7, Joined DEF six
<1>12. six \in Seq(Byte)
  BY <1>11
<1>13. Len(six) = 6
  BY <1>2, <1>8, <1>11
<1> HIDE DEF all
<1>14. /\ all \in Seq(Byte)
       /\ Len(all) = Len(six) + Len(two)
       /\ \A i \in 1 .. Len(six) : all[i] = six[i]
       /\ \A i \in 1 .. Len(two) : all[Len(six) + i] = two[i]
  BY <1>4, <1>12, Joined DEF all
<1>15. all[1] = 0 /\ all[2] = 4
  BY <1>8, <1>9, <1>11, <1>13, <1>14
<1>16. all[3] = 77 /\ all[4] = 81 /\ all[5] = 84 /\ all[6] = 84
  <2>1. six[2 + 1] = 77 /\ six[2 + 2] = 81 /\ six[2 + 3] = 84 /\ six[2 + 4] = 84
    BY <1>2, <1>3, <1>8, <1>11
  <2>2. QED
    BY <1>13, <1>14, <2>1
<1>17. all[6 + 1] = 4 /\ all[6 + 2] = flags
  <2>1. all[6 + 1] = two[1]
    BY <1>5, <1>13, <1>14
  <2>2. all[6 + 2] = two[2]
    BY <1>5, <1>13, <1>14
  <2>3. QED
    BY <1>6, <2>1, <2>2, Zenon
<1>18. Len(all) = 8
  <2>1. Len(all) = Len(six) + Len(two)
    BY <1>14, Zenon
  <2>2. QED
    BY <1>5, <1>13, <2>1
<1>19. all \in Seq(Byte)
  BY <1>14, Zenon
<1>20. all[7] = 4 /\ all[8] = flags
  <2>1. 6 + 1 = 7 /\ 6 + 2 = 8
    OBVIOUS
  <2>2. QED
    BY <1>17, <2>1, Zenon
<1>21. QED
  BY <1>10, <1>15, <1>16, <1>18, <1>19, <1>20, Zenon

LEMMA BehindEight ==
    ASSUME NEW eight \in Seq(Byte), NEW behind \in Seq(Byte), Len(eight) = 8
    PROVE  /\ eight \o behind \in Seq(Byte) \ {<<>>}
           /\ SubSeq(eight \o behind, 1, 7) \in Seq(Byte)
           /\ Len(SubSeq(eight \o behind, 1, 7)) = 7
           /\ \A i \in 1 .. 7 : SubSeq(eight \o behind, 1, 7)[i] = eight[i]
           /\ (eight \o behind)[8] = eight[8]
           /\ From(eight \o behind, 9) = behind
<1> DEFINE bytes == eight \o behind
<1>1. Len(behind) \in Nat
  BY LenProperties
<1>2. /\ bytes \in Seq(Byte) /\ Len(bytes) = Len(eight) + Len(behind)
      /\ \A i \in 1 .. Len(eight) : bytes[i] = eight[i]
  BY Joined
<1>3. From(bytes, Len(eight) + 1) = behind
  BY FromConcat
<1> HIDE DEF bytes
<1>4. Len(bytes) >= 8 /\ Len(bytes) \in Nat
  BY <1>1, <1>2
<1>5. \A i \in 1 .. 8 : bytes[i] = eight[i]
  BY <1>2
<1>6. bytes \in Seq(Byte)
  BY <1>2
<1>7. \A i \in 1 .. 7 : bytes[i] \in Byte
  BY <1>4, <1>6, ElementOfSeq
<1>8. /\ SubSeq(bytes, 1, 7) \in Seq(Byte)
      /\ Len(SubSeq(bytes, 1, 7)) = IF 1 <= 7 THEN 7 - 1 + 1 ELSE 0
      /\ \A i \in 1 .. 7 - 1 + 1 : SubSeq(bytes, 1, 7)[i] = bytes[1 + i - 1]
  <2> DEFINE one == 1
             seven == 7
  <2>1. one \in Int /\ seven \in Int /\ \A i \in one .. seven : bytes[i] \in Byte
    BY <1>7
  <2> HIDE DEF one, seven
  <2>2. /\ SubSeq(bytes, one, seven) \in Seq(Byte)
        /\ Len(SubSeq(bytes, one, seven)) = IF one <= seven THEN seven - one + 1 ELSE 0
        /\ \A i \in 1 .. seven - one + 1 : SubSeq(bytes, one, seven)[i] = bytes[one + i - 1]
    BY <2>1, SubSeqProperties
  <2>3. QED
    BY <2>2 DEF one, seven
<1>9. ASSUME NEW i \in 1 .. 7 PROVE SubSeq(bytes, 1, 7)[i] = eight[i]
  <2>1. i \in 1 .. 7 - 1 + 1 /\ 1 + i - 1 = i /\ i \in 1 .. 8
    OBVIOUS
  <2>2. QED
    BY <1>5, <1>8, <2>1
<1>10. bytes # <<>>
  BY <1>4, EmptySeq
<1>11. From(bytes, 9) = behind
  BY <1>3
<1>12. bytes[8] = eight[8]
  BY <1>5
<1>13. Len(SubSeq(bytes, 1, 7)) = 7 /\ SubSeq(bytes, 1, 7) \in Seq(Byte)
  BY <1>8
<1>14. QED
  BY <1>6, <1>9, <1>10, <1>11, <1>12, <1>13 DEF bytes

\* The keep alive interval and the payload behind them.
Behind(eight, interval, rest) == (eight \o byteutil_writeInt(interval)) \o rest

LEMMA HeaderOfConnect ==
    ASSUME NEW interval \in UShort, NEW rest \in Seq(Byte), NEW eight \in Seq(Byte),
           Len(eight) = 8,
           NEW bytes, bytes = Behind(eight, interval, rest)
    PROVE  /\ bytes \in Seq(Byte) \ {<<>>}
           /\ SubSeq(bytes, 1, 7) \in Seq(Byte) /\ Len(SubSeq(bytes, 1, 7)) = 7
           /\ \A i \in 1 .. 7 : SubSeq(bytes, 1, 7)[i] = eight[i]
           /\ bytes[8] = eight[8]
           /\ byteutil_read_uint16(From(bytes, 9)) = interval
           /\ From(bytes, 11) = rest
<1> DEFINE size == byteutil_writeInt(interval)
           behind == size \o rest
           header == eight \o size
<1>1. size \in Seq(Byte)
  BY WriteInt DEF UShort
<1>2. Len(size) = 2
  BY WriteInt DEF UShort
<1>3. behind \in Seq(Byte) /\ byteutil_read_uint16(behind) = interval
  BY ReadInt
<1>4. bytes = header \o rest
  BY DEF Behind
<1>5. header \o rest = eight \o behind
  <2> HIDE DEF size
  <2>1. QED
    BY <1>1, Regroup
<1> HIDE DEF size, behind
<1>6. header \in Seq(Byte) /\ Len(header) = Len(eight) + Len(size)
  BY <1>1, Joined
<1> HIDE DEF header
<1>7. 11 = Len(header) + 1
  BY <1>2, <1>6
<1>8. From(bytes, 11) = rest
  BY <1>4, <1>6, <1>7, FromConcat
<1>9. bytes = eight \o behind
  BY <1>4, <1>5
<1> DEFINE all == eight \o behind
<1>10. /\ all \in Seq(Byte) \ {<<>>}
       /\ SubSeq(all, 1, 7) \in Seq(Byte) /\ Len(SubSeq(all, 1, 7)) = 7
       /\ \A i \in 1 .. 7 : SubSeq(all, 1, 7)[i] = eight[i]
       /\ all[8] = eight[8]
       /\ From(all, 9) = behind
  BY <1>3, BehindEight
<1>11. bytes = all
  BY <1>9
<1> HIDE DEF all
<1>12. QED
  BY <1>3, <1>8, <1>10, <1>11, Zenon

\* The digits of the connect flags.
LEMMA FlagDigits ==
    ASSUME NEW u \in 0 .. 1, NEW p \in 0 .. 1, NEW r \in 0 .. 1, NEW q \in 0 .. 2,
           NEW w \in 0 .. 1, NEW c \in 0 .. 1,
           NEW flags, flags = 128 * u + 64 * p + 32 * r + 8 * q + 4 * w + 2 * c
    PROVE  /\ flags \in Byte
           /\ (flags \div 128) % 2 = u /\ (flags \div 64) % 2 = p /\ (flags \div 32) % 2 = r
           /\ (flags \div 8) % 4 = q /\ (flags \div 4) % 2 = w /\ (flags \div 2) % 2 = c
           /\ (flags \div 1) % 2 = 0
<1>1. flags \in 0 .. 255
  OBVIOUS
<1>2. flags \div 128 = u
  OBVIOUS
<1>3. flags \div 64 = 2 * u + p
  OBVIOUS
<1>4. flags \div 32 = 4 * u + 2 * p + r
  OBVIOUS
<1>5. flags \div 8 = 16 * u + 8 * p + 4 * r + q
  OBVIOUS
<1>6. flags \div 4 = 32 * u + 16 * p + 8 * r + 2 * q + w
  OBVIOUS
<1>7. flags \div 2 = 64 * u + 32 * p + 16 * r + 4 * q + 2 * w + c
  OBVIOUS
<1>8. flags \div 1 = flags
  OBVIOUS
<1>9. u % 2 = u /\ (2 * u + p) % 2 = p /\ (4 * u + 2 * p + r) % 2 = r
  OBVIOUS
<1>10. (16 * u + 8 * p + 4 * r + q) % 4 = q /\ (32 * u + 16 * p + 8 * r + 2 * q + w) % 2 = w
  OBVIOUS
<1>11. (64 * u + 32 * p + 16 * r + 4 * q + 2 * w + c) % 2 = c /\ flags % 2 = 0
  OBVIOUS
<1>12. QED
  BY <1>1, <1>2, <1>3, <1>4, <1>5, <1>6, <1>7, <1>8, <1>9, <1>10, <1>11 DEF Byte

\* What constructConnPayload writes and Given lists, string by string.
LEMMA MaybeOne ==
    ASSUME NEW string, Proper(string),
           NEW bytes \in Seq(Byte), NEW strings \in Strings, Reads(bytes, 0, strings)
    PROVE  /\ bytes \o Optional(string) \in Seq(Byte)
           /\ Len(bytes \o Optional(string)) = Len(bytes) + Space(string)
           /\ strings \o Given(string) \in Strings
           /\ Reads(bytes \o Optional(string), 0, strings \o Given(string))
<1>1. CASE string = NULL
  <2>1. Optional(string) = <<>> /\ Given(string) = <<>> /\ Space(string) = 0
    BY <1>1 DEF Optional, Given, Space, Length
  <2>2. bytes \o <<>> = bytes
    BY ConcatEmptySeq
  <2>3. strings \o <<>> = strings
    BY ConcatEmptySeq DEF Strings
  <2>4. Len(bytes) \in Nat
    BY LenProperties
  <2>5. QED
    BY <2>1, <2>2, <2>3, <2>4
<1>2. CASE string # NULL
  <2>1. string \in Seq(Byte) /\ Len(string) <= 65535
    BY <1>2 DEF Proper
  <2>2. Optional(string) = byteutil_writeUTF(string)
    BY <1>2, LengthOfProper DEF Optional
  <2>3. Given(string) = <<string>> /\ Space(string) = 2 + Len(string)
    BY <1>2 DEF Given, Space
  <2> DEFINE item == byteutil_writeUTF(string)
  <2>4. Item(item, string, 0)
    BY <2>1, WriteUTF
  <2>5. item \in Seq(Byte) /\ Len(item) = 2 + Len(string)
    BY <2>4 DEF Item
  <2> HIDE DEF item
  <2>6. strings \o <<string>> = Append(strings, string)
    <3> DEFINE S == Seq(Byte)
    <3>1. strings \in Seq(S) /\ string \in S
      BY <2>1 DEF Strings
    <3> HIDE DEF S
    <3>2. QED
      BY <3>1, AppendIsConcat
  <2>7. 0 \in 0 .. 1
    OBVIOUS
  <2>8. /\ bytes \o item \in Seq(Byte) /\ Append(strings, string) \in Strings
        /\ Reads(bytes \o item, 0, Append(strings, string))
    BY <2>4, <2>7, OneMore
  <2>9. Len(bytes \o item) = Len(bytes) + Len(item)
    BY <2>5, ConcatProperties
  <2>10. QED
    BY <2>2, <2>3, <2>5, <2>6, <2>8, <2>9 DEF item
<1>3. QED
  BY <1>1, <1>2


\* What a call of mqtt_codec_connect that is not refused can rely on.
Connectable(options) ==
    /\ options.clientId \in Seq(Byte) /\ Len(options.clientId) <= 65535
    /\ Proper(options.willTopic) /\ Proper(options.willMessage)
    /\ Proper(options.username) /\ Proper(options.password)
    /\ options.willTopic # NULL <=> options.willMessage # NULL
    /\ options.keepAliveInterval \in UShort
    /\ options.qualityOfServiceValue \in 0 .. 2
    /\ options.messageRetain \in BOOLEAN /\ options.useCleanSession \in BOOLEAN

ConnectList(options) ==
    Given(options.clientId)
    \o Given(options.willTopic) \o Given(options.willMessage)
    \o Given(options.username) \o Given(options.password)

LEMMA WillOrNot ==
    ASSUME NEW options, Connectable(options)
    PROVE  HasWill(options) <=> options.willTopic # NULL
BY LengthOfProper DEF Connectable, HasWill

\* The will is written like any other strings.
LEMMA WrittenInOrder ==
    ASSUME NEW options, Connectable(options), NEW first, first = byteutil_writeUTF(options.clientId)
    PROVE  ConnectWritten(options) =
               (((first \o Optional(options.willTopic)) \o Optional(options.willMessage))
                \o Optional(options.username)) \o Optional(options.password)
<1> DEFINE topic == byteutil_writeUTF(options.willTopic)
           message == byteutil_writeUTF(options.willMessage)
           will == IF HasWill(options) THEN topic \o message ELSE <<>>
           both == (first \o Optional(options.willTopic)) \o Optional(options.willMessage)
<1>1. ConnectWritten(options)
      = ((first \o will) \o Optional(options.username)) \o Optional(options.password)
  BY DEF ConnectWritten
<1>2. Item(first, options.clientId, 0)
  BY WriteUTF DEF Connectable
<1>3. first \in Seq(Byte)
  BY <1>2 DEF Item
<1>4. CASE options.willTopic # NULL
  <2>1. /\ options.willTopic \in Seq(Byte) /\ Len(options.willTopic) <= 65535
        /\ options.willMessage \in Seq(Byte) /\ Len(options.willMessage) <= 65535
        /\ Length(options.willTopic) # 0 /\ Length(options.willMessage) # 0
    BY <1>4, LengthOfProper DEF Connectable, Proper
  <2>2. Item(topic, options.willTopic, 0) /\ Item(message, options.willMessage, 0)
    BY <2>1, WriteUTF
  <2>3. topic \in Seq(Byte) /\ message \in Seq(Byte)
    BY <2>2 DEF Item
  <2>4. Optional(options.willTopic) = topic /\ Optional(options.willMessage) = message
    BY <2>1 DEF Optional
  <2>5. will = topic \o message
    BY <1>4, WillOrNot
  <2> HIDE DEF topic, message
  <2>6. (first \o topic) \o message = first \o (topic \o message)
    BY <1>3, <2>3, Regroup
  <2>7. first \o will = both
    BY <2>4, <2>5, <2>6
  <2>8. QED
    BY <1>1, <2>7
<1>5. CASE options.willTopic = NULL
  <2>1. Optional(options.willTopic) = <<>> /\ Optional(options.willMessage) = <<>>
    BY <1>5, LengthOfProper DEF Optional, Connectable
  <2>2. will = <<>>
    BY <1>5, WillOrNot
  <2>3. first \o <<>> = first
    BY <1>3, ConcatEmptySeq
  <2>4. first \o will = both
    BY <2>1, <2>2, <2>3
  <2>5. QED
    BY <1>1, <2>4
<1>6. QED
  BY <1>4, <1>5

LEMMA ConnectPayload ==
    ASSUME NEW options, Connectable(options)
    PROVE  /\ constructConnPayload(options) \in Seq(Byte)
           /\ IsList(constructConnPayload(options), 0, ConnectList(options))
<1> DEFINE b1 == byteutil_writeUTF(options.clientId)
           b2 == b1 \o Optional(options.willTopic)
           b3 == b2 \o Optional(options.willMessage)
           b4 == b3 \o Optional(options.username)
           b5 == b4 \o Optional(options.password)
           s1 == Given(options.clientId)
           s2 == s1 \o Given(options.willTopic)
           s3 == s2 \o Given(options.willMessage)
           s4 == s3 \o Given(options.username)
           s5 == s4 \o Given(options.password)
<1>1. /\ options.clientId \in Seq(Byte) /\ Len(options.clientId) <= 65535
      /\ Proper(options.willTopic) /\ Proper(options.willMessage)
      /\ Proper(options.username) /\ Proper(options.password)
  BY DEF Connectable
<1>2. options.clientId # NULL
  BY <1>1, PacketsAssumption
<1>3. s1 = <<options.clientId>> /\ Space(options.clientId) = 2 + Len(options.clientId)
  BY <1>2 DEF Given, Space
<1>4. Item(b1, options.clientId, 0)
  BY <1>1, WriteUTF
<1>5. b1 \in Seq(Byte) /\ Len(b1) = 2 + Len(options.clientId)
  BY <1>4 DEF Item
<1>6. s1 \in Strings /\ Reads(b1, 0, s1)
  <2>1. Reads(<<>>, 0, <<>>) /\ <<>> \in Seq(Byte)
    BY NoStrings, EmptySeq
  <2>2. <<>> \in Strings
    BY EmptySeq DEF Strings
  <2>3. 0 \in 0 .. 1
    OBVIOUS
  <2> HIDE DEF b1
  <2>4. /\ Append(<<>>, options.clientId) \in Strings
        /\ Reads(<<>> \o b1, 0, Append(<<>>, options.clientId))
    BY <1>4, <2>1, <2>2, <2>3, OneMore
  <2>5. <<>> \o b1 = b1
    BY <1>5, ConcatEmptySeq
  <2>6. Append(<<>>, options.clientId) = <<options.clientId>>
    OBVIOUS
  <2>7. QED
    BY <1>3, <2>4, <2>5, <2>6
<1> HIDE DEF b1, s1
<1>7. /\ b2 \in Seq(Byte) /\ Len(b2) = Len(b1) + Space(options.willTopic)
      /\ s2 \in Strings /\ Reads(b2, 0, s2)
  BY <1>1, <1>5, <1>6, MaybeOne
<1> HIDE DEF b2, s2
<1>8. /\ b3 \in Seq(Byte) /\ Len(b3) = Len(b2) + Space(options.willMessage)
      /\ s3 \in Strings /\ Reads(b3, 0, s3)
  BY <1>1, <1>7, MaybeOne
<1> HIDE DEF b3, s3
<1>9. /\ b4 \in Seq(Byte) /\ Len(b4) = Len(b3) + Space(options.username)
      /\ s4 \in Strings /\ Reads(b4, 0, s4)
  BY <1>1, <1>8, MaybeOne
<1> HIDE DEF b4, s4
<1>10. /\ b5 \in Seq(Byte) /\ Len(b5) = Len(b4) + Space(options.password)
       /\ s5 \in Strings /\ Reads(b5, 0, s5)
  BY <1>1, <1>9, MaybeOne
<1>11. s5 = ConnectList(options)
  BY DEF ConnectList, s4, s3, s2, s1
<1>12. b5 = ConnectWritten(options)
  BY WrittenInOrder DEF b4, b3, b2, b1
<1> HIDE DEF b5, s5
<1>13. Len(b5) = ConnectSpace(options)
  BY <1>3, <1>5, <1>7, <1>8, <1>9, <1>10 DEF ConnectSpace
<1>14. constructConnPayload(options) = b5
  <2> DEFINE n == ConnectSpace(options)
  <2>1. n \in Nat
    BY <1>10, <1>13, LenProperties
  <2>2. constructConnPayload(options)
        = [i \in 1 .. n |-> IF i <= Len(b5) THEN b5[i] ELSE Leftover]
    BY <1>12 DEF constructConnPayload
  <2> HIDE DEF n
  <2>3. Len(b5) = n
    BY <1>13 DEF n
  <2>4. b5 = [i \in 1 .. n |-> b5[i]]
    BY <1>10, <2>1, <2>3
  <2>5. [i \in 1 .. n |-> IF i <= Len(b5) THEN b5[i] ELSE Leftover] = [i \in 1 .. n |-> b5[i]]
    BY <2>1, <2>3
  <2>6. QED
    BY <2>2, <2>4, <2>5
<1>15. PICK cut : Cuts(cut, b5, 0, s5)
  BY <1>10 DEF Reads
<1>16. IsList(b5, 0, s5)
  <2>1. 0 \in 0 .. 1
    OBVIOUS
  <2>2. QED
    BY <1>10, <1>15, <2>1, CutsAreUnique
<1>17. QED
  BY <1>10, <1>11, <1>14, <1>16


LEMMA ReadConnectFlags ==
    ASSUME NEW options, Connectable(options), NEW flags, flags = ConnectFlags(options)
    PROVE  /\ flags \in Byte
           /\ Bit(flags, 128) <=> options.username # NULL
           /\ Bit(flags, 64) <=> options.password # NULL
           /\ Bit(flags, 32) <=> options.willTopic # NULL /\ options.messageRetain
           /\ (flags \div 8) % 4
              = IF options.willTopic # NULL THEN options.qualityOfServiceValue ELSE 0
           /\ Bit(flags, 4) <=> options.willTopic # NULL
           /\ Bit(flags, 2) <=> options.useCleanSession
           /\ ~Bit(flags, 1)
<1> DEFINE will == options.willTopic # NULL
           u == IF options.username # NULL THEN 1 ELSE 0
           p == IF options.password # NULL THEN 1 ELSE 0
           r == IF will /\ options.messageRetain THEN 1 ELSE 0
           q == IF will THEN options.qualityOfServiceValue ELSE 0
           w == IF will THEN 1 ELSE 0
           c == IF options.useCleanSession THEN 1 ELSE 0
<1>1. /\ Length(options.username) > 0 <=> options.username # NULL
      /\ Length(options.password) > 0 <=> options.password # NULL
      /\ HasWill(options) <=> will
  BY LengthOfProper, WillOrNot DEF Connectable
<1>2. /\ options.qualityOfServiceValue \in 0 .. 2
      /\ options.messageRetain \in BOOLEAN /\ options.useCleanSession \in BOOLEAN
  BY DEF Connectable
<1>3. /\ u \in 0 .. 1 /\ p \in 0 .. 1 /\ r \in 0 .. 1 /\ q \in 0 .. 2 /\ w \in 0 .. 1
      /\ c \in 0 .. 1
  BY <1>2
<1>4. flags = (IF options.username # NULL THEN 128 ELSE 0)
              + (IF options.password # NULL THEN 64 ELSE 0)
              + (IF will
                 THEN 4 + 8 * options.qualityOfServiceValue
                      + (IF options.messageRetain THEN 32 ELSE 0)
                 ELSE 0)
              + (IF options.useCleanSession THEN 2 ELSE 0)
  BY <1>1 DEF ConnectFlags
<1>5. /\ (IF options.username # NULL THEN 128 ELSE 0) = 128 * u
      /\ (IF options.password # NULL THEN 64 ELSE 0) = 64 * p
      /\ (IF options.useCleanSession THEN 2 ELSE 0) = 2 * c
      /\ (IF will
          THEN 4 + 8 * options.qualityOfServiceValue + (IF options.messageRetain THEN 32 ELSE 0)
          ELSE 0) = 4 * w + 8 * q + 32 * r
  <2>1. (IF options.username # NULL THEN 128 ELSE 0) = 128 * u
    OBVIOUS
  <2>2. (IF options.password # NULL THEN 64 ELSE 0) = 64 * p
    OBVIOUS
  <2>3. (IF options.useCleanSession THEN 2 ELSE 0) = 2 * c
    OBVIOUS
  <2>4. CASE will /\ options.messageRetain
    <3>1. 4 + 8 * options.qualityOfServiceValue + 32 = 4 * 1 + 8 * options.qualityOfServiceValue + 32 * 1
      BY <1>2
    <3>2. w = 1 /\ q = options.qualityOfServiceValue /\ r = 1
      BY <2>4
    <3>3. QED
      BY <2>1, <2>2, <2>3, <2>4, <3>1, <3>2
  <2>5. CASE will /\ ~options.messageRetain
    <3>1. 4 + 8 * options.qualityOfServiceValue + 0 = 4 * 1 + 8 * options.qualityOfServiceValue + 32 * 0
      BY <1>2
    <3>2. w = 1 /\ q = options.qualityOfServiceValue /\ r = 0
      BY <2>5
    <3>3. QED
      BY <2>1, <2>2, <2>3, <2>5, <3>1, <3>2
  <2>6. CASE ~will
    BY <2>1, <2>2, <2>3, <2>6
  <2>7. QED
    BY <1>2, <2>4, <2>5, <2>6
<1>6. flags = 128 * u + 64 * p + (4 * w + 8 * q + 32 * r) + 2 * c
  <2> DEFINE U == IF options.username # NULL THEN 128 ELSE 0
             P == IF options.password # NULL THEN 64 ELSE 0
             C == IF options.useCleanSession THEN 2 ELSE 0
             W == IF will
                  THEN 4 + 8 * options.qualityOfServiceValue
                       + (IF options.messageRetain THEN 32 ELSE 0)
                  ELSE 0
  <2>1. U = 128 * u /\ P = 64 * p /\ C = 2 * c /\ W = 4 * w + 8 * q + 32 * r
    BY <1>5
  <2>2. flags = U + P + W + C
    BY <1>4
  <2> HIDE DEF U, P, C, W, u, p, c, w, q, r
  <2>3. QED
    BY <2>1, <2>2
<1>7. flags = 128 * u + 64 * p + 32 * r + 8 * q + 4 * w + 2 * c
  <2> HIDE DEF u, p, r, q, w, c
  <2>1. QED
    BY <1>3, <1>6
<1>8. /\ options.username # NULL <=> u = 1
      /\ options.password # NULL <=> p = 1
      /\ will /\ options.messageRetain <=> r = 1
      /\ will <=> w = 1
      /\ options.useCleanSession <=> c = 1
  BY <1>2
<1> HIDE DEF u, p, r, w, c
<1>9. q = IF will THEN options.qualityOfServiceValue ELSE 0
  OBVIOUS
<1> HIDE DEF q
<1>10. /\ flags \in Byte
       /\ (flags \div 128) % 2 = u /\ (flags \div 64) % 2 = p /\ (flags \div 32) % 2 = r
       /\ (flags \div 8) % 4 = q /\ (flags \div 4) % 2 = w /\ (flags \div 2) % 2 = c
       /\ (flags \div 1) % 2 = 0
  BY <1>3, <1>7, FlagDigits
<1>11. QED
  BY <1>8, <1>9, <1>10 DEF Bit

ConnectBody(options) == constructConnectVariableHeader(options) \o constructConnPayload(options)

LEMMA ReadConnect ==
    ASSUME NEW options, Connectable(options)
    PROVE  ConnectBody(options) \in Seq(Byte) \ {<<>>} /\ IsConnect(ConnectBody(options), options)
<1> DEFINE flags == ConnectFlags(options)
           eight == NameLevelFlags(flags)
           payload == constructConnPayload(options)
           bytes == Behind(eight, options.keepAliveInterval, payload)
           seven == SubSeq(bytes, 1, 7)
           literal == <<0, 4, 77, 81, 84, 84, 4>>
<1>1. ConnectBody(options) = bytes
  BY DEF ConnectBody, constructConnectVariableHeader, NameLevelFlags, Behind
<1>2. payload \in Seq(Byte) /\ IsList(payload, 0, ConnectList(options))
  BY ConnectPayload
<1>3. /\ flags \in Byte
      /\ Bit(flags, 128) <=> options.username # NULL
      /\ Bit(flags, 64) <=> options.password # NULL
      /\ Bit(flags, 32) <=> options.willTopic # NULL /\ options.messageRetain
      /\ (flags \div 8) % 4
         = IF options.willTopic # NULL THEN options.qualityOfServiceValue ELSE 0
      /\ Bit(flags, 4) <=> options.willTopic # NULL
      /\ Bit(flags, 2) <=> options.useCleanSession
      /\ ~Bit(flags, 1)
  BY ReadConnectFlags
<1>4. options.keepAliveInterval \in UShort
  BY DEF Connectable
<1> HIDE DEF flags, payload
<1>5. eight = NameLevelFlags(flags) /\ flags \in Byte
  BY <1>3
<1>6. bytes = Behind(eight, options.keepAliveInterval, payload)
  OBVIOUS
<1> HIDE DEF eight, bytes
<1>7. /\ eight \in Seq(Byte) /\ Len(eight) = 8
      /\ eight[1] = 0 /\ eight[2] = 4 /\ eight[3] = 77 /\ eight[4] = 81 /\ eight[5] = 84
      /\ eight[6] = 84 /\ eight[7] = 4 /\ eight[8] = flags
  BY <1>5, FirstEight
<1>8. /\ bytes \in Seq(Byte) \ {<<>>}
      /\ SubSeq(bytes, 1, 7) \in Seq(Byte) /\ Len(SubSeq(bytes, 1, 7)) = 7
      /\ \A i \in 1 .. 7 : SubSeq(bytes, 1, 7)[i] = eight[i]
      /\ bytes[8] = eight[8]
      /\ byteutil_read_uint16(From(bytes, 9)) = options.keepAliveInterval
      /\ From(bytes, 11) = payload
  <2>1. eight \in Seq(Byte) /\ Len(eight) = 8 /\ payload \in Seq(Byte)
    BY <1>2, <1>7
  <2>2. QED
    BY <1>4, <1>6, <2>1, HeaderOfConnect, SMTT(60)
<1>9. seven = literal
  <2>1. literal \in Seq(Byte)
    BY DEF Byte
  <2>2. Len(literal) = 7
    OBVIOUS
  <2>3. /\ literal[1] = 0 /\ literal[2] = 4 /\ literal[3] = 77 /\ literal[4] = 81
        /\ literal[5] = 84 /\ literal[6] = 84 /\ literal[7] = 4
    OBVIOUS
  <2> HIDE DEF literal
  <2>4. seven \in Seq(Byte) /\ Len(seven) = 7
    BY <1>8
  <2>5. ASSUME NEW i \in 1 .. 7 PROVE seven[i] = literal[i]
    <3>1. seven[i] = eight[i]
      BY <1>8
    <3>2. i = 1 \/ i = 2 \/ i = 3 \/ i = 4 \/ i = 5 \/ i = 6 \/ i = 7
      OBVIOUS
    <3>3. /\ eight[1] = literal[1] /\ eight[2] = literal[2] /\ eight[3] = literal[3]
          /\ eight[4] = literal[4] /\ eight[5] = literal[5] /\ eight[6] = literal[6]
          /\ eight[7] = literal[7]
      BY <1>7, <2>3, Zenon
    <3>4. QED
      BY <3>1, <3>2, <3>3, Zenon
  <2> HIDE DEF seven
  <2>6. QED
    BY <2>1, <2>2, <2>4, <2>5, SeqEqual
<1>10. bytes[8] = flags
  BY <1>7, <1>8
<1>11. SubSeq(bytes, 1, 7) = <<0, 4, 77, 81, 84, 84, 4>>
  BY <1>9
<1>12. IsList(From(bytes, 11), 0, ConnectList(options))
  BY <1>2, <1>8
<1>13. byteutil_read_uint16(From(bytes, 9)) = options.keepAliveInterval
  BY <1>8
<1>14. IsConnect(bytes, options)
  <2> DEFINE list == Given(options.clientId)
                     \o Given(options.willTopic) \o Given(options.willMessage)
                     \o Given(options.username) \o Given(options.password)
  <2>1. list = ConnectList(options)
    BY DEF ConnectList
  <2>2. IsList(From(bytes, 11), 0, list)
    BY <1>12, <2>1
  <2> HIDE DEF list
  <2>3. IsConnect(bytes, options)
        <=> /\ SubSeq(bytes, 1, 7) = <<0, 4, 77, 81, 84, 84, 4>>
            /\ Bit(bytes[8], 128) <=> options.username # NULL
            /\ Bit(bytes[8], 64) <=> options.password # NULL
            /\ Bit(bytes[8], 32) <=> options.willTopic # NULL /\ options.messageRetain
            /\ (bytes[8] \div 8) % 4
               = IF options.willTopic # NULL THEN options.qualityOfServiceValue ELSE 0
            /\ Bit(bytes[8], 4) <=> options.willTopic # NULL
            /\ Bit(bytes[8], 2) <=> options.useCleanSession
            /\ ~Bit(bytes[8], 1)
            /\ byteutil_read_uint16(From(bytes, 9)) = options.keepAliveInterval
            /\ IsList(From(bytes, 11), 0, list)
    BY DEF IsConnect, list
  <2>4. QED
    BY <1>3, <1>10, <1>11, <1>13, <2>2, <2>3, Zenon
<1>15. QED
  BY <1>1, <1>8, <1>14
-----------------------------------------------------------------------------
(* What is received is what was sent, and what was encoded.                *)

\* The callback's packets, one by one.
ReceivedAsSent ==
    \A i \in 1 .. Len(received) :
        i \in 1 .. Len(sent) /\ Wellformed(sent[i]) /\ received[i] = Content(sent[i])

LEMMA ReceivedInit == Init => ReceivedAsSent
<1>1. Len(<<>>) = 0
  BY EmptySeq
<1>2. QED
  BY <1>1 DEF Init, ReceivedAsSent

LEMMA ReceivedByte ==
    ASSUME ReceivedAsSent, NEW packet, Reading(packet), ReadByte
    PROVE  ReceivedAsSent'
<1>1. /\ packet = Head(wire) /\ wire \in Seq(Packets) /\ wire # <<>> /\ UNCHANGED sent
      /\ received \in Seq(Delivered) /\ packet \in Packets
  BY DEF Reading, ReadByte, Inv, World, Decoder
<1>2. /\ Len(sent) = Len(received) + Len(wire)
      /\ \A i \in 1 .. Len(wire) : wire[i] = sent[Len(received) + i]
      /\ Len(received) \in Nat /\ Len(wire) \in Nat \ {0} /\ Len(sent) \in Nat
  BY NextOnWire
<1>3. CASE UNCHANGED received
  BY <1>1, <1>3 DEF ReceivedAsSent, Wellformed, Content
<1>4. CASE Wellformed(packet) /\ received' = Append(received, Content(packet))
  <2>1. sent[Len(received) + 1] = packet /\ Len(received) + 1 \in 1 .. Len(sent)
    BY <1>1, <1>2, HeadTailProperties
  <2>2. Content(packet) \in Delivered
    <3>1. packet.head \in Byte /\ packet.body \in Seq(Byte)
      BY <1>1, PacketType
    <3>2. TypeOf(packet.head) \in ControlPacketTypes /\ FlagsOf(packet.head) \in 0 .. 15
      BY <3>1, TypeOfByte
    <3>3. packet.body \in Seq(Cell)
      <4>1. Seq(Byte) \subseteq Seq(Cell)
        BY DEF Cell
      <4>2. QED
        BY <3>1, <4>1
    <3>4. QED
      BY <3>2, <3>3 DEF Content, Delivered
  <2>3. /\ Len(received') = Len(received) + 1
        /\ \A i \in 1 .. Len(received) : received'[i] = received[i]
        /\ received'[Len(received) + 1] = Content(packet)
    BY <1>1, <1>4, <2>2, AppendProperties
  <2>4. ASSUME NEW i \in 1 .. Len(received')
        PROVE  i \in 1 .. Len(sent) /\ Wellformed(sent[i]) /\ received'[i] = Content(sent[i])
    <3>1. CASE i \in 1 .. Len(received)
      BY <2>3, <3>1 DEF ReceivedAsSent
    <3>2. CASE i = Len(received) + 1
      BY <1>4, <2>1, <2>3, <3>2
    <3>3. QED
      BY <1>2, <2>3, <3>1, <3>2
  <2>5. QED
    BY <1>1, <2>4 DEF ReceivedAsSent
<1>5. QED
  BY <1>3, <1>4, EveryByte DEF Outcome

LEMMA ReceivedNext ==
    ASSUME Fair, Inv, Synchronized, ReceivedAsSent, [Next]_vars
    PROVE  ReceivedAsSent'
<1>1. CASE ReadByte
  BY <1>1, FirstPacket, ReceivedByte
<1>2. CASE UNCHANGED <<received, sent>>
  BY <1>2 DEF ReceivedAsSent
<1>3. CASE HangUp
  <2>1. Len(received') = 0
    BY <1>3, EmptySeq DEF HangUp
  <2>2. QED
    BY <2>1 DEF ReceivedAsSent
<1>4. CASE \E packet \in Packets : Transmit(packet)
  <2>1. PICK packet \in Packets : Transmit(packet)
    BY <1>4
  <2>2. sent \in Seq(Packets) /\ sent' = Append(sent, packet) /\ UNCHANGED received
    BY <2>1 DEF Transmit, Inv, World
  <2>3. /\ Len(sent') = Len(sent) + 1 /\ Len(sent) \in Nat
        /\ \A i \in 1 .. Len(sent) : sent'[i] = sent[i]
    BY <2>2, AppendProperties, LenProperties
  <2>4. QED
    BY <2>2, <2>3 DEF ReceivedAsSent
<1>5. QED
  BY <1>1, <1>2, <1>3, <1>4
  DEF Next, NoBytes, Fail, stream, mqtt_codec_reset, Lose, mqtt_codec_destroy, vars

LEMMA ArrivedPacket ==
    ASSUME Inv, ReceivedAsSent, NEW request, NEW packet \in Arrived(request)
    PROVE  Encode(request) \in Packets /\ packet = Content(Encode(request))
<1>1. PICK i \in DOMAIN received : sent[i] = Encode(request) /\ packet = received[i]
  BY DEF Arrived
<1>2. i \in 1 .. Len(received)
  BY LenProperties DEF Inv, Decoder
<1>3. i \in 1 .. Len(sent) /\ received[i] = Content(sent[i])
  BY <1>2 DEF ReceivedAsSent
<1>4. sent[i] \in Packets
  BY <1>3, ElementOfSeq DEF Inv, World
<1>5. QED
  BY <1>1, <1>3, <1>4

LEMMA NotNull == ASSUME NEW packet \in Packets PROVE packet # NULL
BY ConstantsAssumption, PacketsAssumption

LEMMA ContentOfBody ==
    ASSUME NEW type, NEW flags, NEW body, body # <<>>,
           NEW packet, packet = Content(constructFixedHeader(type, flags, body))
    PROVE  /\ packet.type = TypeOf(type + flags) /\ packet.flags = FlagsOf(type + flags)
           /\ packet.data = body
BY DEF Content, constructFixedHeader

LEMMA ConnectableUnlessRefused ==
    ASSUME NEW request, Meaningful(request), request.call = "connect",
           ~ConnectRefused(request.options)
    PROVE  Connectable(request.options)
<1> DEFINE options == request.options
<1>1. /\ options.clientId \in Seq(Byte)
      /\ \A string \in {options.willTopic, options.willMessage,
                        options.username, options.password} :
            string = NULL \/ string \in Seq(Byte) \ {<<>>}
      /\ options.keepAliveInterval \in UShort
      /\ options.qualityOfServiceValue \in 0 .. 2
      /\ options.messageRetain \in BOOLEAN /\ options.useCleanSession \in BOOLEAN
  BY DEF Meaningful
<1>2. \A i \in 1 .. 5 : ~(Length(ConnectStrings(options)[i]) > USHRT_MAX)
  BY DEF ConnectRefused
<1>3. (Length(options.willMessage) > 0) = (Length(options.willTopic) > 0)
  BY DEF ConnectRefused
<1> HIDE DEF options
<1>4. /\ ~(Length(options.clientId) > USHRT_MAX) /\ ~(Length(options.willTopic) > USHRT_MAX)
      /\ ~(Length(options.willMessage) > USHRT_MAX) /\ ~(Length(options.username) > USHRT_MAX)
      /\ ~(Length(options.password) > USHRT_MAX)
  BY <1>2 DEF ConnectStrings
<1>5. ASSUME NEW string, string = NULL \/ string \in Seq(Byte) \ {<<>>},
             ~(Length(string) > USHRT_MAX)
      PROVE  Proper(string)
  <2>1. CASE string = NULL
    BY <2>1 DEF Proper
  <2>2. CASE string # NULL
    <3>1. string \in Seq(Byte) /\ string # <<>> /\ Length(string) = Len(string)
      BY <1>5, <2>2 DEF Length
    <3>2. Len(string) \in Nat
      BY <3>1, LenProperties
    <3>3. Len(string) <= 65535
      BY <1>5, <3>1, <3>2, PacketsAssumption
    <3>4. QED
      BY <3>1, <3>3 DEF Proper
  <2>3. QED
    BY <2>1, <2>2
<1>6. /\ Proper(options.willTopic) /\ Proper(options.willMessage)
      /\ Proper(options.username) /\ Proper(options.password)
  BY <1>1, <1>4, <1>5
<1>7. Len(options.clientId) <= 65535
  <2>1. options.clientId # NULL /\ Len(options.clientId) \in Nat
    BY <1>1, PacketsAssumption, LenProperties
  <2>2. Length(options.clientId) = Len(options.clientId)
    BY <2>1 DEF Length
  <2>3. QED
    BY <1>4, <2>1, <2>2, PacketsAssumption
<1>8. options.willTopic # NULL <=> options.willMessage # NULL
  BY <1>3, <1>6, LengthOfProper
<1>9. Connectable(options)
  BY <1>1, <1>6, <1>7, <1>8 DEF Connectable
<1>10. QED
  BY <1>9 DEF options

LEMMA ConnectArrives ==
    ASSUME Inv, ReceivedAsSent, NEW request, Meaningful(request), request.call = "connect",
           NEW packet \in Arrived(request)
    PROVE  packet.type = CONNECT_TYPE /\ IsConnect(packet.data, request.options)
<1> DEFINE body == ConnectBody(request.options)
<1>1. Encode(request) # NULL /\ packet = Content(Encode(request))
  BY ArrivedPacket, NotNull
<1>2. Encode(request) = mqtt_codec_connect(request.options)
  BY DEF Encode
<1>3. ~ConnectRefused(request.options)
  BY <1>1, <1>2 DEF mqtt_codec_connect
<1>4. Encode(request) = constructFixedHeader(CONNECT_TYPE, 0, body)
  BY <1>2, <1>3 DEF mqtt_codec_connect, ConnectBody
<1>5. body \in Seq(Byte) \ {<<>>} /\ IsConnect(body, request.options)
  BY <1>3, ConnectableUnlessRefused, ReadConnect
<1> HIDE DEF body
<1>6. packet.type = TypeOf(CONNECT_TYPE + 0) /\ packet.data = body
  BY <1>1, <1>4, <1>5, ContentOfBody
<1>7. TypeOf(CONNECT_TYPE + 0) = CONNECT_TYPE
  BY DEF TypeOf, CONNECT_TYPE
<1>8. QED
  BY <1>5, <1>6, <1>7

\* A list of topics that is not refused.
LEMMA SubscribeBodies ==
    ASSUME NEW request, Meaningful(request), request.call = "subscribe", Encode(request) # NULL
    PROVE  \E body \in Seq(Byte) \ {<<>>} :
               /\ Encode(request) = constructFixedHeader(SUBSCRIBE_TYPE, 2, body)
               /\ IsSubscribe(body, request.packetId, request.list)
<1> DEFINE Filter == [topic : Seq(Byte), qos : 0 .. 2]
           list == request.list
           body == SubscribeBody(request.packetId, list)
<1>1. Encode(request) = mqtt_codec_subscribe(request.packetId, list)
  BY DEF Encode
<1>2. request.packetId \in UShort /\ list \in Seq(Filter)
  BY DEF Meaningful
<1>3. /\ ~(\E i \in DOMAIN list : Length(list[i].topic) > USHRT_MAX)
      /\ Encode(request) = constructFixedHeader(SUBSCRIBE_TYPE, 2, body)
  BY <1>1 DEF mqtt_codec_subscribe, SubscribeBody, SubscribeItems
<1> HIDE DEF Filter, list
<1>4. ASSUME NEW i \in DOMAIN list PROVE Len(list[i].topic) <= 65535
  <2>1. i \in 1 .. Len(list)
    BY <1>2, LenProperties
  <2>2. list[i] \in Filter
    BY <1>2, <2>1, ElementOfSeq
  <2>3. list[i].topic \in Seq(Byte)
    BY <2>2 DEF Filter
  <2>4. list[i].topic # NULL /\ Len(list[i].topic) \in Nat
    BY <2>3, PacketsAssumption, LenProperties
  <2>5. Length(list[i].topic) = Len(list[i].topic)
    BY <2>4 DEF Length
  <2>6. ~(Length(list[i].topic) > USHRT_MAX)
    BY <1>3
  <2>7. QED
    BY <2>4, <2>5, <2>6, PacketsAssumption
<1>5. body \in Seq(Byte) \ {<<>>} /\ IsSubscribe(body, request.packetId, list)
  <2>1. list \in Filters
    BY <1>2 DEF Filter, Filters
  <2>2. QED
    BY <1>2, <1>4, <2>1, ReadSubscribe
<1>6. QED
  BY <1>3, <1>5 DEF list

LEMMA SubscribeArrives ==
    ASSUME Inv, ReceivedAsSent, NEW request, Meaningful(request), request.call = "subscribe",
           NEW packet \in Arrived(request)
    PROVE  /\ packet.type = SUBSCRIBE_TYPE
           /\ IsSubscribe(packet.data, request.packetId, request.list)
<1>1. Encode(request) # NULL /\ packet = Content(Encode(request))
  BY ArrivedPacket, NotNull
<1>2. PICK body \in Seq(Byte) \ {<<>>} :
          /\ Encode(request) = constructFixedHeader(SUBSCRIBE_TYPE, 2, body)
          /\ IsSubscribe(body, request.packetId, request.list)
  BY <1>1, SubscribeBodies
<1>3. packet.type = TypeOf(SUBSCRIBE_TYPE + 2) /\ packet.data = body
  BY <1>1, <1>2, ContentOfBody
<1>4. TypeOf(SUBSCRIBE_TYPE + 2) = SUBSCRIBE_TYPE
  BY DEF TypeOf, SUBSCRIBE_TYPE
<1>5. QED
  BY <1>2, <1>3, <1>4

LEMMA UnsubscribeBodies ==
    ASSUME NEW request, Meaningful(request), request.call = "unsubscribe", Encode(request) # NULL
    PROVE  \E body \in Seq(Byte) \ {<<>>} :
               /\ Encode(request) = constructFixedHeader(UNSUBSCRIBE_TYPE, 2, body)
               /\ IsUnsubscribe(body, request.packetId, request.list)
<1> DEFINE list == request.list
           body == UnsubscribeBody(request.packetId, list)
<1>1. Encode(request) = mqtt_codec_unsubscribe(request.packetId, list)
  BY DEF Encode
<1>2. request.packetId \in UShort /\ list \in Strings
  BY DEF Meaningful, Strings
<1>3. /\ ~(\E i \in DOMAIN list : Length(list[i]) > USHRT_MAX)
      /\ Encode(request) = constructFixedHeader(UNSUBSCRIBE_TYPE, 2, body)
  BY <1>1 DEF mqtt_codec_unsubscribe, UnsubscribeBody, UnsubscribeItems
<1> HIDE DEF list
<1>4. ASSUME NEW i \in DOMAIN list PROVE Len(list[i]) <= 65535
  <2>1. i \in 1 .. Len(list)
    BY <1>2, LenProperties DEF Strings
  <2>2. list[i] \in Seq(Byte)
    BY <1>2, <2>1, ElementOfSeq DEF Strings
  <2>3. list[i] # NULL /\ Len(list[i]) \in Nat
    BY <2>2, PacketsAssumption, LenProperties
  <2>4. Length(list[i]) = Len(list[i])
    BY <2>3 DEF Length
  <2>5. ~(Length(list[i]) > USHRT_MAX)
    BY <1>3
  <2>6. QED
    BY <2>3, <2>4, <2>5, PacketsAssumption
<1>5. body \in Seq(Byte) \ {<<>>} /\ IsUnsubscribe(body, request.packetId, list)
  BY <1>2, <1>4, ReadUnsubscribe
<1>6. QED
  BY <1>3, <1>5 DEF list

LEMMA UnsubscribeArrives ==
    ASSUME Inv, ReceivedAsSent, NEW request, Meaningful(request), request.call = "unsubscribe",
           NEW packet \in Arrived(request)
    PROVE  /\ packet.type = UNSUBSCRIBE_TYPE
           /\ IsUnsubscribe(packet.data, request.packetId, request.list)
<1>1. Encode(request) # NULL /\ packet = Content(Encode(request))
  BY ArrivedPacket, NotNull
<1>2. PICK body \in Seq(Byte) \ {<<>>} :
          /\ Encode(request) = constructFixedHeader(UNSUBSCRIBE_TYPE, 2, body)
          /\ IsUnsubscribe(body, request.packetId, request.list)
  BY <1>1, UnsubscribeBodies
<1>3. packet.type = TypeOf(UNSUBSCRIBE_TYPE + 2) /\ packet.data = body
  BY <1>1, <1>2, ContentOfBody
<1>4. TypeOf(UNSUBSCRIBE_TYPE + 2) = UNSUBSCRIBE_TYPE
  BY DEF TypeOf, UNSUBSCRIBE_TYPE
<1>5. QED
  BY <1>2, <1>3, <1>4

LEMMA PublishArrives ==
    ASSUME Inv, ReceivedAsSent, NEW request, Meaningful(request), request.call = "publish",
           NEW packet \in Arrived(request)
    PROVE  /\ packet.type = PUBLISH_TYPE
           /\ PublishedMessage(packet.flags, packet.data) = Sent(request.message)
<1> DEFINE message == request.message
           flags == PublishFlags(message.qos, message.duplicate, message.retain)
           body == PublishBody(message)
<1>1. Encode(request) # NULL /\ packet = Content(Encode(request))
  BY ArrivedPacket, NotNull
<1>2. Encode(request) = mqtt_codec_publish(message)
  BY DEF Encode
<1>3. /\ message.topicName # NULL /\ ~(Length(message.topicName) > USHRT_MAX)
      /\ Encode(request) = constructFixedHeader(PUBLISH_TYPE, flags, body)
  BY <1>1, <1>2 DEF mqtt_codec_publish, PublishBody
<1>4. /\ message.topicName \in Seq(Byte)
      /\ message.qos \in 0 .. 2 /\ message.duplicate \in BOOLEAN /\ message.retain \in BOOLEAN
      /\ message.qos = 0 => ~message.duplicate /\ ~message.retain
  BY DEF Meaningful, DELIVER_AT_MOST_ONCE
<1>5. Len(message.topicName) <= 65535
  <2>1. Len(message.topicName) \in Nat
    BY <1>4, LenProperties
  <2>2. Length(message.topicName) = Len(message.topicName)
    BY <1>3 DEF Length
  <2>3. QED
    BY <1>3, <2>1, <2>2, PacketsAssumption
<1>6. body \in Seq(Byte) \ {<<>>} /\ PublishedMessage(flags, body) = Sent(message)
  BY <1>5, ReadPublish
<1> HIDE DEF body
<1>7. /\ packet.type = TypeOf(PUBLISH_TYPE + flags) /\ packet.flags = FlagsOf(PUBLISH_TYPE + flags)
      /\ packet.data = body
  BY <1>1, <1>3, <1>6, ContentOfBody
<1> HIDE DEF message
<1>8. TypeOf(PUBLISH_TYPE + flags) = PUBLISH_TYPE /\ FlagsOf(PUBLISH_TYPE + flags) = flags
  BY <1>4, FlagsOfPublish
<1>9. QED
  BY <1>6, <1>7, <1>8 DEF message

LEMMA ReplyArrives ==
    ASSUME Inv, ReceivedAsSent, NEW request, Meaningful(request), request.call = "reply",
           NEW packet \in Arrived(request)
    PROVE  packet.type = request.type /\ AcknowledgedId(packet.data) = request.packetId
<1> DEFINE type == request.type
           flags == IF type = PUBREL_TYPE THEN 2 ELSE 0
           body == byteutil_writeInt(request.packetId)
<1>1. packet = Content(Encode(request))
  BY ArrivedPacket
<1>2. Encode(request) = constructFixedHeader(type, flags, body)
  BY DEF Encode, constructPublishReply
<1>3. /\ type \in {PUBACK_TYPE, PUBREC_TYPE, PUBREL_TYPE, PUBCOMP_TYPE}
      /\ request.packetId \in UShort
  BY DEF Meaningful
<1>4. body \in Seq(Byte) \ {<<>>} /\ AcknowledgedId(body) = request.packetId
  BY <1>3, ReadReply
<1> HIDE DEF body
<1>5. packet.type = TypeOf(type + flags) /\ packet.data = body
  BY <1>1, <1>2, <1>4, ContentOfBody
<1>6. TypeOf(type + flags) = type
  BY <1>3 DEF TypeOf, PUBACK_TYPE, PUBREC_TYPE, PUBREL_TYPE, PUBCOMP_TYPE
<1>7. QED
  BY <1>4, <1>5, <1>6

LEMMA AlwaysAsSent ==
    ASSUME Resets, "drop" \notin Faults, Framed
    PROVE  Spec => [](Inv /\ ReceivedAsSent)
<1>1. Inv /\ Synchronized /\ ReceivedAsSent /\ [Next]_vars => ReceivedAsSent'
  BY ReceivedNext DEF Fair
<1>2. Spec => []Inv
  BY InvInit, InvNext, PTL DEF Spec
<1>3. QED
  BY <1>1, <1>2, ReceivedInit, StaysSynchronized, PTL DEF Spec

(***************************************************************************)
(* SRS_MQTT_CODEC_07_009, 07_026, 07_030: whatever the options of a        *)
(* CONNECT and the lists of a SUBSCRIBE or UNSUBSCRIBE, what the encoders  *)
(* make of them reaches the other end of a connection as a packet that     *)
(* holds just these: the flags agree with the strings that follow, every   *)
(* string is as long as its two bytes say, and nothing is left over.  This *)
(* is for any number of strings of any length that the encoders accept.    *)
(***************************************************************************)
THEOREM UnderstoodByBroker ==
    ASSUME Resets, "drop" \notin Faults, Framed,
           \A request \in Requests : Meaningful(request)
    PROVE  Spec => []BrokerUnderstands
<1>1. Inv /\ ReceivedAsSent => BrokerUnderstands
  BY ConnectArrives, SubscribeArrives, UnsubscribeArrives DEF BrokerUnderstands
<1>2. QED
  BY <1>1, AlwaysAsSent, PTL

(***************************************************************************)
(* SRS_MQTT_CODEC_07_007, 07_013 to 07_020: ProcessPublishMessage of       *)
(* mqtt_client.c takes out of a PUBLISH the message that                   *)
(* mqtt_codec_publish put there, its topic, payload, number, QoS and flags *)
(* (the number only if the QoS has one), and the number of a reply is the  *)
(* one replied to.                                                         *)
(***************************************************************************)
THEOREM UnderstoodByClient ==
    ASSUME Resets, "drop" \notin Faults, Framed,
           \A request \in Requests : Meaningful(request)
    PROVE  Spec => []PublishUnderstood
<1>1. Inv /\ ReceivedAsSent => PublishUnderstood
  BY PublishArrives, ReplyArrives DEF PublishUnderstood
<1>2. QED
  BY <1>1, AlwaysAsSent, PTL

-----------------------------------------------------------------------------
(* The hypothesis Framed holds of what the encoders make.                  *)

\* The packet of a request that is not refused.
LEMMA EncodedPacket ==
    ASSUME NEW request, Meaningful(request), Encode(request) # NULL,
           request.call \in {"connect", "publish", "reply", "subscribe", "unsubscribe"}
    PROVE  \E type \in Nat, flags \in Nat, body \in Seq(Byte) \ {<<>>} :
               /\ Encode(request) = constructFixedHeader(type, flags, body)
               /\ type + flags \in MqttHead /\ TypeOf(type + flags) # PINGRESP_TYPE
<1> USE DEF MqttHead, TypeOf, PINGRESP_TYPE
<1>1. CASE request.call = "connect"
  <2>1. Encode(request) = mqtt_codec_connect(request.options)
    BY <1>1 DEF Encode
  <2>2. ~ConnectRefused(request.options)
    BY <2>1 DEF mqtt_codec_connect
  <2>3. Encode(request) = constructFixedHeader(CONNECT_TYPE, 0, ConnectBody(request.options))
    BY <2>1, <2>2 DEF mqtt_codec_connect, ConnectBody
  <2>4. ConnectBody(request.options) \in Seq(Byte) \ {<<>>}
    BY <1>1, <2>2, ConnectableUnlessRefused, ReadConnect
  <2>5. QED
    BY <2>3, <2>4 DEF CONNECT_TYPE
<1>2. CASE request.call = "publish"
  <2> DEFINE message == request.message
             flags == PublishFlags(message.qos, message.duplicate, message.retain)
  <2>1. /\ Encode(request) = mqtt_codec_publish(message)
        /\ message.topicName \in Seq(Byte)
        /\ message.qos \in 0 .. 2 /\ message.duplicate \in BOOLEAN /\ message.retain \in BOOLEAN
    BY <1>2 DEF Encode, Meaningful
  <2>2. /\ message.topicName # NULL /\ ~(Length(message.topicName) > USHRT_MAX)
        /\ Encode(request) = constructFixedHeader(PUBLISH_TYPE, flags, PublishBody(message))
    BY <2>1 DEF mqtt_codec_publish, PublishBody
  <2>3. Len(message.topicName) <= 65535
    <3>1. Len(message.topicName) \in Nat
      BY <2>1, LenProperties
    <3>2. Length(message.topicName) = Len(message.topicName)
      BY <2>2 DEF Length
    <3>3. QED
      BY <2>2, <3>1, <3>2, PacketsAssumption
  <2>4. PublishBody(message) \in Seq(Byte) \ {<<>>}
    BY <1>2, <2>3, ReadPublish
  <2>5. flags \in 0 .. 15
    BY <2>1 DEF PublishFlags, DELIVER_AT_MOST_ONCE, DELIVER_AT_LEAST_ONCE, DELIVER_EXACTLY_ONCE
  <2> HIDE DEF flags
  <2>6. PUBLISH_TYPE + flags \in MqttHead /\ TypeOf(PUBLISH_TYPE + flags) # PINGRESP_TYPE
    BY <2>5 DEF PUBLISH_TYPE
  <2>7. QED
    BY <2>2, <2>4, <2>5, <2>6 DEF PUBLISH_TYPE
<1>3. CASE request.call = "reply"
  <2> DEFINE flags == IF request.type = PUBREL_TYPE THEN 2 ELSE 0
             body == byteutil_writeInt(request.packetId)
  <2>1. Encode(request) = constructFixedHeader(request.type, flags, body)
    BY <1>3 DEF Encode, constructPublishReply
  <2>2. /\ request.type \in {PUBACK_TYPE, PUBREC_TYPE, PUBREL_TYPE, PUBCOMP_TYPE}
        /\ request.packetId \in UShort
    BY <1>3 DEF Meaningful
  <2>3. body \in Seq(Byte) \ {<<>>}
    BY <2>2, ReadReply
  <2> HIDE DEF body
  <2>4. QED
    BY <2>1, <2>2, <2>3 DEF PUBACK_TYPE, PUBREC_TYPE, PUBREL_TYPE, PUBCOMP_TYPE
<1>4. CASE request.call = "subscribe"
  BY <1>4, SubscribeBodies DEF SUBSCRIBE_TYPE
<1>5. CASE request.call = "unsubscribe"
  BY <1>5, UnsubscribeBodies DEF UNSUBSCRIBE_TYPE
<1>6. QED
  BY <1>1, <1>2, <1>3, <1>4, <1>5

(***************************************************************************)
(* Every packet that the client sends after its CONNECT, and the CONNECT,  *)
(* is one that the decoder theorems are about, up to 2 MB: what            *)
(* constructFixedHeader puts in front of the body says how long it is.     *)
(***************************************************************************)
THEOREM EncodedIsFramed ==
    ASSUME NEW request, Meaningful(request), Encode(request) # NULL,
           request.call \in {"connect", "publish", "reply", "subscribe", "unsubscribe"},
           Len(Encode(request).body) \in Below2MB
    PROVE  Readable(Encode(request)) /\ Encode(request).body # <<>>
<1>1. PICK type \in Nat, flags \in Nat, body \in Seq(Byte) \ {<<>>} :
          /\ Encode(request) = constructFixedHeader(type, flags, body)
          /\ type + flags \in MqttHead /\ TypeOf(type + flags) # PINGRESP_TYPE
  BY EncodedPacket
<1>2. Encode(request).body = body
  BY <1>1 DEF constructFixedHeader
<1>3. QED
  BY <1>1, <1>2, EncodersFrame
=============================================================================
