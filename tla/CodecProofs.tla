----------------------------- MODULE CodecProofs -----------------------------
(***************************************************************************)
(* Proofs about Codec, for every set of numbers and keys and every         *)
(* Ethereum header.                                                        *)
(***************************************************************************)
EXTENDS Codec, SequenceTheorems, TLAPS

Bytes == Seq(Byte)

-----------------------------------------------------------------------------
(* Byte strings *)

(* Bytes are numbers. *)
LEMMA ByteType == \A b \in Byte : b \in Nat /\ b <= 255
BY DEF Byte

(* A function on the first n numbers is a byte string of n bytes. *)
LEMMA FunctionBytes ==
    ASSUME NEW n \in Nat, NEW f \in [1..n -> Byte]
    PROVE  f \in Bytes /\ Len(f) = n
BY DEF Bytes

(* Numbers and keys are byte strings. *)
LEMMA FieldBytes ==
    /\ \A x \in U64 : x \in Bytes /\ Len(x) = 8
    /\ \A k \in Keys : k \in Bytes /\ Len(k) = KeySize
<1>1. 8 \in Nat /\ KeySize \in Nat /\ Keys \subseteq [1..KeySize -> Byte]
  BY CodecAssumption
<1> QED
  BY <1>1, FunctionBytes, Zenon DEF U64

(* Taking off what a byte string begins with. *)
LEMMA DropConcat ==
    ASSUME NEW s \in Bytes, NEW t \in Bytes
    PROVE  /\ s \o t \in Bytes /\ Len(s \o t) = Len(s) + Len(t)
           /\ \A i \in 1..Len(s) : (s \o t)[i] = s[i]
           /\ SubSeq(s \o t, 1, Len(s)) = s
           /\ Drop(s \o t, Len(s)) = t
<1>1. /\ s \o t \in Bytes /\ Len(s \o t) = Len(s) + Len(t)
      /\ Len(s) \in Nat /\ Len(t) \in Nat
  BY ConcatProperties, LenProperties DEF Bytes
<1>2. \A i \in 1..(Len(s) + Len(t)) :
         (s \o t)[i] = IF i <= Len(s) THEN s[i] ELSE t[i - Len(s)]
  BY ConcatProperties DEF Bytes
<1>3. \A i \in 1..(Len(s) + Len(t)) : (s \o t)[i] \in Byte
  BY <1>1, ElementOfSeq DEF Bytes
<1>4. SubSeq(s \o t, 1, Len(s)) = s
  <2> DEFINE u == SubSeq(s \o t, 1, Len(s))
  <2>1. /\ u \in Seq(Byte) /\ Len(u) = Len(s)
        /\ \A i \in 1..Len(s) : u[i] = (s \o t)[i]
    <3>1. \A i \in 1..Len(s) : (s \o t)[i] \in Byte
      BY <1>1, <1>3
    <3>2. /\ u \in Seq(Byte)
          /\ Len(u) = IF 1 <= Len(s) THEN Len(s) - 1 + 1 ELSE 0
          /\ \A i \in 1..(Len(s) - 1 + 1) : u[i] = (s \o t)[1 + i - 1]
      BY <1>1, <3>1, SubSeqProperties
    <3> QED
      BY <1>1, <3>2
  <2>2. \A i \in 1..Len(s) : u[i] = s[i]
    BY <1>1, <1>2, <2>1
  <2> HIDE DEF u
  <2> QED
    BY <2>1, <2>2, SeqEqual DEF Bytes
<1>5. Drop(s \o t, Len(s)) = t
  <2> DEFINE u == SubSeq(s \o t, Len(s) + 1, Len(s) + Len(t))
  <2>1. /\ u \in Seq(Byte) /\ Len(u) = Len(t)
        /\ \A i \in 1..Len(t) : u[i] = (s \o t)[Len(s) + i]
    <3>1. \A i \in (Len(s) + 1)..(Len(s) + Len(t)) : (s \o t)[i] \in Byte
      BY <1>1, <1>3
    <3>2. /\ u \in Seq(Byte)
          /\ Len(u) = IF Len(s) + 1 <= Len(s) + Len(t)
                        THEN Len(s) + Len(t) - (Len(s) + 1) + 1 ELSE 0
          /\ \A i \in 1..(Len(s) + Len(t) - (Len(s) + 1) + 1) :
                u[i] = (s \o t)[Len(s) + 1 + i - 1]
      BY <1>1, <3>1, SubSeqProperties
    <3>3. \A i \in 1..Len(t) : Len(s) + 1 + i - 1 = Len(s) + i
      BY <1>1
    <3> HIDE DEF u
    <3> QED
      BY <1>1, <3>2, <3>3
  <2>2. \A i \in 1..Len(t) : u[i] = t[i]
    BY <1>1, <1>2, <2>1
  <2>3. u = t
    <3> HIDE DEF u
    <3> QED
      BY <2>1, <2>2, SeqEqual DEF Bytes
  <2> QED
    BY <1>1, <2>3 DEF Drop
<1>6. \A i \in 1..Len(s) : (s \o t)[i] = s[i]
  BY <1>1, <1>2
<1> QED
  BY <1>1, <1>4, <1>5, <1>6

(* A byte string in the middle of another. *)
LEMMA MiddleOf ==
    ASSUME NEW h \in Bytes, NEW s \in Bytes, NEW rest \in Bytes
    PROVE  /\ (h \o s) \o rest \in Bytes
           /\ Len((h \o s) \o rest) = Len(h) + Len(s) + Len(rest)
           /\ \A i \in 1..Len(h) : ((h \o s) \o rest)[i] = h[i]
           /\ \A i \in 1..Len(s) : ((h \o s) \o rest)[Len(h) + i] = s[i]
           /\ SubSeq((h \o s) \o rest, Len(h) + 1, Len(h) + Len(s)) = s
           /\ Drop((h \o s) \o rest, Len(h) + Len(s)) = rest
<1> SUFFICES ASSUME NEW t, t = (h \o s) \o rest
    PROVE  /\ t \in Bytes /\ Len(t) = Len(h) + Len(s) + Len(rest)
           /\ \A i \in 1..Len(h) : t[i] = h[i]
           /\ \A i \in 1..Len(s) : t[Len(h) + i] = s[i]
           /\ SubSeq(t, Len(h) + 1, Len(h) + Len(s)) = s
           /\ Drop(t, Len(h) + Len(s)) = rest
  BY Zenon
<1>1. Len(h) \in Nat /\ Len(s) \in Nat /\ Len(rest) \in Nat
  BY LenProperties DEF Bytes
<1>2. h \o s \in Bytes /\ Len(h \o s) = Len(h) + Len(s)
  BY DropConcat
<1>3. /\ t \in Bytes /\ Len(t) = Len(h) + Len(s) + Len(rest)
      /\ \A i \in 1..(Len(h) + Len(s)) : t[i] = (h \o s)[i]
      /\ SubSeq(t, 1, Len(h) + Len(s)) = h \o s
      /\ Drop(t, Len(h) + Len(s)) = rest
  <2> DEFINE u == h \o s
  <2>1. u \in Bytes /\ Len(u) = Len(h) + Len(s) /\ t = u \o rest
    BY <1>2
  <2> HIDE DEF u
  <2>2. /\ t \in Bytes /\ Len(t) = Len(u) + Len(rest)
        /\ \A i \in 1..Len(u) : t[i] = u[i]
        /\ SubSeq(t, 1, Len(u)) = u
        /\ Drop(t, Len(u)) = rest
    <3>1. /\ u \o rest \in Bytes /\ Len(u \o rest) = Len(u) + Len(rest)
          /\ \A i \in 1..Len(u) : (u \o rest)[i] = u[i]
          /\ SubSeq(u \o rest, 1, Len(u)) = u
          /\ Drop(u \o rest, Len(u)) = rest
      BY <2>1, DropConcat
    <3> QED
      BY <2>1, <3>1, Zenon
  <2>3. /\ t \in Bytes /\ Len(t) = Len(h) + Len(s) + Len(rest)
        /\ \A i \in 1..(Len(h) + Len(s)) : t[i] = u[i]
        /\ SubSeq(t, 1, Len(h) + Len(s)) = u
        /\ Drop(t, Len(h) + Len(s)) = rest
    BY <2>1, <2>2
  <2> QED
    BY <2>3 DEF u
<1>4. \A i \in 1..(Len(h) + Len(s)) :
         t[i] = IF i <= Len(h) THEN h[i] ELSE s[i - Len(h)]
  <2>1. \A i \in 1..(Len(h) + Len(s)) :
           (h \o s)[i] = IF i <= Len(h) THEN h[i] ELSE s[i - Len(h)]
    BY ConcatProperties DEF Bytes
  <2> QED
    BY <1>3, <2>1
<1>5. \A i \in 1..Len(h) : t[i] = h[i]
  BY <1>1, <1>4
<1>6. \A i \in 1..Len(s) : t[Len(h) + i] = s[i]
  <2> SUFFICES ASSUME NEW i \in 1..Len(s) PROVE t[Len(h) + i] = s[i]
    OBVIOUS
  <2>1. /\ Len(h) + i \in 1..(Len(h) + Len(s)) /\ ~(Len(h) + i <= Len(h))
        /\ (Len(h) + i) - Len(h) = i
    BY <1>1
  <2> QED
    BY <1>4, <2>1
<1>7. SubSeq(t, Len(h) + 1, Len(h) + Len(s)) = s
  <2> DEFINE u == SubSeq(t, Len(h) + 1, Len(h) + Len(s))
  <2>1. \A i \in (Len(h) + 1)..(Len(h) + Len(s)) : t[i] \in Byte
    <3> SUFFICES ASSUME NEW i \in (Len(h) + 1)..(Len(h) + Len(s))
                 PROVE  t[i] \in Byte
      OBVIOUS
    <3>1. i \in 1..Len(t)
      BY <1>1, <1>3
    <3> QED
      BY <1>3, <3>1, ElementOfSeq DEF Bytes
  <2>2. /\ u \in Seq(Byte)
        /\ Len(u) = IF Len(h) + 1 <= Len(h) + Len(s)
                      THEN Len(h) + Len(s) - (Len(h) + 1) + 1 ELSE 0
        /\ \A i \in 1..(Len(h) + Len(s) - (Len(h) + 1) + 1) :
              u[i] = t[Len(h) + 1 + i - 1]
    BY <1>1, <2>1, SubSeqProperties
  <2> HIDE DEF u
  <2>3. \A i \in 1..Len(s) : Len(h) + 1 + i - 1 = Len(h) + i
    BY <1>1
  <2>4. /\ (IF Len(h) + 1 <= Len(h) + Len(s)
              THEN Len(h) + Len(s) - (Len(h) + 1) + 1 ELSE 0) = Len(s)
        /\ Len(h) + Len(s) - (Len(h) + 1) + 1 = Len(s)
    BY <1>1
  <2>5. Len(u) = Len(s)
    BY <2>2, <2>4, Zenon
  <2>6. ASSUME NEW i \in 1..Len(s) PROVE u[i] = s[i]
    <3>1. u[i] = t[Len(h) + 1 + i - 1]
      BY <2>2, <2>4, Zenon
    <3> QED
      BY <1>6, <2>3, <3>1, Zenon
  <2>7. u = s
    BY <2>2, <2>5, <2>6, SeqEqual DEF Bytes
  <2> QED
    BY <2>7 DEF u
<1> QED
  BY <1>3, <1>5, <1>6, <1>7

-----------------------------------------------------------------------------
(* RLP items *)

(* The header of a short string, and of a list. *)
LEMMA StringHeader ==
    ASSUME NEW n \in Nat, n <= 55
    PROVE  /\ RlpHeader(String, n) \in Bytes
           /\ RlpHeader(String, n) = <<128 + n>>
           /\ Len(RlpHeader(String, n)) = 1
<1>1. RlpHeader(String, n) = <<128 + n>>
  BY DEF RlpHeader, String, List
<1>2. 128 + n \in Byte
  BY DEF Byte
<1> QED
  BY <1>1, <1>2 DEF Bytes

LEMMA ListHeader ==
    ASSUME NEW n \in Nat, n <= 65535
    PROVE  /\ RlpHeader(List, n) \in Bytes
           /\ Len(RlpHeader(List, n)) =
                 IF n <= 55 THEN 1 ELSE IF n <= 255 THEN 2 ELSE 3
           /\ n <= 55 => RlpHeader(List, n)[1] = 192 + n
           /\ n > 55 /\ n <= 255 =>
                 RlpHeader(List, n)[1] = 248 /\ RlpHeader(List, n)[2] = n
           /\ n > 255 =>
                 /\ RlpHeader(List, n)[1] = 249
                 /\ 256 * RlpHeader(List, n)[2] + RlpHeader(List, n)[3] = n
<1>1. CASE n <= 55
  <2>1. RlpHeader(List, n) = <<192 + n>>
    BY <1>1 DEF RlpHeader, String, List
  <2>2. 192 + n \in Byte
    BY <1>1 DEF Byte
  <2> QED
    BY <1>1, <2>1, <2>2 DEF Bytes
<1>2. CASE n > 55 /\ n <= 255
  <2>1. RlpHeader(List, n) = <<248, n>>
    BY <1>2 DEF RlpHeader, String, List
  <2>2. 248 \in Byte /\ n \in Byte
    BY <1>2 DEF Byte
  <2> QED
    BY <1>2, <2>1, <2>2 DEF Bytes
<1>3. CASE n > 255
  <2>1. RlpHeader(List, n) = <<249, n \div 256, n % 256>>
    BY <1>3 DEF RlpHeader, String, List
  <2>2. /\ 249 \in Byte /\ n \div 256 \in Byte /\ n % 256 \in Byte
        /\ 256 * (n \div 256) + (n % 256) = n
    BY <1>3 DEF Byte
  <2> QED
    BY <1>3, <2>1, <2>2 DEF Bytes
<1> QED
  BY <1>1, <1>2, <1>3

(* A string that does not stand for itself is read as an item of its size. *)
LEMMA StringRead ==
    ASSUME NEW n \in Nat, n <= 55, NEW s \in Bytes, Len(s) >= 1 + n,
           s[1] = 128 + n, n = 1 => s[2] >= 128
    PROVE  RlpItem(s) = [kind |-> String, length |-> n, skip |-> 1]
<1>1. Len(s) \in Nat /\ s # <<>>
  BY LenProperties, EmptySeq DEF Bytes
<1>0. ASSUME n = 1 PROVE s[2] \in Int
  <2>1. 2 \in 1..Len(s)
    BY <1>0, <1>1
  <2>2. s[2] \in Byte
    BY <2>1, ElementOfSeq DEF Bytes
  <2> QED
    BY <2>2, ByteType
<1>2. s[1] <= 183 /\ ~(s[1] < 128) /\ s[1] - 128 = n
  OBVIOUS
<1>3. RlpItem(s) = ItemOf(s, String, 1, n)
  BY <1>1, <1>2 DEF RlpItem
<1> QED
  BY <1>0, <1>1, <1>3 DEF ItemOf, String

(* A list with the shortest header it may have. *)
LEMMA ListItem ==
    ASSUME NEW s \in Bytes, NEW n \in Nat, NEW skip \in {1, 2, 3},
           skip = 2 => n > 55, skip = 3 => n > 255
    PROVE  ItemOf(s, List, skip, n) =
               IF Len(s) < skip + n THEN Refused
               ELSE [kind |-> List, length |-> n, skip |-> skip]
<1>1. Len(s) \in Nat /\ List # String
  BY LenProperties DEF Bytes, List, String
<1>2. CASE Len(s) < skip + n
  BY <1>2 DEF ItemOf
<1>3. CASE ~(Len(s) < skip + n)
  <2>1. ~(skip = 2 /\ n <= 55) /\ ~(skip = 3 /\ n <= 255)
    OBVIOUS
  <2> QED
    BY <1>1, <1>3, <2>1 DEF ItemOf
<1> QED
  BY <1>2, <1>3

(* An input that begins like a list of n bytes, whole or cut anywhere, is  *)
(* read as that list if all of it is there, and refused if not.            *)
LEMMA ListRead ==
    ASSUME NEW n \in Nat, n <= 65535, NEW s \in Bytes,
           \A i \in 1..Len(s) : i <= Len(RlpHeader(List, n)) =>
               s[i] = RlpHeader(List, n)[i]
    PROVE  RlpItem(s) =
               IF Len(s) < Len(RlpHeader(List, n)) + n THEN Refused
               ELSE [kind |-> List, length |-> n,
                     skip |-> Len(RlpHeader(List, n))]
<1> DEFINE h == RlpHeader(List, n)
<1>1. Len(s) \in Nat
  BY LenProperties DEF Bytes
<1>2. Len(h) \in 1..3
  BY ListHeader
<1>3. CASE Len(s) = 0
  <2>1. s = <<>>
    BY <1>3, EmptySeq DEF Bytes
  <2>2. RlpItem(s) = Refused
    BY <2>1 DEF RlpItem, String, List
  <2>3. Len(s) < Len(h) + n
    BY <1>2, <1>3
  <2> QED
    BY <2>2, <2>3
<1>4. ASSUME Len(s) > 0 PROVE s # <<>> /\ s[1] = h[1]
  <2>1. s # <<>>
    BY <1>4, EmptySeq DEF Bytes
  <2>2. 1 \in 1..Len(s) /\ 1 <= Len(h)
    <3> HIDE DEF h
    <3> QED
      BY <1>1, <1>2, <1>4
  <2> QED
    BY <2>1, <2>2
<1>5. CASE Len(s) > 0 /\ n <= 55
  <2>1. Len(h) = 1 /\ s[1] = 192 + n /\ s # <<>>
    BY <1>4, <1>5, ListHeader
  <2>2. /\ 192 <= s[1] /\ s[1] <= 247 /\ s[1] - 192 = n
        /\ s[1] # 184 /\ s[1] # 185 /\ ~(s[1] <= 183) /\ ~(s[1] < 128)
    BY <1>5, <2>1
  <2>3. RlpItem(s) = ItemOf(s, List, 1, n)
    BY <2>1, <2>2 DEF RlpItem
  <2> QED
    BY <1>1, <1>5, <2>1, <2>3, ListItem
<1>6. CASE Len(s) > 0 /\ n > 55 /\ n <= 255
  <2>1. Len(h) = 2 /\ s[1] = 248 /\ s # <<>>
    BY <1>4, <1>6, ListHeader
  <2>2. Len(s) > 1 => s[2] = n
    BY <1>1, <1>6, <2>1, ListHeader
  <2>3. RlpItem(s) = IF Len(s) > 1 THEN ItemOf(s, List, 2, n) ELSE Refused
    BY <2>1, <2>2 DEF RlpItem
  <2> QED
    BY <1>1, <1>6, <2>1, <2>3, ListItem
<1>7. CASE Len(s) > 0 /\ n > 255
  <2>1. Len(h) = 3 /\ s[1] = 249 /\ s # <<>>
    BY <1>4, <1>7, ListHeader
  <2>2. Len(s) > 2 => 256 * s[2] + s[3] = n
    <3>1. Len(s) > 2 => s[2] = h[2] /\ s[3] = h[3]
      BY <1>1, <2>1
    <3> QED
      BY <1>7, <3>1, ListHeader
  <2>3. RlpItem(s) = IF Len(s) > 2 THEN ItemOf(s, List, 3, n) ELSE Refused
    BY <2>1, <2>2 DEF RlpItem
  <2>4. ItemOf(s, List, 3, n) =
          IF Len(s) < 3 + n THEN Refused
          ELSE [kind |-> List, length |-> n, skip |-> 3]
    BY <1>7, ListItem
  <2> QED
    BY <1>1, <1>7, <2>1, <2>3, <2>4
<1> QED
  BY <1>1, <1>3, <1>5, <1>6, <1>7

-----------------------------------------------------------------------------
(* Strings and numbers *)

(* The payload of a string, and what follows it. *)
LEMMA StringPayload ==
    ASSUME NEW t, NEW n \in Nat, NEW skip \in Nat,
           RlpItem(t) = [kind |-> String, length |-> n, skip |-> skip]
    PROVE  DecodeBytes(t) = [value |-> SubSeq(t, skip + 1, skip + n),
                             rest |-> Drop(t, skip + n)]
<1> DEFINE item == [kind |-> String, length |-> n, skip |-> skip]
<1>1. item # Refused
  BY CodecAssumption DEF Items, String
<1>2. item.kind # List /\ item.length = n /\ item.skip = skip
  BY DEF String, List
<1>3. RlpItem(t) = item
  OBVIOUS
<1> HIDE DEF item
<1> QED
  BY <1>1, <1>2, <1>3 DEF DecodeBytes, Then

(* A string of up to 55 bytes is encoded in one byte more at most, and     *)
(* decoded as itself, whatever follows.                                    *)
LEMMA StringRoundTrip ==
    ASSUME NEW s \in Bytes, Len(s) <= 55, NEW rest \in Bytes
    PROVE  /\ RlpString(s) \in Bytes
           /\ Len(RlpString(s)) \in 1..(Len(s) + 1)
           /\ DecodeBytes(RlpString(s) \o rest) = [value |-> s, rest |-> rest]
<1>1. Len(s) \in Nat /\ Len(rest) \in Nat
  BY LenProperties DEF Bytes
<1>2. CASE Len(s) = 1 /\ s[1] < 128
  <2> DEFINE t == s \o rest
  <2>1. RlpString(s) = s
    BY <1>2 DEF RlpString
  <2>2. t \in Bytes /\ Len(t) = 1 + Len(rest) /\ t[1] = s[1] /\ t # <<>>
    <3>1. t \in Bytes /\ Len(t) = 1 + Len(rest)
      BY <1>2, DropConcat
    <3>2. t[1] = s[1]
      <4>1. \A i \in 1..Len(s) : t[i] = s[i]
        BY DropConcat
      <4> HIDE DEF t
      <4> QED
        BY <1>2, <4>1
    <3>3. t # <<>>
      <4> HIDE DEF t
      <4> QED
        BY <1>1, <3>1, EmptySeq DEF Bytes
    <3> QED
      BY <3>1, <3>2, <3>3
  <2>3. RlpItem(t) = [kind |-> String, length |-> 1, skip |-> 0]
    <3>1. RlpItem(t) = ItemOf(t, String, 0, 1)
      <4> HIDE DEF t
      <4> QED
        BY <1>2, <2>2 DEF RlpItem
    <3>2. ~(Len(t) < 0 + 1)
      <4> HIDE DEF t
      <4> QED
        BY <1>1, <2>2
    <3> QED
      BY <3>1, <3>2 DEF ItemOf
  <2>4. SubSeq(t, 1, 1) = s /\ Drop(t, 1) = rest
    BY <1>2, DropConcat
  <2>5. DecodeBytes(t) = [value |-> s, rest |-> rest]
    <3> HIDE DEF t
    <3>1. DecodeBytes(t) = [value |-> SubSeq(t, 0 + 1, 0 + 1),
                            rest |-> Drop(t, 0 + 1)]
      BY <2>3, StringPayload
    <3>2. 0 + 1 = 1
      OBVIOUS
    <3> QED
      BY <2>4, <3>1, <3>2, Zenon
  <2> QED
    BY <1>1, <1>2, <2>1, <2>5
<1>3. CASE ~(Len(s) = 1 /\ s[1] < 128)
  <2> DEFINE h == RlpHeader(String, Len(s))
             t == (h \o s) \o rest
  <2>1. RlpString(s) = h \o s
    BY <1>3 DEF RlpString
  <2>2. h \in Bytes /\ h = <<128 + Len(s)>> /\ Len(h) = 1
    BY <1>1, StringHeader
  <2>3. h \o s \in Bytes /\ Len(h \o s) = 1 + Len(s)
    BY <2>2, DropConcat
  <2>4. /\ t \in Bytes /\ Len(t) = Len(h) + Len(s) + Len(rest)
        /\ \A i \in 1..Len(h) : t[i] = h[i]
        /\ \A i \in 1..Len(s) : t[Len(h) + i] = s[i]
        /\ SubSeq(t, Len(h) + 1, Len(h) + Len(s)) = s
        /\ Drop(t, Len(h) + Len(s)) = rest
    <3>1. h \in Bytes /\ t = (h \o s) \o rest
      BY <2>2, Zenon
    <3> HIDE DEF h, t
    <3>2. /\ (h \o s) \o rest \in Bytes
          /\ Len((h \o s) \o rest) = Len(h) + Len(s) + Len(rest)
          /\ \A i \in 1..Len(h) : ((h \o s) \o rest)[i] = h[i]
          /\ \A i \in 1..Len(s) : ((h \o s) \o rest)[Len(h) + i] = s[i]
          /\ SubSeq((h \o s) \o rest, Len(h) + 1, Len(h) + Len(s)) = s
          /\ Drop((h \o s) \o rest, Len(h) + Len(s)) = rest
      BY <3>1, MiddleOf
    <3> QED
      BY <3>1, <3>2, Zenon
  <2>5. /\ t \in Bytes /\ Len(t) = 1 + Len(s) + Len(rest)
        /\ \A i \in 1..1 : t[i] = h[i]
        /\ \A i \in 1..Len(s) : t[1 + i] = s[i]
        /\ SubSeq(t, 1 + 1, 1 + Len(s)) = s /\ Drop(t, 1 + Len(s)) = rest
    BY <2>2, <2>4, Zenon
  <2>6. t[1] = 128 + Len(s) /\ (Len(s) = 1 => t[2] = s[1])
    <3>1. h[1] = 128 + Len(s)
      BY <2>2
    <3> HIDE DEF h, t
    <3>2. t[1] = h[1]
      BY <2>5
    <3>3. ASSUME Len(s) = 1 PROVE t[2] = s[1]
      <4>1. 1 \in 1..Len(s) /\ 1 + 1 = 2
        BY <3>3
      <4> QED
        BY <2>5, <4>1
    <3> QED
      BY <3>1, <3>2, <3>3
  <2>7. RlpItem(t) = [kind |-> String, length |-> Len(s), skip |-> 1]
    <3>1. Len(s) = 1 => t[2] >= 128
      <4>1. Len(s) = 1 => s[1] \in Nat
        BY ElementOfSeq, ByteType DEF Bytes
      <4> HIDE DEF t
      <4> QED
        BY <1>3, <2>6, <4>1
    <3> DEFINE n == Len(s)
    <3>2. /\ n \in Nat /\ n <= 55 /\ t[1] = 128 + n /\ Len(t) >= 1 + n
          /\ n = 1 => t[2] >= 128
      <4> HIDE DEF t
      <4> QED
        BY <1>1, <2>5, <2>6, <3>1
    <3> HIDE DEF t, n
    <3>3. RlpItem(t) = [kind |-> String, length |-> n, skip |-> 1]
      BY <2>5, <3>2, StringRead
    <3> QED
      BY <3>3 DEF n
  <2>8. DecodeBytes(t) = [value |-> s, rest |-> rest]
    <3> HIDE DEF t
    <3>1. DecodeBytes(t) = [value |-> SubSeq(t, 1 + 1, 1 + Len(s)),
                            rest |-> Drop(t, 1 + Len(s))]
      BY <1>1, <2>7, StringPayload
    <3> QED
      BY <2>5, <3>1, Zenon
  <2> QED
    BY <1>1, <2>1, <2>3, <2>8
<1> QED
  BY <1>2, <1>3

(* The significant bytes of a number: no more than eight, no leading zero, *)
(* and enough to have the number back.                                     *)
LEMMA SignificantBytes ==
    ASSUME NEW x \in U64
    PROVE  /\ Significant(x) \in Bytes /\ Len(Significant(x)) <= 8
           /\ Len(Significant(x)) > 0 => Significant(x)[1] # 0
           /\ Widened(Significant(x)) = x
<1>1. x \in [1..8 -> Byte] /\ x \in Seq(Byte) /\ Len(x) = 8
  BY FieldBytes DEF U64, Bytes
<1>2. CASE \A i \in 1..8 : x[i] = 0
  <2>1. Significant(x) = <<>>
    BY <1>2 DEF Significant
  <2>2. <<>> \in Bytes /\ Len(<<>>) = 0
    BY DEF Bytes
  <2>3. Widened(<<>>) = [i \in 1..8 |-> 0]
    BY DEF Widened
  <2>4. x = [i \in 1..8 |-> 0]
    BY <1>1, <1>2
  <2> QED
    BY <2>1, <2>2, <2>3, <2>4
<1>3. CASE ~ \A i \in 1..8 : x[i] = 0
  <2> DEFINE First(i) == x[i] # 0 /\ \A j \in 1..(i - 1) : x[j] = 0
             m == CHOOSE i \in 1..8 : First(i)
             d == Significant(x)
  <2>1. \E i \in 1..8 : First(i)
    <3>1. CASE x[1] # 0
      BY <3>1
    <3>2. CASE x[1] = 0 /\ x[2] # 0
      BY <3>2
    <3>3. CASE x[1] = 0 /\ x[2] = 0 /\ x[3] # 0
      BY <3>3
    <3>4. CASE x[1] = 0 /\ x[2] = 0 /\ x[3] = 0 /\ x[4] # 0
      BY <3>4
    <3>5. CASE x[1] = 0 /\ x[2] = 0 /\ x[3] = 0 /\ x[4] = 0 /\ x[5] # 0
      BY <3>5
    <3>6. CASE /\ x[1] = 0 /\ x[2] = 0 /\ x[3] = 0 /\ x[4] = 0 /\ x[5] = 0
               /\ x[6] # 0
      BY <3>6
    <3>7. CASE /\ x[1] = 0 /\ x[2] = 0 /\ x[3] = 0 /\ x[4] = 0 /\ x[5] = 0
               /\ x[6] = 0 /\ x[7] # 0
      BY <3>7
    <3>8. CASE /\ x[1] = 0 /\ x[2] = 0 /\ x[3] = 0 /\ x[4] = 0 /\ x[5] = 0
               /\ x[6] = 0 /\ x[7] = 0
      BY <1>3, <3>8
    <3> QED
      BY <3>1, <3>2, <3>3, <3>4, <3>5, <3>6, <3>7, <3>8
  <2>2. m \in 1..8 /\ First(m)
    BY <2>1
  <2>3. d = SubSeq(x, m - 1 + 1, Len(x))
    BY <1>3 DEF Significant, Drop
  <2> HIDE DEF m, d
  <2>4. d = SubSeq(x, m, 8)
    <3>1. m - 1 + 1 = m
      BY <2>2
    <3> QED
      BY <1>1, <2>3, <3>1, Zenon
  <2>5. /\ d \in Seq(Byte) /\ Len(d) = 9 - m
        /\ \A j \in 1..(9 - m) : d[j] = x[m + j - 1]
    <3>1. \A i \in m..8 : x[i] \in Byte
      BY <1>1, <2>2
    <3>2. /\ SubSeq(x, m, 8) \in Seq(Byte)
          /\ Len(SubSeq(x, m, 8)) = IF m <= 8 THEN 8 - m + 1 ELSE 0
          /\ \A j \in 1..(8 - m + 1) : SubSeq(x, m, 8)[j] = x[m + j - 1]
      BY <2>2, <3>1, SubSeqProperties
    <3>3. 8 - m + 1 = 9 - m /\ m <= 8
      BY <2>2
    <3> QED
      BY <2>4, <3>2, <3>3, Zenon
  <2>6. Len(d) <= 8 /\ d[1] # 0
    <3>1. 1 \in 1..(9 - m) /\ m + 1 - 1 = m
      BY <2>2
    <3>2. d[1] = x[m]
      BY <2>5, <3>1, Zenon
    <3> QED
      BY <2>2, <2>5, <3>2
  <2>7. Widened(d) = x
    <3>1. ASSUME NEW i \in 1..8
          PROVE  (IF i > 8 - Len(d) THEN d[i - 8 + Len(d)] ELSE 0) = x[i]
      <4>1. CASE i >= m
        <5>1. /\ i > 8 - Len(d) /\ i - 8 + Len(d) \in 1..(9 - m)
              /\ m + (i - 8 + Len(d)) - 1 = i
          BY <2>2, <2>5, <4>1
        <5>2. d[i - 8 + Len(d)] = x[m + (i - 8 + Len(d)) - 1]
          BY <2>5, <5>1, Zenon
        <5>3. d[i - 8 + Len(d)] = x[i]
          BY <5>1, <5>2, Zenon
        <5> QED
          BY <5>1, <5>3, Zenon
      <4>2. CASE i < m
        BY <2>2, <2>5, <4>2
      <4> QED
        BY <2>2, <4>1, <4>2
    <3> QED
      BY <1>1, <3>1 DEF Widened
  <2> QED
    BY <2>5, <2>6, <2>7 DEF Bytes, d
<1> QED
  BY <1>2, <1>3

(* A piece is no error. *)
LEMMA PieceType ==
    ASSUME NEW v \in Bytes \cup Contexts \cup Headers, NEW rest \in Bytes
    PROVE  [value |-> v, rest |-> rest] # Refused
BY CodecAssumption DEF Pieces, Bytes

(* A number is encoded in nine bytes at most, and decoded as itself,       *)
(* whatever follows.                                                       *)
LEMMA U64RoundTrip ==
    ASSUME NEW x \in U64, NEW rest \in Bytes
    PROVE  /\ EncodeU64(x) \in Bytes /\ Len(EncodeU64(x)) <= 9
           /\ DecodeU64(EncodeU64(x) \o rest) = [value |-> x, rest |-> rest]
<1> DEFINE d == Significant(x)
           t == EncodeU64(x) \o rest
           piece == [value |-> d, rest |-> rest]
<1>1. /\ d \in Bytes /\ Len(d) <= 8 /\ (Len(d) > 0 => d[1] # 0)
      /\ Widened(d) = x
  BY SignificantBytes
<1>2. Len(d) \in Nat
  BY <1>1, LenProperties DEF Bytes
<1>3. /\ EncodeU64(x) \in Bytes /\ Len(EncodeU64(x)) \in 1..(Len(d) + 1)
      /\ DecodeBytes(t) = piece
  <2>1. EncodeU64(x) = RlpString(d)
    BY DEF EncodeU64
  <2> HIDE DEF d
  <2>2. /\ RlpString(d) \in Bytes /\ Len(RlpString(d)) \in 1..(Len(d) + 1)
        /\ DecodeBytes(RlpString(d) \o rest) = [value |-> d, rest |-> rest]
    BY <1>1, <1>2, StringRoundTrip
  <2> QED
    BY <2>1, <2>2, Zenon
<1>4. piece # Refused
  BY <1>1, PieceType
<1>5. piece.value = d /\ piece.rest = rest
  OBVIOUS
<1> HIDE DEF d, t, piece
<1>6. DecodeU64(t) = [value |-> x, rest |-> rest]
  <2>1. ~(Len(d) > 8 \/ (Len(d) > 0 /\ d[1] = 0))
    BY <1>1, <1>2
  <2> QED
    BY <1>1, <1>3, <1>4, <1>5, <2>1 DEF DecodeU64, Then
<1>7. Len(EncodeU64(x)) <= 9
  BY <1>1, <1>2, <1>3
<1> QED
  BY <1>3, <1>6, <1>7 DEF t

(* A key is encoded in one byte more than it has, and decoded as itself.   *)
LEMMA KeyRoundTrip ==
    ASSUME NEW k \in Keys, NEW rest \in Bytes
    PROVE  /\ EncodeKey(k) \in Bytes /\ Len(EncodeKey(k)) <= 56
           /\ DecodeKey(EncodeKey(k) \o rest) = [value |-> k, rest |-> rest]
<1> DEFINE t == EncodeKey(k) \o rest
           piece == [value |-> k, rest |-> rest]
<1>1. k \in Bytes /\ Len(k) = KeySize /\ KeySize \in Nat /\ KeySize <= 55
  BY FieldBytes, CodecAssumption
<1>2. /\ EncodeKey(k) \in Bytes /\ Len(EncodeKey(k)) \in 1..(Len(k) + 1)
      /\ DecodeBytes(t) = piece
  BY <1>1, StringRoundTrip DEF EncodeKey
<1>3. piece # Refused
  BY <1>1, PieceType
<1>4. piece.value = k
  OBVIOUS
<1> HIDE DEF t, piece
<1>5. DecodeKey(t) = piece
  BY <1>1, <1>2, <1>3, <1>4 DEF DecodeKey, Then
<1>6. Len(EncodeKey(k)) <= 56
  BY <1>1, <1>2
<1> QED
  BY <1>2, <1>5, <1>6 DEF t, piece

-----------------------------------------------------------------------------
(* The consensus context *)

(* A context is decoded field by field. *)
LEMMA ContextFields ==
    ASSUME NEW s, NEW item, NEW e, NEW v, NEW p, NEW k,
           RlpItem(s) = item, item # Refused, item.kind = List,
           DecodeU64(Drop(s, item.skip)) = e, e # Refused,
           DecodeU64(e.rest) = v, v # Refused,
           DecodeU64(v.rest) = p, p # Refused,
           DecodeKey(p.rest) = k, k # Refused
    PROVE  DecodeContext(s) =
             [value |-> [epoch |-> e.value, view |-> v.value,
                         parent_view |-> p.value, proposer |-> k.value],
              rest |-> k.rest]
BY DEF DecodeContext, Then

(* Of what a list is made, when all of it is there. *)
LEMMA ListWhole ==
    ASSUME NEW p \in Bytes, Len(p) <= 65535
    PROVE  /\ RlpHeader(List, Len(p)) \o p \in Bytes
           /\ Len(RlpHeader(List, Len(p)) \o p) =
                 Len(RlpHeader(List, Len(p))) + Len(p)
           /\ RlpItem(RlpHeader(List, Len(p)) \o p) =
                 [kind |-> List, length |-> Len(p),
                  skip |-> Len(RlpHeader(List, Len(p)))]
           /\ Drop(RlpHeader(List, Len(p)) \o p,
                   Len(RlpHeader(List, Len(p)))) = p
<1> DEFINE n == Len(p)
           h == RlpHeader(List, n)
           s == h \o p
<1>1. n \in Nat /\ n <= 65535
  BY LenProperties DEF Bytes
<1> HIDE DEF n
<1>2. h \in Bytes /\ Len(h) \in Nat
  BY <1>1, ListHeader
<1> HIDE DEF h
<1>3. /\ s \in Bytes /\ Len(s) = Len(h) + Len(p) /\ Drop(s, Len(h)) = p
      /\ \A i \in 1..Len(h) : s[i] = h[i]
  BY <1>2, DropConcat
<1> HIDE DEF s
<1>4. RlpItem(s) = [kind |-> List, length |-> n, skip |-> Len(h)]
  <2>1. \A i \in 1..Len(s) : i <= Len(h) => s[i] = h[i]
    BY <1>2, <1>3
  <2>2. RlpItem(s) = IF Len(s) < Len(h) + n THEN Refused
                     ELSE [kind |-> List, length |-> n, skip |-> Len(h)]
    BY <1>1, <1>3, <2>1, ListRead DEF h
  <2>3. ~(Len(s) < Len(h) + n)
    BY <1>1, <1>2, <1>3 DEF n
  <2> QED
    BY <2>2, <2>3
<1> QED
  BY <1>3, <1>4 DEF n, h, s

(* A context is encoded in 85 bytes at most, as many as its length method  *)
(* says, and decoded as itself.                                            *)
LEMMA ContextRoundTrip ==
    ASSUME NEW c \in Contexts
    PROVE  /\ EncodeContext(c) \in Bytes
           /\ Len(EncodeContext(c)) \in Nat \ {0} /\ Len(EncodeContext(c)) <= 85
           /\ ContextLength(c) = Len(EncodeContext(c))
           /\ DecodeContext(EncodeContext(c)) = [value |-> c, rest |-> <<>>]
<1> DEFINE E == EncodeU64(c.epoch)
           V == EncodeU64(c.view)
           P == EncodeU64(c.parent_view)
           K == EncodeKey(c.proposer)
           pl == ContextPayload(c)
           h == RlpHeader(List, Len(pl))
           s == EncodeContext(c)
<1>0. /\ c.epoch \in U64 /\ c.view \in U64 /\ c.parent_view \in U64
      /\ c.proposer \in Keys
      /\ c = [epoch |-> c.epoch, view |-> c.view, parent_view |-> c.parent_view,
              proposer |-> c.proposer]
  BY CodecAssumption DEF Contexts
<1>1. <<>> \in Bytes
  BY DEF Bytes
<1>2. /\ E \in Bytes /\ Len(E) <= 9 /\ V \in Bytes /\ Len(V) <= 9
      /\ P \in Bytes /\ Len(P) <= 9 /\ K \in Bytes /\ Len(K) <= 56
  BY <1>0, <1>1, U64RoundTrip, KeyRoundTrip
<1>3. pl = ((E \o V) \o P) \o K
  BY DEF ContextPayload
<1>4. /\ \A rest \in Bytes :
            DecodeU64(E \o rest) = [value |-> c.epoch, rest |-> rest]
      /\ \A rest \in Bytes :
            DecodeU64(V \o rest) = [value |-> c.view, rest |-> rest]
      /\ \A rest \in Bytes :
            DecodeU64(P \o rest) = [value |-> c.parent_view, rest |-> rest]
      /\ DecodeKey(K \o <<>>) = [value |-> c.proposer, rest |-> <<>>]
  BY <1>0, <1>1, U64RoundTrip, KeyRoundTrip
<1>5. s = h \o pl
  BY DEF EncodeContext
<1> HIDE DEF E, V, P, K, pl
<1>6. /\ pl \in Bytes /\ Len(pl) \in Nat /\ Len(pl) <= 83
      /\ P \o K \in Bytes /\ V \o (P \o K) \in Bytes
  <2>1. /\ Len(E) \in Nat /\ Len(V) \in Nat /\ Len(P) \in Nat /\ Len(K) \in Nat
    BY <1>2, LenProperties DEF Bytes
  <2>2. E \o V \in Bytes /\ Len(E \o V) = Len(E) + Len(V)
    BY <1>2, DropConcat
  <2>3. /\ (E \o V) \o P \in Bytes
        /\ Len((E \o V) \o P) = Len(E) + Len(V) + Len(P)
    BY <1>2, MiddleOf
  <2>4. pl \in Bytes /\ Len(pl) = Len(E) + Len(V) + Len(P) + Len(K)
    <3> DEFINE u == (E \o V) \o P
    <3>1. u \in Bytes /\ Len(u) = Len(E) + Len(V) + Len(P) /\ pl = u \o K
      BY <1>3, <2>3, Zenon
    <3> HIDE DEF u
    <3>2. u \o K \in Bytes /\ Len(u \o K) = Len(u) + Len(K)
      BY <1>2, <3>1, DropConcat
    <3> QED
      BY <3>1, <3>2, Zenon
  <2>5. P \o K \in Bytes
    BY <1>2, DropConcat
  <2>6. V \o (P \o K) \in Bytes
    BY <1>2, <2>5, ConcatProperties DEF Bytes
  <2> QED
    BY <1>2, <2>1, <2>4, <2>5, <2>6
<1>7. pl = E \o (V \o (P \o K))
  <2> DEFINE u == E \o V
             w == P \o K
  <2>1. E \in Bytes /\ V \in Bytes /\ w \in Bytes
    BY <1>2, DropConcat
  <2>2. u \in Bytes /\ P \in Bytes /\ K \in Bytes
    BY <1>2, DropConcat
  <2>3. (E \o V) \o w = E \o (V \o w)
    <3> HIDE DEF w
    <3> QED
      BY <2>1, ConcatAssociative DEF Bytes
  <2>4. (u \o P) \o K = u \o (P \o K)
    <3> HIDE DEF u
    <3> QED
      BY <2>2, ConcatAssociative DEF Bytes
  <2> QED
    BY <1>3, <2>3, <2>4, Zenon
<1>8. K \o <<>> = K
  BY <1>2, ConcatEmptySeq DEF Bytes
<1>9. /\ s \in Bytes /\ Len(s) = Len(h) + Len(pl) /\ Drop(s, Len(h)) = pl
      /\ RlpItem(s) = [kind |-> List, length |-> Len(pl), skip |-> Len(h)]
  <2>1. Len(pl) <= 65535
    BY <1>6
  <2>2. /\ h \o pl \in Bytes /\ Len(h \o pl) = Len(h) + Len(pl)
        /\ Drop(h \o pl, Len(h)) = pl
        /\ RlpItem(h \o pl) =
              [kind |-> List, length |-> Len(pl), skip |-> Len(h)]
    BY <1>6, <2>1, ListWhole
  <2> QED
    BY <1>5, <2>2, Zenon
<1>10. Len(h) = IF Len(pl) <= 55 THEN 1 ELSE 2
  BY <1>6, ListHeader
<1>11. ContextLength(c) = Len(s)
  <2>1. ContextLength(c) = (IF Len(pl) <= 55 THEN 1 ELSE 2) + Len(pl)
    BY <1>6 DEF ContextLength, pl
  <2> QED
    BY <1>9, <1>10, <2>1, Zenon
<1>12. Len(s) \in Nat \ {0} /\ Len(s) <= 85
  BY <1>6, <1>9, <1>10
<1>13. DecodeContext(s) = [value |-> c, rest |-> <<>>]
  <2> DEFINE item == [kind |-> List, length |-> Len(pl), skip |-> Len(h)]
             e == [value |-> c.epoch, rest |-> V \o (P \o K)]
             v == [value |-> c.view, rest |-> P \o K]
             p == [value |-> c.parent_view, rest |-> K]
             k == [value |-> c.proposer, rest |-> <<>>]
  <2>1. /\ item.kind = List /\ item.skip = Len(h)
        /\ e.value = c.epoch /\ e.rest = V \o (P \o K)
        /\ v.value = c.view /\ v.rest = P \o K
        /\ p.value = c.parent_view /\ p.rest = K
        /\ k.value = c.proposer /\ k.rest = <<>>
    OBVIOUS
  <2>2. item # Refused
    BY <1>6, <1>10, CodecAssumption DEF Items, List
  <2>3. e # Refused /\ v # Refused /\ p # Refused /\ k # Refused
    <3>1. /\ c.epoch \in Bytes /\ c.view \in Bytes /\ c.parent_view \in Bytes
          /\ c.proposer \in Bytes
      BY <1>0, FieldBytes
    <3> QED
      BY <1>1, <1>2, <1>6, <3>1, PieceType
  <2>4. /\ DecodeU64(pl) = e /\ DecodeU64(V \o (P \o K)) = v
        /\ DecodeU64(P \o K) = p /\ DecodeKey(K) = k
    BY <1>2, <1>4, <1>6, <1>7, <1>8, Zenon
  <2> HIDE DEF item, e, v, p, k, s
  <2>5. RlpItem(s) = item
    BY <1>9 DEF item
  <2>6. DecodeContext(s) =
          [value |-> [epoch |-> e.value, view |-> v.value,
                      parent_view |-> p.value, proposer |-> k.value],
           rest |-> k.rest]
    <3>1. /\ DecodeU64(Drop(s, item.skip)) = e /\ DecodeU64(e.rest) = v
          /\ DecodeU64(v.rest) = p /\ DecodeKey(p.rest) = k
      BY <1>9, <2>1, <2>4, Zenon
    <3>2. item.kind = List
      BY <2>1, Zenon
    <3> QED
      BY <2>2, <2>3, <2>5, <3>1, <3>2, ContextFields
  <2> QED
    BY <1>0, <2>1, <2>6, Zenon
<1> QED
  BY <1>9, <1>11, <1>12, <1>13

-----------------------------------------------------------------------------
(* The header *)

(* What a header is made of, and how its payload ends. *)
LEMMA HeaderParts ==
    ASSUME NEW h \in Headers
    PROVE  /\ HeaderPayload(h) \in Bytes
           /\ HeaderPayloadLength(h) = Len(HeaderPayload(h))
           /\ Len(HeaderPayload(h)) <= 4190
           /\ Len(HeaderPayload(h)) >= Len(Inner)
           /\ DecodeFields(HeaderPayload(h), 0) = [value |-> h, rest |-> <<>>]
<1> DEFINE T == EncodeU64(h.timestamp_millis)
           c == h.consensus_context
           C == IF c = None THEN <<>> ELSE EncodeContext(c)
           p == HeaderPayload(h)
<1>1. /\ h.inner = Inner /\ h.timestamp_millis \in U64
      /\ c \in Contexts \cup {None}
      /\ h = [inner |-> Inner, timestamp_millis |-> h.timestamp_millis,
              consensus_context |-> c]
  BY CodecAssumption DEF Headers
<1>2. /\ <<>> \in Bytes /\ Len(<<>>) = 0 /\ Inner \in Bytes
      /\ Len(Inner) \in Nat /\ Len(Inner) <= 4096
  BY CodecAssumption, LenProperties DEF Bytes
<1>3. c # None => c \in Contexts
  BY <1>1
<1>4. /\ C \in Bytes /\ Len(C) \in Nat /\ Len(C) <= 85
      /\ Len(C) = (IF c = None THEN 0 ELSE ContextLength(c))
      /\ c = None => C = <<>>
      /\ c # None => /\ Len(C) > 0
                     /\ DecodeContext(C) = [value |-> c, rest |-> <<>>]
  <2>1. CASE c = None
    BY <1>2, <2>1
  <2>2. CASE c # None
    <3> HIDE DEF c
    <3>1. /\ EncodeContext(c) \in Bytes /\ Len(EncodeContext(c)) \in Nat \ {0}
          /\ Len(EncodeContext(c)) <= 85
          /\ ContextLength(c) = Len(EncodeContext(c))
          /\ DecodeContext(EncodeContext(c)) = [value |-> c, rest |-> <<>>]
      BY <1>3, <2>2, ContextRoundTrip
    <3>2. C = EncodeContext(c)
      BY <2>2
    <3>3. Len(EncodeContext(c)) > 0 /\ Len(EncodeContext(c)) \in Nat
      BY <3>1
    <3> QED
      BY <2>2, <3>1, <3>2, <3>3, Zenon
  <2> QED
    BY <2>1, <2>2
<1>5. /\ T \in Bytes /\ Len(T) \in Nat /\ Len(T) <= 9
      /\ DecodeU64(T \o C) = [value |-> h.timestamp_millis, rest |-> C]
  <2> HIDE DEF C
  <2>1. /\ T \in Bytes /\ Len(T) <= 9
        /\ DecodeU64(T \o C) = [value |-> h.timestamp_millis, rest |-> C]
    BY <1>1, <1>4, U64RoundTrip
  <2> QED
    BY <2>1, LenProperties DEF Bytes
<1>6. p = (Inner \o T) \o C
  BY <1>1 DEF HeaderPayload
<1>7. HeaderPayloadLength(h) = Len(Inner) + Len(T) + Len(C)
  <2>1. HeaderPayloadLength(h) =
           Len(Inner) + Len(T) + (IF c = None THEN 0 ELSE ContextLength(c))
    BY <1>1 DEF HeaderPayloadLength
  <2> QED
    BY <1>4, <2>1, Zenon
<1> HIDE DEF T, C, p
<1>8. p \in Bytes /\ Len(p) = Len(Inner) + Len(T) + Len(C)
  <2>1. /\ (Inner \o T) \o C \in Bytes
        /\ Len((Inner \o T) \o C) = Len(Inner) + Len(T) + Len(C)
    <3>1. Inner \in Bytes /\ T \in Bytes /\ C \in Bytes
      BY <1>2, <1>4, <1>5
    <3> QED
      BY <3>1, MiddleOf
  <2> QED
    BY <1>6, <2>1, Zenon
<1>9. Drop(p, Len(Inner)) = T \o C
  <2>1. Inner \in Bytes /\ T \in Bytes /\ C \in Bytes
    BY <1>2, <1>4, <1>5
  <2>2. (Inner \o T) \o C = Inner \o (T \o C)
    BY <2>1, ConcatAssociative DEF Bytes
  <2> DEFINE w == T \o C
  <2>3. w \in Bytes
    BY <2>1, DropConcat
  <2> HIDE DEF w
  <2>4. Drop(Inner \o w, Len(Inner)) = w
    BY <2>1, <2>3, DropConcat
  <2> QED
    BY <1>6, <2>2, <2>4, Zenon DEF w
<1>10. DecodeFields(p, 0) = [value |-> h, rest |-> <<>>]
  <2> DEFINE t == [value |-> h.timestamp_millis, rest |-> C]
  <2>1. /\ DecodeU64(Drop(p, Len(Inner))) = t
        /\ t.value = h.timestamp_millis /\ t.rest = C
    BY <1>5, <1>9
  <2>2. t # Refused
    BY <1>1, <1>4, FieldBytes, PieceType
  <2> HIDE DEF t
  <2>3. CASE c = None
    <3>1. Len(t.rest) <= 0
      BY <1>2, <1>4, <2>1, <2>3
    <3>2. DecodeFields(p, 0) =
             [value |-> [inner |-> Inner, timestamp_millis |-> t.value,
                         consensus_context |-> None],
              rest |-> t.rest]
      BY <2>1, <2>2, <3>1 DEF DecodeFields, Then
    <3> QED
      BY <1>1, <1>4, <2>1, <2>3, <3>2, Zenon
  <2>4. CASE c # None
    <3> DEFINE d == [value |-> c, rest |-> <<>>]
    <3>1. ~(Len(t.rest) <= 0)
      BY <1>4, <2>1, <2>4
    <3>2. d.value = c /\ d.rest = <<>> /\ DecodeContext(t.rest) = d
      BY <1>4, <2>1, <2>4
    <3>3. d # Refused
      BY <1>2, <1>3, <2>4, PieceType
    <3> HIDE DEF d
    <3>4. DecodeFields(p, 0) =
             [value |-> [inner |-> Inner, timestamp_millis |-> t.value,
                         consensus_context |-> d.value],
              rest |-> d.rest]
      BY <2>1, <2>2, <3>1, <3>2, <3>3 DEF DecodeFields, Then
    <3> QED
      BY <1>1, <2>1, <3>2, <3>4, Zenon
  <2> QED
    BY <2>3, <2>4
<1>11. Len(p) <= 4190 /\ Len(p) >= Len(Inner)
  BY <1>2, <1>4, <1>5, <1>8
<1> QED
  BY <1>7, <1>8, <1>10, <1>11 DEF p

(* A header that arrives whole is decoded as itself. *)
LEMMA HeaderRoundTrip ==
    ASSUME NEW h \in Headers
    PROVE  /\ EncodeHeader(h) \in Bytes
           /\ DecodeHeader(EncodeHeader(h)) = h
<1> DEFINE p == HeaderPayload(h)
           n == Len(p)
           rh == RlpHeader(List, n)
           s == EncodeHeader(h)
           item == [kind |-> List, length |-> n, skip |-> Len(rh)]
           d == [value |-> h, rest |-> <<>>]
<1>1. /\ p \in Bytes /\ n \in Nat /\ n <= 65535 /\ n >= Len(Inner)
      /\ HeaderPayloadLength(h) = n /\ DecodeFields(p, 0) = d
  BY HeaderParts, LenProperties DEF Bytes
<1>2. s = rh \o p
  <2>1. s = RlpHeader(List, HeaderPayloadLength(h)) \o p
    BY DEF EncodeHeader
  <2>2. HeaderPayloadLength(h) = n
    BY <1>1
  <2> HIDE DEF s, p, n
  <2> QED
    BY <2>1, <2>2, Zenon
<1>3. Len(rh) \in Nat
  BY <1>1, ListHeader
<1>4. /\ s \in Bytes /\ Len(s) = Len(rh) + n
      /\ RlpItem(s) = item /\ Drop(s, Len(rh)) = p
  <2> HIDE DEF p
  <2>1. /\ rh \o p \in Bytes /\ Len(rh \o p) = Len(rh) + n
        /\ RlpItem(rh \o p) = item /\ Drop(rh \o p, Len(rh)) = p
    BY <1>1, ListWhole
  <2> QED
    BY <1>2, <2>1, Zenon
<1>5. item # Refused /\ d # Refused
  <2>1. item # Refused
    BY <1>1, <1>3, CodecAssumption DEF Items, List
  <2>2. <<>> \in Bytes
    BY DEF Bytes
  <2> QED
    BY <2>1, <2>2, PieceType
<1>6. /\ item.kind = List /\ item.length = n /\ item.skip = Len(rh)
      /\ d.value = h /\ d.rest = <<>> /\ Len(<<>>) = 0
  OBVIOUS
<1> HIDE DEF p, n, rh, s, item, d
<1>7. /\ Len(s) - item.skip - item.length = 0
      /\ ~(item.kind # List \/ item.length < Len(Inner))
  BY <1>1, <1>3, <1>4, <1>6, CodecAssumption, LenProperties
<1>8. Len(d.rest) = 0
  BY <1>6
<1>9. DecodeHeader(s) = d.value
  <2>1. DecodeFields(Drop(s, item.skip), 0) = d
    <3>1. DecodeFields(p, 0) = d /\ Drop(s, Len(rh)) = p /\ item.skip = Len(rh)
      BY <1>1, <1>4, <1>6
    <3> QED
      BY <3>1, Zenon
  <2> QED
    BY <1>4, <1>5, <1>7, <1>8, <2>1 DEF DecodeHeader, Then
<1> QED
  BY <1>4, <1>6, <1>9, Zenon DEF s

(* A header of which anything is missing is refused. *)
LEMMA CutRefused ==
    ASSUME NEW h \in Headers, NEW m \in Nat, m < Len(EncodeHeader(h))
    PROVE  DecodeHeader(SubSeq(EncodeHeader(h), 1, m)) = Refused
<1> DEFINE p == HeaderPayload(h)
           n == Len(p)
           rh == RlpHeader(List, n)
           s == EncodeHeader(h)
           w == SubSeq(s, 1, m)
<1>1. /\ p \in Bytes /\ n \in Nat /\ n <= 65535 /\ HeaderPayloadLength(h) = n
  BY HeaderParts, LenProperties DEF Bytes
<1>2. s = rh \o p
  <2>1. s = RlpHeader(List, HeaderPayloadLength(h)) \o p
    BY DEF EncodeHeader
  <2>2. HeaderPayloadLength(h) = n
    BY <1>1
  <2> HIDE DEF s, p, n
  <2> QED
    BY <2>1, <2>2, Zenon
<1>3. rh \in Bytes /\ Len(rh) \in Nat
  BY <1>1, ListHeader
<1>4. /\ s \in Bytes /\ Len(s) = Len(rh) + n
      /\ \A i \in 1..Len(rh) : s[i] = rh[i]
  <2> HIDE DEF p, rh
  <2>1. /\ rh \o p \in Bytes /\ Len(rh \o p) = Len(rh) + Len(p)
        /\ \A i \in 1..Len(rh) : (rh \o p)[i] = rh[i]
    BY <1>1, <1>3, DropConcat
  <2> QED
    BY <1>2, <2>1, Zenon
<1>5. m < Len(s)
  OBVIOUS
<1> HIDE DEF s
<1>6. w \in Bytes /\ Len(w) = m /\ \A i \in 1..m : w[i] = s[i]
  <2> HIDE DEF p, rh, n
  <2>1. \A i \in 1..m : s[i] \in Byte
    <3> SUFFICES ASSUME NEW i \in 1..m PROVE s[i] \in Byte
      OBVIOUS
    <3>1. i \in 1..Len(s)
      BY <1>1, <1>3, <1>4, <1>5
    <3> QED
      BY <1>4, <3>1, ElementOfSeq DEF Bytes
  <2>2. /\ w \in Seq(Byte) /\ Len(w) = (IF 1 <= m THEN m - 1 + 1 ELSE 0)
        /\ \A i \in 1..(m - 1 + 1) : w[i] = s[1 + i - 1]
    BY <2>1, SubSeqProperties
  <2> HIDE DEF w
  <2> QED
    BY <2>2 DEF Bytes
<1> HIDE DEF w, n, rh
<1>7. RlpItem(w) = Refused
  <2>1. \A i \in 1..Len(w) : i <= Len(rh) => w[i] = rh[i]
    BY <1>3, <1>4, <1>6
  <2>2. RlpItem(w) = IF Len(w) < Len(rh) + n THEN Refused
                     ELSE [kind |-> List, length |-> n, skip |-> Len(rh)]
    BY <1>1, <1>6, <2>1, ListRead DEF rh
  <2>3. Len(w) < Len(rh) + n
    BY <1>4, <1>5, <1>6
  <2> QED
    BY <2>2, <2>3, Zenon
<1>8. DecodeHeader(w) = Refused
  BY <1>7 DEF DecodeHeader, Then
<1> QED
  BY <1>8 DEF w, s

-----------------------------------------------------------------------------
(* The specification *)

(* On the wire is what is left of the header's encoding. *)
WireInv ==
    /\ header \in Headers
    /\ \E m \in 0..Len(EncodeHeader(header)) :
          wire = SubSeq(EncodeHeader(header), 1, m)

CodecInv == WireInv /\ DecodesOnlyWhole

(* Cutting a message leaves a shorter beginning of it. *)
LEMMA CutWire ==
    ASSUME NEW s \in Bytes, NEW m \in 0..Len(s), NEW w, w = SubSeq(s, 1, m)
    PROVE  /\ w \in Bytes /\ Len(w) = m /\ (w = s <=> m = Len(s))
           /\ m > 0 => SubSeq(w, 1, Len(w) - 1) = SubSeq(s, 1, m - 1)
<1>1. Len(s) \in Nat /\ m \in Nat /\ \A i \in 1..Len(s) : s[i] \in Byte
  BY LenProperties, ElementOfSeq DEF Bytes
<1>2. ASSUME NEW k \in Int, k >= 0, k <= Len(s), NEW u, u = SubSeq(s, 1, k)
      PROVE  u \in Bytes /\ Len(u) = k /\ \A i \in 1..k : u[i] = s[i]
  <2>1. \A i \in 1..k : s[i] \in Byte
    BY <1>1, <1>2
  <2>2. /\ u \in Seq(Byte) /\ Len(u) = (IF 1 <= k THEN k - 1 + 1 ELSE 0)
        /\ \A i \in 1..(k - 1 + 1) : u[i] = s[1 + i - 1]
    BY <1>2, <2>1, SubSeqProperties
  <2> QED
    BY <1>2, <2>2 DEF Bytes
<1>3. w \in Bytes /\ Len(w) = m /\ \A i \in 1..m : w[i] = s[i]
  <2>1. m \in Int /\ m >= 0 /\ m <= Len(s)
    BY <1>1
  <2> QED
    BY <1>2, <2>1, Zenon
<1>4. m = Len(s) => w = s
  BY SubSeqFull DEF Bytes
<1>5. ASSUME m > 0 PROVE SubSeq(w, 1, Len(w) - 1) = SubSeq(s, 1, m - 1)
  <2> DEFINE a == SubSeq(w, 1, m - 1)
             b == SubSeq(s, 1, m - 1)
  <2>1. b \in Bytes /\ Len(b) = m - 1 /\ \A i \in 1..(m - 1) : b[i] = s[i]
    <3>1. m - 1 \in Int /\ m - 1 >= 0 /\ m - 1 <= Len(s)
      BY <1>1, <1>5
    <3> QED
      BY <1>2, <3>1
  <2>2. a \in Bytes /\ Len(a) = m - 1 /\ \A i \in 1..(m - 1) : a[i] = w[i]
    <3>1. \A i \in 1..(m - 1) : w[i] \in Byte
      BY <1>1, <1>3
    <3>2. /\ a \in Seq(Byte)
          /\ Len(a) = (IF 1 <= m - 1 THEN (m - 1) - 1 + 1 ELSE 0)
          /\ \A i \in 1..((m - 1) - 1 + 1) : a[i] = w[1 + i - 1]
      BY <1>1, <3>1, SubSeqProperties
    <3> HIDE DEF a
    <3> QED
      BY <1>1, <1>5, <3>2 DEF Bytes
  <2>3. \A i \in 1..(m - 1) : a[i] = b[i]
    <3> HIDE DEF a, b
    <3> QED
      BY <1>1, <1>3, <2>1, <2>2
  <2>4. a = b
    <3> HIDE DEF a, b
    <3> QED
      BY <2>1, <2>2, <2>3, SeqEqual DEF Bytes
  <2> QED
    BY <1>3, <2>4, Zenon
<1> QED
  BY <1>3, <1>4, <1>5, Zenon

(* A header is sent whole, cut and decoded. *)
LEMMA CodecInit == Init => CodecInv
<1> SUFFICES ASSUME Init PROVE CodecInv
  OBVIOUS
<1> DEFINE s == EncodeHeader(header)
<1>1. header \in Headers /\ wire = s /\ decoded = None
  BY DEF Init
<1>2. s \in Bytes
  BY <1>1, HeaderRoundTrip
<1> HIDE DEF s
<1>3. wire = SubSeq(s, 1, Len(s)) /\ Len(s) \in 0..Len(s)
  BY <1>1, <1>2, SubSeqFull, LenProperties DEF Bytes
<1> QED
  BY <1>1, <1>3 DEF CodecInv, WireInv, DecodesOnlyWhole, s

LEMMA CodecNext == CodecInv /\ [Next]_vars => CodecInv'
<1> SUFFICES ASSUME CodecInv, [Next]_vars PROVE CodecInv'
  OBVIOUS
<1> DEFINE s == EncodeHeader(header)
<1>1. header \in Headers /\ s \in Bytes /\ Len(s) \in Nat
  BY HeaderRoundTrip, LenProperties DEF CodecInv, WireInv, Bytes
<1>2. PICK m \in 0..Len(s) : wire = SubSeq(s, 1, m)
  BY DEF CodecInv, WireInv
<1>3. /\ wire \in Bytes /\ Len(wire) = m /\ (wire = s <=> m = Len(s))
      /\ m > 0 => SubSeq(wire, 1, Len(wire) - 1) = SubSeq(s, 1, m - 1)
  <2>1. s \in Bytes
    BY <1>1
  <2> HIDE DEF s
  <2>2. wire \in Bytes /\ Len(wire) = m
    BY <1>2, <2>1, CutWire
  <2>3. wire = s <=> m = Len(s)
    BY <1>2, <2>1, CutWire
  <2>4. m > 0 => SubSeq(wire, 1, Len(wire) - 1) = SubSeq(s, 1, m - 1)
    BY <1>2, <2>1, CutWire
  <2> QED
    BY <2>2, <2>3, <2>4, Zenon
<1>4. CASE Cut
  <2>1. /\ wire # <<>> /\ wire' = SubSeq(wire, 1, Len(wire) - 1)
        /\ header' = header /\ decoded' = None
    BY <1>4 DEF Cut
  <2>2. m > 0 /\ m - 1 \in 0..Len(s)
    <3> HIDE DEF s
    <3>1. m # 0
      BY <1>3, <2>1, EmptySeq DEF Bytes
    <3> QED
      BY <1>1, <3>1
  <2>3. wire' = SubSeq(s, 1, m - 1)
    BY <1>3, <2>1, <2>2, Zenon
  <2>4. s' = s
    BY <2>1
  <2>5. WireInv'
    BY <1>1, <2>1, <2>2, <2>3, <2>4 DEF WireInv
  <2> QED
    BY <2>1, <2>5 DEF CodecInv, DecodesOnlyWhole
<1>5. CASE Decode
  <2>1. decoded' = DecodeHeader(wire) /\ wire' = wire /\ header' = header
    BY <1>5 DEF Decode
  <2>2. decoded' = IF wire = s THEN header ELSE Refused
    <3>1. CASE m = Len(s)
      BY <1>1, <1>3, <2>1, <3>1, HeaderRoundTrip
    <3>2. CASE m # Len(s)
      <4>1. m \in Nat /\ m < Len(s)
        <5> HIDE DEF s
        <5> QED
          BY <1>1, <3>2
      <4>2. DecodeHeader(SubSeq(s, 1, m)) = Refused
        BY <1>1, <4>1, CutRefused
      <4> QED
        BY <1>2, <1>3, <2>1, <3>2, <4>2, Zenon
    <3> QED
      BY <3>1, <3>2
  <2> QED
    BY <2>1, <2>2 DEF CodecInv, WireInv, DecodesOnlyWhole
<1>6. CASE UNCHANGED vars
  BY <1>6 DEF CodecInv, WireInv, DecodesOnlyWhole, vars
<1> QED
  BY <1>4, <1>5, <1>6 DEF Next, Done

(* The invariant holds in every reachable state of the codec. *)
THEOREM CodecInvariance == Spec => []CodecInv
BY CodecInit, CodecNext, PTL DEF Spec

(* A header of any numbers, with and without a context, is decoded as      *)
(* itself when all its bytes arrive and refused when any byte is missing   *)
(* (header.rs, AllegroHeader and AllegroConsensusContext).                 *)
THEOREM HeadersDecodeOnlyWhole == Spec => []DecodesOnlyWhole
<1>1. CodecInv => DecodesOnlyWhole
  BY DEF CodecInv
<1> QED
  BY <1>1, CodecInvariance, PTL

(* AllegroConsensusContext::length counts what encode writes.              *)
THEOREM ContextLengthsExact == Spec => []LengthsExact
<1>1. CodecInv => LengthsExact
  <2> SUFFICES ASSUME CodecInv, header.consensus_context # None
               PROVE  ContextLength(header.consensus_context) =
                          Len(EncodeContext(header.consensus_context))
    BY DEF LengthsExact
  <2>1. header.consensus_context \in Contexts
    BY DEF CodecInv, WireInv, Headers
  <2> QED
    BY <2>1, ContextRoundTrip
<1> QED
  BY <1>1, CodecInvariance, PTL
=============================================================================
