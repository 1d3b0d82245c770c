------------------------------- MODULE Codec -------------------------------
(***************************************************************************)
(* The RLP encoding of an allegro header, with its hand-written consensus  *)
(* context.                                                                *)
(*                                                                         *)
(* A byte string is a sequence of bytes.  A u64 is its eight bytes, a key  *)
(* or a hash its KeySize bytes; the Ethereum header inside is some RLP     *)
(* item.  A message may be cut short on its way.                           *)
(***************************************************************************)
EXTENDS Integers, Sequences

CONSTANTS
    KeySize,    \* 32: bytes of a public key and of a hash
    Numbers,    \* the u64 values to try
    Keys,       \* the public keys to try
    Inner,      \* the encoding of the Ethereum header
    None,       \* no consensus context
    Refused     \* a decoding error

Byte == 0..255
U64 == [1..8 -> Byte]
Contexts == [epoch : Numbers, view : Numbers, parent_view : Numbers,
             proposer : Keys]
Headers == [inner : {Inner}, timestamp_millis : Numbers,
            consensus_context : Contexts \cup {None}]

(* What the decoders yield: the shape of an item, and a value with the     *)
(* bytes that follow it.                                                   *)
Items == [kind : Nat, length : Nat, skip : Nat]
Pieces == [value : Seq(Byte) \cup Contexts \cup Headers, rest : Seq(Byte)]

(* An Ethereum header takes some 600 bytes.                                *)
ASSUME CodecAssumption ==
    /\ KeySize \in 2..55
    /\ Numbers \subseteq U64
    /\ Keys \subseteq [1..KeySize -> Byte]
    /\ Inner \in Seq(Byte) /\ Len(Inner) <= 4096
    /\ None \notin Contexts
    /\ Refused \notin Headers \cup Items \cup Pieces

VARIABLES
    header,     \* the AllegroHeader that is sent
    wire,       \* its bytes on their way
    decoded     \* what the receiver makes of them: Headers, Refused or None

vars == <<header, wire, decoded>>

-----------------------------------------------------------------------------
(* alloy_rlp *)

Drop(s, n) == SubSeq(s, n + 1, Len(s))

(* The bytes of a number without the leading zeroes. *)
Significant(x) ==
    IF \A i \in 1..8 : x[i] = 0 THEN <<>>
    ELSE Drop(x, (CHOOSE i \in 1..8 : x[i] # 0 /\ \A j \in 1..(i - 1) : x[j] = 0)
                   - 1)

(* The first byte of an item tells strings from lists. *)
String == 128
List == 192

(* Header::encode of a payload of n bytes, at most 65535. *)
RlpHeader(kind, n) ==
    IF n <= 55 THEN <<kind + n>>
    ELSE IF n <= 255 THEN <<kind + 56, n>>
    ELSE <<kind + 57, n \div 256, n % 256>>

RlpString(s) ==
    IF Len(s) = 1 /\ s[1] < 128 THEN s ELSE RlpHeader(String, Len(s)) \o s

EncodeU64(x) == RlpString(Significant(x))

(* An item of n bytes after skip bytes of header, if all of it is there,   *)
(* its length took no more bytes than it needs, and it is no byte that     *)
(* should have stood for itself.                                           *)
ItemOf(s, kind, skip, n) ==
    IF \/ Len(s) < skip + n
       \/ kind = String /\ skip = 1 /\ n = 1 /\ s[2] < 128
       \/ skip = 2 /\ n <= 55
       \/ skip = 3 /\ n <= 255
      THEN Refused
      ELSE [kind |-> kind, length |-> n, skip |-> skip]

(* Header::decode: the item at the beginning of an input; a length of more *)
(* than two bytes is refused, as no input is that long.                    *)
RlpItem(s) ==
    IF s = <<>> THEN Refused
    ELSE IF s[1] < 128 THEN ItemOf(s, String, 0, 1)
    ELSE IF s[1] <= 183 THEN ItemOf(s, String, 1, s[1] - 128)
    ELSE IF s[1] = 184 /\ Len(s) > 1 THEN ItemOf(s, String, 2, s[2])
    ELSE IF s[1] = 185 /\ Len(s) > 2 THEN ItemOf(s, String, 3, 256 * s[2] + s[3])
    ELSE IF 192 <= s[1] /\ s[1] <= 247 THEN ItemOf(s, List, 1, s[1] - 192)
    ELSE IF s[1] = 248 /\ Len(s) > 1 THEN ItemOf(s, List, 2, s[2])
    ELSE IF s[1] = 249 /\ Len(s) > 2 THEN ItemOf(s, List, 3, 256 * s[2] + s[3])
    ELSE Refused

(* A decoder yields a value and the bytes after it, or Refused; Then goes  *)
(* on with what it yields.                                                 *)
Then(d, goOn(_)) == IF d = Refused THEN Refused ELSE goOn(d)

DecodeBytes(s) ==
    Then(RlpItem(s), LAMBDA item :
    IF item.kind = List THEN Refused
    ELSE [value |-> SubSeq(s, item.skip + 1, item.skip + item.length),
          rest |-> Drop(s, item.skip + item.length)])

(* The number with the given significant bytes. *)
Widened(bytes) ==
    [i \in 1..8 |-> IF i > 8 - Len(bytes) THEN bytes[i - 8 + Len(bytes)] ELSE 0]

(* u64::decode refuses leading zeroes and more than eight bytes. *)
DecodeU64(s) ==
    Then(DecodeBytes(s), LAMBDA d :
    IF Len(d.value) > 8 \/ (Len(d.value) > 0 /\ d.value[1] = 0) THEN Refused
    ELSE [value |-> Widened(d.value), rest |-> d.rest])

-----------------------------------------------------------------------------
(* header.rs *)

EncodeKey(k) == RlpString(k)

DecodeKey(s) ==
    Then(DecodeBytes(s), LAMBDA d :
    IF Len(d.value) # KeySize THEN Refused ELSE d)

ContextPayload(c) ==
    EncodeU64(c.epoch) \o EncodeU64(c.view) \o EncodeU64(c.parent_view)
        \o EncodeKey(c.proposer)

EncodeContext(c) ==
    RlpHeader(List, Len(ContextPayload(c))) \o ContextPayload(c)

(* Bug variant: ProposerKey::length, which leaves out the key's own        *)
(* header, is used for the length of the context.                          *)
ContextLengthOfKey(c) ==
    LET pl == Len(ContextPayload(c)) - 1 IN
    (IF pl <= 55 THEN 1 ELSE 2) + pl

ContextLength(c) ==
    LET pl == Len(ContextPayload(c)) IN
    (IF pl <= 55 THEN 1 ELSE IF pl <= 255 THEN 2
     ELSE IF pl <= 65535 THEN 3 ELSE 4) + pl

(* The fields one after the other; the length in the list header is read   *)
(* and not compared with what they take.                                   *)
DecodeContext(s) ==
    Then(RlpItem(s), LAMBDA item :
    IF item.kind # List THEN Refused ELSE
    Then(DecodeU64(Drop(s, item.skip)), LAMBDA e :
    Then(DecodeU64(e.rest), LAMBDA v :
    Then(DecodeU64(v.rest), LAMBDA p :
    Then(DecodeKey(p.rest), LAMBDA k :
    [value |-> [epoch |-> e.value, view |-> v.value, parent_view |-> p.value,
                proposer |-> k.value],
     rest |-> k.rest])))))

(* A trailing context that is absent leaves no trace (trailing, no_gaps).  *)
(* The length of a context is counted with its length method.              *)
HeaderPayload(h) ==
    h.inner \o EncodeU64(h.timestamp_millis) \o
    (IF h.consensus_context = None THEN <<>>
                                   ELSE EncodeContext(h.consensus_context))

HeaderPayloadLength(h) ==
    Len(h.inner) + Len(EncodeU64(h.timestamp_millis)) +
    (IF h.consensus_context = None THEN 0
                                   ELSE ContextLength(h.consensus_context))

EncodeHeader(h) ==
    RlpHeader(List, HeaderPayloadLength(h)) \o HeaderPayload(h)

(* The fields from s on, with a context if more than after bytes are left; *)
(* inner is taken off by its length.                                       *)
DecodeFields(s, after) ==
    Then(DecodeU64(Drop(s, Len(Inner))), LAMBDA t :
    IF Len(t.rest) <= after
      THEN [value |-> [inner |-> Inner, timestamp_millis |-> t.value,
                       consensus_context |-> None],
            rest |-> t.rest]
    ELSE
    Then(DecodeContext(t.rest), LAMBDA c :
    [value |-> [inner |-> Inner, timestamp_millis |-> t.value,
                consensus_context |-> c.value],
     rest |-> c.rest]))

(* Bug variant: the length in the list header is not looked at. *)
DecodeHeaderUnbounded(s) ==
    IF Len(s) < 3 + Len(Inner) THEN Refused ELSE
    Then(DecodeFields(Drop(s, IF s[1] = 249 THEN 3 ELSE 2), 0), LAMBDA d :
    d.value)

(* The derived decoder: the fields must take exactly the declared length. *)
DecodeHeader(s) ==
    Then(RlpItem(s), LAMBDA item :
    IF item.kind # List \/ item.length < Len(Inner) THEN Refused ELSE
    LET after == Len(s) - item.skip - item.length IN
    Then(DecodeFields(Drop(s, item.skip), after), LAMBDA d :
    IF Len(d.rest) # after THEN Refused ELSE d.value))

-----------------------------------------------------------------------------
(* A header is encoded, perhaps cut short, and decoded. *)

Init ==
    /\ header \in Headers
    /\ wire = EncodeHeader(header)
    /\ decoded = None

Cut ==
    /\ decoded = None
    /\ wire # <<>>
    /\ wire' = SubSeq(wire, 1, Len(wire) - 1)
    /\ UNCHANGED <<header, decoded>>

Decode ==
    /\ decoded = None
    /\ decoded' = DecodeHeader(wire)
    /\ UNCHANGED <<header, wire>>

Done == decoded # None /\ UNCHANGED vars

Next == Cut \/ Decode \/ Done

Spec == Init /\ [][Next]_vars

-----------------------------------------------------------------------------
(* Properties *)

(* A header is decoded as itself when all its bytes arrive, with numbers   *)
(* of every size, with and without a context, whatever the number of bytes *)
(* the lengths of its lists take; a header of which any byte is missing is *)
(* refused, also where the cut is just before its optional context         *)
(* (header.rs, AllegroHeader and AllegroConsensusContext).                 *)
DecodesOnlyWhole ==
    decoded # None =>
        decoded = IF wire = EncodeHeader(header) THEN header ELSE Refused

(* The declared length of every list is the one its payload has: the       *)
(* context's length method counts what encode writes (header.rs:107).      *)
LengthsExact ==
    header.consensus_context # None =>
        ContextLength(header.consensus_context) =
            Len(EncodeContext(header.consensus_context))
=============================================================================
