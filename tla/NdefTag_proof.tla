--------------------------- MODULE NdefTag_proof ---------------------------
(* Proofs about NdefTag: whatever fails and whenever the tag leaves, it    *)
(* holds the old message, none or the new one, and what the context        *)
(* remembers, the cache of a type 2 tag included, is true when it is used. *)
EXTENDS NdefTag, WellFoundedInduction, TLAPS

\* Lengths that fit in one byte: a longer one is written without its marker, which
\* DocNdefLength shows.  Types 3 and 4 have no such length.
ShortLengths ==
  \A k \in Setups : k.type \in {"T2T", "T5T"} => k.lens \subseteq 0..ShortMax

\* The application does not read a tag that it has not detected since it was activated
\* or formatted.
ReadsWhatItDetected ==
  \A k \in Setups : k.reads \subseteq {"detected", "written", "failed"}

\* It reads after a detection only, for the length a write leaves behind is the old one.
ReadsAfterDetection == \A k \in Setups : k.reads \subseteq {"detected"}
-----------------------------------------------------------------------------
(* What is on a tag t of the set-up k. *)

Byte == {T, Term, Null, Proprietary} \cup {L(n) : n \in Nat}
        \cup {<<"D", t, n, i>> : t \in Texts, n \in Nat, i \in Nat}

HasTlv(k) == k.type \in {"T2T", "T5T"}
SizeOf(k) == k.base + k.area
TlvOf(k, mem) == IF mem[k.base] = T THEN k.base ELSE k.base + k.tlv
FoundOn(k, t) ==
  IF HasTlv(k) THEN Header(t.mem, TlvOf(k, t.mem)) ELSE [len |-> t.ln, off |-> k.base]
Run(k, mem, off, n) == [i \in 1..n |-> IF off + i <= SizeOf(k) THEN mem[off + i - 1] ELSE Null]
ContentOn(k, t) ==
  IF t.flag THEN Unreadable ELSE Parsed(Run(k, t.mem, FoundOn(k, t).off, FoundOn(k, t).len))

Vacant == {Empty, Unreadable}

\* The tag holds a message or none, and its TLV is where a reader looks for it.
TagIs(k, t) ==
  /\ t \in [present : BOOLEAN, mem : [0..(SizeOf(k) - 1) -> Byte], flag : BOOLEAN, ln : Nat]
  /\ t.flag => k.type = "T3T"
  /\ HasTlv(k) => t.mem[TlvOf(k, t.mem)] = T
  /\ FoundOn(k, t).len \in Nat
  /\ ContentOn(k, t) \in Messages \cup Vacant
-----------------------------------------------------------------------------
(* The invariant. *)

Tlv == TlvOf(kind, tag.mem)
Found == FoundOn(kind, tag)
TagInv == kind \in Setups /\ TagIs(kind, tag)

Caches == {NoCache} \cup {Blocks(a) : a \in Int}
Known == {"detected", "written", "failed"}

\* The context of a tag that was detected says where its message is.
CtxInv ==
  /\ ctx \in [state : {"none", "INVALID", "INITIALIZED", "READWRITE"}, len : Nat, off : Nat,
              tlv : Nat, flag : BOOLEAN, ln : Nat, cache : Caches]
  /\ since \in Known \cup {"nothing", "formatted"}
  /\ ctx.flag => kind.type = "T3T"
  /\ since \in Known => IF HasTlv(kind) THEN ctx.tlv = Tlv ELSE ctx.off = kind.base

DetectedInv ==
  Idle /\ since = "detected" =>
    /\ ctx.flag = tag.flag
    /\ ctx.len = Found.len /\ ctx.off = Found.off /\ ctx.state = StateOf(Found.len)

WrittenInv ==
  Idle /\ since = "written" =>
    /\ ~ctx.flag /\ ~tag.flag
    /\ (ctx.state = "READWRITE") = (ContentOn(kind, tag) \in Messages)

NoOp == [msg |-> None, phase |-> "none", at |-> 0, cut |-> 0, raw |-> TRUE]
Called == {<<t, n>> : t \in Texts, n \in kind.lens}
Off == IF HasTlv(kind) THEN ctx.tlv + 2 ELSE kind.base

\* The tag says that it has no message.
ResetOn(t) ==
  IF HasTlv(kind) THEN t.mem[ctx.tlv + 1] = L(0)
  ELSE IF kind.type = "T3T" THEN t.flag ELSE t.ln = 0
BytesOn(t, n) ==
  ctx.off + n <= SizeOf(kind) /\ \A i \in 1..n : t.mem[ctx.off + i - 1] = Data(op.msg)[i]

BeginInv == IF HasTlv(kind) THEN op.at \in 0..2 /\ (op.at = 2 => ResetOn(tag)) ELSE op.at = 0
DataInv == ResetOn(tag) /\ ctx.off = Off /\ op.at < op.msg[2] /\ BytesOn(tag, op.at)
EndInv ==
  /\ ResetOn(tag) /\ ctx.off = Off /\ BytesOn(tag, op.msg[2])
  /\ IF HasTlv(kind) THEN op.at \in 0..1 /\ op.msg[2] # 0 ELSE op.at = 0
TerminatorInv ==
  /\ HasTlv(kind) /\ ctx.off = Off /\ BytesOn(tag, op.msg[2]) /\ op.at = 0 /\ op.msg[2] # 0
  /\ \/ tag.mem[ctx.tlv + 1] = L(op.msg[2])
     \/ tag.mem[ctx.tlv + 1] = L(0) /\ kind.type = "T2T"

\* How far a write has come, and what is on the tag then.
StageInv ==
  CASE op.phase = "begin" -> BeginInv
    [] op.phase = "data" -> DataInv
    [] op.phase = "end" -> EndInv
    [] op.phase = "terminator" -> TerminatorInv
OpInv ==
  \/ op = NoOp
  \/ /\ op \in [msg : Called, phase : {"begin", "data", "end", "terminator"}, at : Nat,
                cut : Nat, raw : BOOLEAN]
     /\ since \in Known
     /\ op.cut = 0 \/ op.cut < op.msg[2]
     /\ StageInv

Inv == TagInv /\ CtxInv /\ DetectedInv /\ WrittenInv /\ OpInv
-----------------------------------------------------------------------------
(* Values. *)

\* The bytes of a tag differ as they should, and have the parts they are made of.
LEMMA ByteFacts ==
  /\ \A a \in Nat : L(a)[2] = a
  /\ \A a, b \in Nat : L(a) = L(b) => a = b
  /\ \A a \in Nat : L(a) # T /\ L(a) # Term /\ L(a) # Null
  /\ T # Term /\ T # Null /\ T # Proprietary
  /\ {T, Term, Null, Proprietary} \subseteq Byte
  /\ \A a \in Nat : L(a) \in Byte
BY DEF Byte, L, T, Term, Null, Proprietary

LEMMA DataFacts ==
  ASSUME NEW m, m[1] \in Texts, m[2] \in Nat
  PROVE  /\ DOMAIN Data(m) = 1..m[2]
         /\ Data(m) = [i \in 1..m[2] |-> Data(m)[i]]
         /\ \A i \in 1..m[2] : Data(m)[i] = <<"D", m[1], m[2], i>>
         /\ \A i \in 1..m[2] : Data(m)[i] \in Byte /\ Data(m)[i] # T
BY DEF Data, Byte, T

LEMMA MessageFacts ==
  /\ \A m \in Messages : m = <<m[1], m[2]>> /\ m[1] \in Texts /\ m[2] \in Nat \ {0}
  /\ Empty \notin Messages /\ Unreadable \notin Messages /\ None \notin Messages
  /\ Garbled \notin Messages \cup Vacant
  /\ None \notin Vacant /\ Empty # Unreadable
  /\ \A k \in Setups, t \in Texts : \A n \in k.lens \cup {k.first} : n # 0 => <<t, n>> \in Messages
BY NdefAssumption DEF Messages, Empty, Unreadable, None, Garbled, Vacant

\* Bytes say one message at most.
LEMMA ParsedFacts ==
  /\ Parsed(<<>>) = Empty
  /\ \A m \in Messages : Parsed(Data(m)) = m
<1>1. Parsed(<<>>) = Empty
  BY DEF Parsed
<1>2. ASSUME NEW m \in Messages PROVE Parsed(Data(m)) = m
  <2>1. m = <<m[1], m[2]>> /\ m[1] \in Texts /\ m[2] \in Nat \ {0}
    BY MessageFacts
  <2>2. Data(m)[1] = <<"D", m[1], m[2], 1>> /\ DOMAIN Data(m) = 1..m[2]
    <3>1. 1 \in 1..m[2]
      BY <2>1
    <3> QED
      BY <2>1, <3>1, DataFacts
  <2>3. Data(m) # <<>>
    BY <2>1, <2>2
  <2>4. ASSUME NEW w \in Messages, Data(w) = Data(m) PROVE w = m
    <3>1. w = <<w[1], w[2]>> /\ w[1] \in Texts /\ w[2] \in Nat \ {0}
      BY MessageFacts
    <3>2. Data(w)[1] = <<"D", w[1], w[2], 1>>
      <4>1. 1 \in 1..w[2]
        BY <3>1
      <4> QED
        BY <3>1, <4>1, DataFacts
    <3> QED
      BY <2>1, <2>2, <2>4, <3>1, <3>2
  <2> QED
    BY <2>3, <2>4 DEF Parsed
<1> QED
  BY <1>1, <1>2

-----------------------------------------------------------------------------
(* Geometry, and what a tag says. *)

LEMMA Geometry ==
  ASSUME NEW k \in Setups
  PROVE  /\ k.type \in {"T2T", "T3T", "T4T", "T5T"}
         /\ k.block \in Nat \ {0} /\ k.nbW \in Nat \ {0} /\ k.mLc \in Nat \ {0}
         /\ k.base \in Nat /\ k.area \in Nat /\ k.tlv \in Nat /\ k.first \in Nat
         /\ k.lens \subseteq Nat /\ k.cuts \subseteq Nat
         /\ SizeOf(k) \in Nat
         /\ HasTlv(k) => k.tlv + 2 <= k.area
<1>1. /\ k.type \in {"T2T", "T3T", "T4T", "T5T"}
      /\ {k.block, k.nbW, k.mLc} \subseteq Nat \ {0}
      /\ {k.base, k.area, k.tlv, k.first} \cup k.lens \cup k.cuts \subseteq Nat
      /\ k.tlv + HeaderLen(k) + k.first <= k.area
  BY NdefAssumption
<1>2. /\ k.block \in Nat \ {0} /\ k.nbW \in Nat \ {0} /\ k.mLc \in Nat \ {0}
      /\ k.base \in Nat /\ k.area \in Nat /\ k.tlv \in Nat /\ k.first \in Nat
      /\ k.lens \subseteq Nat /\ k.cuts \subseteq Nat
  BY <1>1
<1>3. SizeOf(k) \in Nat
  BY <1>2 DEF SizeOf
<1>4. HasTlv(k) => k.tlv + 2 <= k.area
  BY <1>1, <1>2 DEF HasTlv, HeaderLen
<1> QED
  BY <1>1, <1>2, <1>3, <1>4

LEMMA TlvFacts ==
  ASSUME NEW k \in Setups, NEW mem, HasTlv(k)
  PROVE  /\ TlvOf(k, mem) \in Nat
         /\ k.base <= TlvOf(k, mem)
         /\ TlvOf(k, mem) + 1 < SizeOf(k)
         /\ TlvOf(k, mem) \in {k.base, k.base + k.tlv}
BY Geometry DEF TlvOf, SizeOf

LEMMA RunIs ==
  ASSUME NEW k \in Setups, NEW mem, NEW m \in Messages, NEW off \in Nat,
         off + m[2] <= SizeOf(k), \A i \in 1..m[2] : mem[off + i - 1] = Data(m)[i]
  PROVE  Run(k, mem, off, m[2]) = Data(m)
<1>1. m[1] \in Texts /\ m[2] \in Nat /\ SizeOf(k) \in Nat
  BY MessageFacts, Geometry
<1>2. Data(m) = [i \in 1..m[2] |-> Data(m)[i]]
  BY <1>1, DataFacts
<1>3. \A i \in 1..m[2] : off + i <= SizeOf(k)
  BY <1>1
<1> QED
  BY <1>2, <1>3 DEF Run

LEMMA NoRun == \A k, mem, off : Run(k, mem, off, 0) = <<>>
BY DEF Run

LEMMA MarkerIsLonger ==
  \A n \in Nat : n <= ShortMax => L(n) # Marker
BY NdefAssumption, ByteFacts DEF Marker

Shape(k) == [present : BOOLEAN, mem : [0..(SizeOf(k) - 1) -> Byte], flag : BOOLEAN, ln : Nat]

\* A length of 0 says that there is no message.
LEMMA TlvReset ==
  ASSUME NEW k \in Setups, HasTlv(k), NEW t \in Shape(k), ~t.flag,
         t.mem[TlvOf(k, t.mem)] = T, t.mem[TlvOf(k, t.mem) + 1] = L(0)
  PROVE  /\ TagIs(k, t)
         /\ ContentOn(k, t) = Empty
         /\ FoundOn(k, t) = [len |-> 0, off |-> TlvOf(k, t.mem) + 2]
<1>1. L(0) # Marker /\ L(0)[2] = 0
  BY MarkerIsLonger, ByteFacts, NdefAssumption
<1>2. FoundOn(k, t) = [len |-> 0, off |-> TlvOf(k, t.mem) + 2]
  BY <1>1 DEF FoundOn, Header
<1>3. ContentOn(k, t) = Empty
  BY <1>2, NoRun, ParsedFacts DEF ContentOn
<1> QED
  BY <1>2, <1>3 DEF TagIs, Shape, Vacant

LEMMA PlainReset ==
  ASSUME NEW k \in Setups, ~HasTlv(k), NEW t \in Shape(k), t.flag => k.type = "T3T",
         t.flag \/ t.ln = 0
  PROVE  TagIs(k, t) /\ ContentOn(k, t) = (IF t.flag THEN Unreadable ELSE Empty)
<1>1. FoundOn(k, t) = [len |-> t.ln, off |-> k.base] /\ t.ln \in Nat
  BY DEF FoundOn, Shape
<1>2. ContentOn(k, t) = IF t.flag THEN Unreadable ELSE Empty
  BY <1>1, NoRun, ParsedFacts DEF ContentOn
<1> QED
  BY <1>1, <1>2 DEF TagIs, Shape, Vacant

\* A length that is that of the bytes behind it says which message they are.
LEMMA TlvWhole ==
  ASSUME NEW k \in Setups, HasTlv(k), NEW t \in Shape(k), ~t.flag, NEW m \in Messages,
         m[2] <= ShortMax, t.mem[TlvOf(k, t.mem)] = T,
         t.mem[TlvOf(k, t.mem) + 1] = L(m[2]), TlvOf(k, t.mem) + 2 + m[2] <= SizeOf(k),
         \A i \in 1..m[2] : t.mem[TlvOf(k, t.mem) + 2 + i - 1] = Data(m)[i]
  PROVE  /\ TagIs(k, t)
         /\ ContentOn(k, t) = m
         /\ FoundOn(k, t) = [len |-> m[2], off |-> TlvOf(k, t.mem) + 2]
<1>1. m[2] \in Nat /\ TlvOf(k, t.mem) \in Nat
  BY MessageFacts, TlvFacts
<1>2. L(m[2]) # Marker /\ L(m[2])[2] = m[2]
  BY <1>1, MarkerIsLonger, ByteFacts
<1>3. FoundOn(k, t) = [len |-> m[2], off |-> TlvOf(k, t.mem) + 2]
  BY <1>2 DEF FoundOn, Header
<1>4. Run(k, t.mem, TlvOf(k, t.mem) + 2, m[2]) = Data(m)
  BY <1>1, RunIs
<1>5. ContentOn(k, t) = m
  BY <1>3, <1>4, ParsedFacts DEF ContentOn
<1> QED
  BY <1>1, <1>3, <1>5 DEF TagIs, Shape

LEMMA PlainWhole ==
  ASSUME NEW k \in Setups, ~HasTlv(k), NEW t \in Shape(k), ~t.flag, NEW m \in Messages,
         t.ln = m[2], k.base + m[2] <= SizeOf(k),
         \A i \in 1..m[2] : t.mem[k.base + i - 1] = Data(m)[i]
  PROVE  TagIs(k, t) /\ ContentOn(k, t) = m
<1>1. FoundOn(k, t) = [len |-> m[2], off |-> k.base] /\ m[2] \in Nat
  BY MessageFacts DEF FoundOn
<1>2. Run(k, t.mem, k.base, m[2]) = Data(m)
  BY Geometry, RunIs
<1>3. ContentOn(k, t) = m
  BY <1>1, <1>2, ParsedFacts DEF ContentOn
<1> QED
  BY <1>1, <1>3 DEF TagIs, Shape

\* A message on the tag is not empty.
LEMMA LengthSays ==
  ASSUME NEW k \in Setups, NEW t, TagIs(k, t), ~t.flag
  PROVE  (FoundOn(k, t).len = 0) = (ContentOn(k, t) = Empty)
<1>1. ASSUME FoundOn(k, t).len = 0 PROVE ContentOn(k, t) = Empty
  BY <1>1, NoRun, ParsedFacts DEF ContentOn
<1>2. ASSUME FoundOn(k, t).len # 0 PROVE ContentOn(k, t) # Empty
  <2> DEFINE n == FoundOn(k, t).len
             run == Run(k, t.mem, FoundOn(k, t).off, n)
  <2>1. n \in Nat \ {0}
    BY <1>2 DEF TagIs
  <2>2. DOMAIN run = 1..n
    BY DEF Run
  <2>3. run # <<>>
    BY <2>1, <2>2
  <2>4. \A m \in Messages : m # Empty
    BY MessageFacts
  <2>5. Parsed(run) # Empty
    BY <2>3, <2>4 DEF Parsed, Empty, Garbled
  <2> QED
    BY <2>5 DEF ContentOn
<1> QED
  BY <1>1, <1>2

-----------------------------------------------------------------------------
(* A tag as it is made. *)

LEMMA DivMod ==
  ASSUME NEW a \in Nat, NEW b \in Nat \ {0}
  PROVE  a \div b \in Nat /\ a % b \in 0..(b - 1) /\ (a \div b) * b + (a % b) = a
OBVIOUS

LEMMA CellFacts ==
  ASSUME NEW bytes \in Seq(Byte), NEW at \in Nat
  PROVE  /\ \A i \in Nat : CellOf(bytes, at, i) \in Byte
         /\ \A j \in 1..Len(bytes) : CellOf(bytes, at, at + j - 1) = bytes[j]
         /\ \A i \in Nat : Len(bytes) = 0 => CellOf(bytes, at, i) = Null
<1>1. Len(bytes) \in Nat /\ \A j \in 1..Len(bytes) : bytes[j] \in Byte
  OBVIOUS
<1>2. ASSUME NEW i \in Nat PROVE CellOf(bytes, at, i) \in Byte
  <2>1. i >= at /\ i < at + Len(bytes) => i - at + 1 \in 1..Len(bytes)
    BY <1>1
  <2> QED
    BY <1>1, <2>1, ByteFacts DEF CellOf
<1>3. ASSUME NEW j \in 1..Len(bytes) PROVE CellOf(bytes, at, at + j - 1) = bytes[j]
  <2>1. /\ at + j - 1 >= at /\ at + j - 1 < at + Len(bytes)
        /\ at + j - 1 - at + 1 = j
    BY <1>1
  <2> QED
    BY <2>1 DEF CellOf
<1>4. ASSUME NEW i \in Nat, Len(bytes) = 0 PROVE CellOf(bytes, at, i) = Null
  BY <1>4 DEF CellOf
<1> QED
  BY <1>2, <1>3, <1>4

LEMMA Concatenation ==
  \A a, b \in Seq(Byte), e \in Byte :
    /\ (a \o b) \o <<e>> \in Seq(Byte)
    /\ Len((a \o b) \o <<e>>) = Len(a) + Len(b) + 1
    /\ \A i \in 1..Len(a) : ((a \o b) \o <<e>>)[i] = a[i]
    /\ \A i \in 1..Len(b) : ((a \o b) \o <<e>>)[Len(a) + i] = b[i]
<1> TAKE a, b \in Seq(Byte), e \in Byte
<1>1. a \o b \in Seq(Byte) /\ Len(a \o b) = Len(a) + Len(b) /\ <<e>> \in Seq(Byte) /\ Len(<<e>>) = 1
  OBVIOUS
<1>2. \A i \in 1..Len(a) : (a \o b)[i] = a[i]
  OBVIOUS
<1>3. \A i \in 1..Len(b) : (a \o b)[Len(a) + i] = b[i]
  OBVIOUS
<1> DEFINE c == a \o b
<1>4. \A i \in 1..Len(c) : (c \o <<e>>)[i] = c[i]
  OBVIOUS
<1>5. c \o <<e>> \in Seq(Byte) /\ Len(c \o <<e>>) = Len(c) + 1
  OBVIOUS
<1> QED
  BY <1>1, <1>2, <1>3, <1>4, <1>5

\* The bytes of the first message are behind their header.
LEMMA MadeBytes ==
  ASSUME NEW k \in Setups
  PROVE  /\ MadeTag(k) \in [0..(SizeOf(k) - 1) -> Byte]
         /\ k.tlv > 0 => MadeTag(k)[k.base] # T
         /\ \A i \in 1..HeaderLen(k) : MadeTag(k)[k.base + k.tlv + i - 1] = FirstHeader(k)[i]
         /\ \A i \in 1..k.first :
              MadeTag(k)[k.base + k.tlv + HeaderLen(k) + i - 1] = Data(FirstMessage(k))[i]
<1> DEFINE m == FirstMessage(k)
           start == k.base + k.tlv
           body == (FirstHeader(k) \o Data(m)) \o <<Term>>
<1>1. /\ k.base \in Nat /\ k.tlv \in Nat /\ k.first \in Nat /\ k.area \in Nat /\ SizeOf(k) \in Nat
      /\ k.type \in {"T2T", "T3T", "T4T", "T5T"}
      /\ HasTlv(k) => k.tlv + 2 <= k.area
  BY Geometry
<1>2. /\ HeaderLen(k) \in Nat /\ k.tlv + HeaderLen(k) + k.first <= k.area
      /\ k.type \in {"T3T", "T4T"} => k.tlv = 0
      /\ k.type = "T5T" => k.tlv # 1
  BY NdefAssumption DEF HeaderLen
<1>3. Radix \in Nat \ {0} /\ ShortMax \in Nat
  BY NdefAssumption DEF Radix
<1>4. FirstHeader(k) \in Seq(Byte) /\ Len(FirstHeader(k)) = HeaderLen(k)
  <2>1. k.first \div Radix \in Nat /\ k.first % Radix \in Nat
    BY <1>1, <1>3
  <2>2. /\ L(k.first \div Radix) \in Byte /\ L(k.first % Radix) \in Byte /\ L(k.first) \in Byte
        /\ Marker \in Byte /\ T \in Byte
    BY <2>1, <1>1, <1>3, ByteFacts DEF Marker
  <2> QED
    BY <2>2, <1>1 DEF FirstHeader, HeaderLen, HasTlv
<1>5. m[1] \in Texts /\ m[2] = k.first
  BY NdefAssumption DEF FirstMessage
<1>6. Data(m) \in Seq(Byte) /\ Len(Data(m)) = k.first
  BY <1>1, <1>5, DataFacts
<1>7. Before(k) \in Seq(Byte)
  BY <1>1, <1>2, ByteFacts DEF Before
<1>8. /\ body \in Seq(Byte)
      /\ \A i \in 1..HeaderLen(k) : body[i] = FirstHeader(k)[i]
      /\ \A i \in 1..k.first : body[HeaderLen(k) + i] = Data(m)[i]
      /\ Len(body) = HeaderLen(k) + k.first + 1
  <2>1. Term \in Byte
    BY ByteFacts
  <2>2. /\ body \in Seq(Byte)
        /\ Len(body) = Len(FirstHeader(k)) + Len(Data(m)) + 1
        /\ \A i \in 1..Len(FirstHeader(k)) : body[i] = FirstHeader(k)[i]
        /\ \A i \in 1..Len(Data(m)) : body[Len(FirstHeader(k)) + i] = Data(m)[i]
    <3> HIDE DEF m
    <3> QED
      BY <1>4, <1>6, <2>1, Concatenation, Zenon
  <2> QED
    BY <1>4, <1>6, <2>2
<1>9. MadeTag(k) = [i \in 0..(SizeOf(k) - 1) |->
        IF i < start THEN CellOf(Before(k), k.base, i) ELSE CellOf(body, start, i)]
  <2>1. 0..(k.base + k.area - 1) = 0..(SizeOf(k) - 1)
    BY <1>1 DEF SizeOf
  <2>2. FirstHeader(k) \o Data(m) \o <<Term>> = body
    OBVIOUS
  <2> QED
    BY <2>1, <2>2 DEF MadeTag
<1> HIDE DEF m, body
<1>10. ASSUME NEW i \in 0..(SizeOf(k) - 1)
       PROVE  CellOf(Before(k), k.base, i) \in Byte /\ CellOf(body, start, i) \in Byte
  BY <1>1, <1>7, <1>8, CellFacts
<1>11. MadeTag(k) \in [0..(SizeOf(k) - 1) -> Byte]
  BY <1>9, <1>10
<1>12. k.tlv > 0 => MadeTag(k)[k.base] # T
  <2> SUFFICES ASSUME k.tlv > 0 PROVE MadeTag(k)[k.base] # T
    OBVIOUS
  <2>1. k.base \in 0..(SizeOf(k) - 1) /\ k.base < start
    BY <1>1, <1>2 DEF SizeOf
  <2>2. MadeTag(k)[k.base] = CellOf(Before(k), k.base, k.base)
    BY <2>1, <1>9
  <2>3. CASE Before(k) = <<>>
    <3>1. Len(Before(k)) = 0
      BY <2>3
    <3> QED
      BY <2>2, <3>1, <1>1, <1>7, CellFacts, ByteFacts
  <2>4. CASE Before(k) # <<>>
    <3>1. 1 \in 1..Len(Before(k)) /\ Before(k)[1] = Proprietary
      BY <2>4 DEF Before
    <3>2. CellOf(Before(k), k.base, k.base + 1 - 1) = Proprietary
      BY <3>1, <1>1, <1>7, CellFacts
    <3>3. k.base + 1 - 1 = k.base
      BY <1>1
    <3> QED
      BY <2>2, <3>2, <3>3, ByteFacts
  <2> QED
    BY <2>3, <2>4
<1>13. ASSUME NEW i \in 1..HeaderLen(k) PROVE MadeTag(k)[start + i - 1] = FirstHeader(k)[i]
  <2>1. start + i - 1 \in 0..(SizeOf(k) - 1) /\ ~(start + i - 1 < start)
    BY <1>1, <1>2 DEF SizeOf
  <2>2. MadeTag(k)[start + i - 1] = CellOf(body, start, start + i - 1)
    BY <2>1, <1>9
  <2>0. /\ HeaderLen(k) \in Nat /\ k.first \in Nat /\ start \in Nat
        /\ Len(body) = HeaderLen(k) + k.first + 1
    BY <1>1, <1>2, <1>8
  <2>3. i \in 1..Len(body) /\ start \in Nat
    BY ONLY <2>0, i \in 1..HeaderLen(k)
  <2> QED
    BY <2>2, <2>3, <1>8, CellFacts
<1>14. ASSUME NEW i \in 1..k.first
       PROVE  MadeTag(k)[start + HeaderLen(k) + i - 1] = Data(m)[i]
  <2> DEFINE j == start + HeaderLen(k) + i - 1
  <2>1. j \in 0..(SizeOf(k) - 1) /\ ~(j < start)
    BY <1>1, <1>2 DEF SizeOf
  <2>2. MadeTag(k)[j] = CellOf(body, start, j)
    BY <2>1, <1>9
  <2>0. /\ HeaderLen(k) \in Nat /\ k.first \in Nat /\ start \in Nat
        /\ Len(body) = HeaderLen(k) + k.first + 1
    BY <1>1, <1>2, <1>8
  <2>3. /\ HeaderLen(k) + i \in 1..Len(body) /\ start \in Nat
        /\ j = start + (HeaderLen(k) + i) - 1
    BY ONLY <2>0, i \in 1..k.first
  <2>4. CellOf(body, start, start + (HeaderLen(k) + i) - 1) = body[HeaderLen(k) + i]
    BY <2>3, <1>8, CellFacts
  <2> QED
    BY <2>2, <2>3, <2>4, <1>8
<1> QED
  BY <1>11, <1>12, <1>13, <1>14 DEF m

LEMMA MadeTagIs ==
  ASSUME NEW k \in Setups,
         NEW t, t = [present |-> FALSE, mem |-> MadeTag(k), flag |-> FALSE,
                     ln |-> IF k.type \in {"T3T", "T4T"} THEN k.first ELSE 0]
  PROVE  TagIs(k, t)
<1> DEFINE m == FirstMessage(k)
           tlv == TlvOf(k, t.mem)
           n == k.first
<1>1. /\ k.base \in Nat /\ k.tlv \in Nat /\ n \in Nat /\ k.area \in Nat /\ SizeOf(k) \in Nat
      /\ k.type \in {"T2T", "T3T", "T4T", "T5T"}
  BY Geometry
<1>2. /\ k.tlv + HeaderLen(k) + n <= k.area
      /\ k.type \in {"T3T", "T4T"} => k.tlv = 0
  BY NdefAssumption
<1>3. t \in Shape(k) /\ ~t.flag /\ t.mem = MadeTag(k)
  BY <1>1, MadeBytes DEF Shape
<1>4. m[2] = n /\ (n # 0 => m \in Messages)
  <2>1. m = <<m[1], n>> /\ m[1] \in Texts
    BY NdefAssumption DEF FirstMessage
  <2> QED
    BY <2>1, MessageFacts
<1>5. ASSUME ~HasTlv(k) PROVE TagIs(k, t)
  <2>1. HeaderLen(k) = 0 /\ k.tlv = 0 /\ t.ln = n
    BY <1>1, <1>2, <1>5 DEF HasTlv, HeaderLen
  <2>2. CASE n = 0
    BY <1>3, <1>5, <2>1, <2>2, PlainReset
  <2>3. CASE n # 0
    <3>1. \A i \in 1..m[2] : t.mem[k.base + i - 1] = Data(m)[i]
      <4>1. \A i \in 1..n : MadeTag(k)[k.base + k.tlv + HeaderLen(k) + i - 1] = Data(m)[i]
        BY MadeBytes
      <4> QED
        BY <4>1, <2>1, <1>1, <1>3, <1>4
    <3>2. k.base + m[2] <= SizeOf(k)
      BY <1>1, <1>2, <1>4, <2>1 DEF SizeOf
    <3> HIDE DEF m
    <3> QED
      BY <1>3, <1>4, <1>5, <2>1, <2>3, <3>1, <3>2, PlainWhole
  <2> QED
    BY <2>2, <2>3
<1>6. ASSUME HasTlv(k) PROVE TagIs(k, t)
  <2>1. HeaderLen(k) = (IF n > ShortMax THEN 4 ELSE 2) /\ ShortMax \in Nat \ {0}
    BY <1>6, NdefAssumption DEF HasTlv, HeaderLen
  <2>2. \A i \in 1..HeaderLen(k) : t.mem[k.base + k.tlv + i - 1] = FirstHeader(k)[i]
    BY <1>3, MadeBytes
  <2>3. t.mem[k.base + k.tlv] = T /\ tlv = k.base + k.tlv
    <3>1. 1 \in 1..HeaderLen(k) /\ FirstHeader(k)[1] = T
      BY <2>1, <1>6 DEF FirstHeader, HasTlv
    <3>2. t.mem[k.base + k.tlv] = T
      BY <3>1, <2>2, <1>1
    <3>3. k.tlv > 0 => t.mem[k.base] # T
      BY <1>3, MadeBytes
    <3> QED
      BY <3>2, <3>3, <1>1 DEF TlvOf
  <2>4. tlv \in Nat
    BY <2>3, <1>1
  <2>5. \A i \in 1..n : t.mem[tlv + HeaderLen(k) + i - 1] = Data(m)[i]
    BY <2>3, <1>3, MadeBytes
  <2>6. tlv + HeaderLen(k) + n <= SizeOf(k)
    BY <2>1, <2>3, <1>1, <1>2 DEF SizeOf
  <2> HIDE DEF m, tlv
  <2>7. CASE n <= ShortMax
    <3>1. HeaderLen(k) = 2 /\ FirstHeader(k)[2] = L(n)
      BY <2>1, <2>7, <1>1, <1>6 DEF FirstHeader, HasTlv
    <3>2. t.mem[tlv + 1] = L(n)
      <4>1. 2 \in 1..HeaderLen(k)
        BY <3>1
      <4> QED
        BY <4>1, <3>1, <2>2, <2>3, <1>1
    <3>3. CASE n = 0
      BY <3>2, <3>3, <2>3, <1>3, <1>6, TlvReset DEF tlv
    <3>4. CASE n # 0
      BY <3>1, <3>2, <3>4, <2>3, <2>5, <2>6, <2>7, <1>3, <1>4, <1>6, TlvWhole DEF tlv
    <3> QED
      BY <3>3, <3>4
  <2>8. CASE ~(n <= ShortMax)
    <3>1. HeaderLen(k) = 4
      BY <2>1, <2>8, <1>1
    <3>2. FirstHeader(k) = <<T, Marker, L(n \div Radix), L(n % Radix)>>
      BY <2>8, <2>1, <1>1, <1>6 DEF FirstHeader, HasTlv
    <3>3. /\ t.mem[tlv + 1] = Marker
          /\ t.mem[tlv + 2] = L(n \div Radix) /\ t.mem[tlv + 3] = L(n % Radix)
      <4>1. 2 \in 1..HeaderLen(k) /\ 3 \in 1..HeaderLen(k) /\ 4 \in 1..HeaderLen(k)
        BY <3>1
      <4>2. /\ t.mem[k.base + k.tlv + 2 - 1] = FirstHeader(k)[2]
            /\ t.mem[k.base + k.tlv + 3 - 1] = FirstHeader(k)[3]
            /\ t.mem[k.base + k.tlv + 4 - 1] = FirstHeader(k)[4]
        BY <4>1, <2>2
      <4> QED
        BY <4>2, <3>2, <2>3, <1>1
    <3>4. Radix \in Nat \ {0}
      BY NdefAssumption DEF Radix
    <3>5. n \div Radix \in Nat /\ n % Radix \in Nat /\ (n \div Radix) * Radix + (n % Radix) = n
      <4>1. n \in Nat
        BY <1>1
      <4>2. n % Radix \in 0..(Radix - 1) => n % Radix \in Nat
        BY <3>4
      <4> HIDE DEF n
      <4> QED
        BY <4>1, <4>2, <3>4, DivMod, Zenon
    <3>6. L(n \div Radix)[2] = n \div Radix /\ L(n % Radix)[2] = n % Radix
      BY <3>5, ByteFacts
    <3>7. FoundOn(k, t) = [len |-> n, off |-> tlv + 4]
      BY <3>3, <3>5, <3>6, <1>6 DEF FoundOn, Header, tlv
    <3>8. m \in Messages /\ m[2] = n
      BY <2>8, <2>1, <1>1, <1>4
    <3>9. Run(k, t.mem, tlv + 4, m[2]) = Data(m)
      <4>1. /\ tlv + 4 \in Nat /\ tlv + 4 + m[2] <= SizeOf(k)
            /\ \A i \in 1..m[2] : t.mem[tlv + 4 + i - 1] = Data(m)[i]
        BY <3>1, <3>8, <2>4, <2>5, <2>6
      <4> QED
        BY <4>1, <3>8, RunIs
    <3>10. ContentOn(k, t) = m
      BY <3>7, <3>8, <3>9, <1>3, ParsedFacts DEF ContentOn
    <3> QED
      BY <3>7, <3>8, <3>10, <2>3, <1>1, <1>3 DEF TagIs, Shape, tlv
  <2> QED
    BY <2>7, <2>8
<1> QED
  BY <1>5, <1>6

LEMMA InitInv == Init => Inv
<1> SUFFICES ASSUME Init PROVE Inv
  OBVIOUS
<1>1. kind \in Setups
  BY DEF Init
<1>2. TagInv
  BY <1>1, MadeTagIs DEF Init, TagInv
<1>3. since = "nothing" /\ op = NoOp
  BY DEF Init, NoOp
<1>4. NoCache \in Caches
  BY DEF Caches
<1>5. CtxInv
  BY <1>3, <1>4 DEF Init, CtxInv, NewContext, Known
<1> QED
  BY <1>2, <1>3, <1>5 DEF Inv, DetectedInv, WrittenInv, OpInv
-----------------------------------------------------------------------------
(* One command of a write. *)

LEMMA SameFunction ==
  ASSUME NEW S, NEW V, NEW f \in [S -> V], NEW g \in [S -> V], \A x \in S : f[x] = g[x]
  PROVE  f = g
OBVIOUS

LEMMA MinFacts ==
  \A a, b \in Nat \ {0} : Min({a, b}) \in Nat \ {0} /\ Min({a, b}) \in 1..a /\ Min({a, b}) \in 1..b
<1> TAKE a, b \in Nat \ {0}
<1> DEFINE c == IF a <= b THEN a ELSE b
<1>1. c \in {a, b} /\ \A x \in {a, b} : c <= x
  OBVIOUS
<1> QED
  BY <1>1 DEF Min

\* A command writes some of the bytes and not more than there are.
LEMMA ChunkBounds ==
  ASSUME kind \in Setups, NEW o \in Nat, NEW rest \in Nat \ {0}
  PROVE  Chunk(o, rest) \in 1..rest
<1>1. /\ kind.type \in {"T2T", "T3T", "T4T", "T5T"}
      /\ kind.block \in Nat \ {0} /\ kind.nbW \in Nat \ {0} /\ kind.mLc \in Nat \ {0}
  BY Geometry
<1>2. ToBlockEnd(o, rest) \in 1..rest
  <2>1. o % kind.block \in 0..(kind.block - 1)
    BY <1>1, DivMod
  <2>2. kind.block - (o % kind.block) \in Nat \ {0}
    BY <1>1, <2>1
  <2> QED
    BY <2>2, MinFacts, Zenon DEF ToBlockEnd
<1>3. T4TChunk(o, rest) \in 1..rest
  BY <1>1, MinFacts, Zenon DEF T4TChunk
<1>4. T3TChunk(o, rest) \in 1..rest
  <2>1. CASE o % kind.block # 0 \/ rest < kind.block
    BY <1>2, <2>1 DEF T3TChunk
  <2>2. CASE ~(o % kind.block # 0 \/ rest < kind.block)
    <3> DEFINE b == kind.block
               q == rest \div kind.block
               w == Min({kind.nbW, q})
    <3>1. q \in Nat /\ q * b <= rest
      <4>1. rest \div b \in Nat /\ rest % b \in 0..(b - 1) /\ (rest \div b) * b + (rest % b) = rest
        BY <1>1, DivMod, Zenon
      <4> HIDE DEF b
      <4>2. b \in Nat \ {0}
        BY <1>1 DEF b
      <4>3. (rest \div b) * b \in Nat
        BY <4>1, <4>2
      <4> QED
        BY <4>1, <4>2, <4>3 DEF b
    <3>2. q >= 1
      <4>1. rest >= b
        BY <2>2, <1>1
      <4>2. b \in Nat \ {0}
        BY <1>1
      <4> HIDE DEF b, q
      <4>3. q = 0 => FALSE
        <5>1. rest % b \in 0..(b - 1) /\ (rest \div b) * b + (rest % b) = rest
          BY <4>2, DivMod, Zenon
        <5> SUFFICES ASSUME q = 0 PROVE FALSE
          OBVIOUS
        <5>2. (rest \div b) * b = 0
          BY <4>2 DEF q, b
        <5> QED
          BY <5>1, <5>2, <4>1, <4>2
      <4> QED
        BY <4>3, <3>1
    <3>3. w \in Nat /\ 1 <= w /\ w <= q
      <4>1. q \in Nat \ {0} /\ kind.nbW \in Nat \ {0}
        BY <1>1, <3>1, <3>2
      <4>2. w \in Nat \ {0} /\ w \in 1..q
        <5> HIDE DEF q
        <5> QED
          BY <4>1, MinFacts, Zenon DEF w
      <4> HIDE DEF q, w
      <4> QED
        BY <3>1, <4>2
    <3>4. b * w <= q * b /\ 1 <= b * w /\ b * w \in Nat
      <4>1. b \in Nat \ {0}
        BY <1>1
      <4> HIDE DEF b, q, w
      <4> QED
        BY <3>1, <3>3, <4>1
    <3>5. T3TChunk(o, rest) = b * w
      BY <2>2 DEF T3TChunk
    <3> HIDE DEF b, q, w
    <3>6. q * b \in Int
      BY <3>1, <1>1 DEF b
    <3> QED
      BY <3>1, <3>4, <3>5, <3>6
  <2> QED
    BY <2>1, <2>2
<1> QED
  BY <1>1, <1>2, <1>3, <1>4 DEF Chunk, T2TChunk, T5TChunk

LEMMA PutFacts ==
  ASSUME kind \in Setups, tag \in Shape(kind), NEW start \in Nat, op.at \in Nat,
         NEW last \in Nat, op.at < last, NEW bytes, \A i \in 1..last : bytes[i] \in Byte
  PROVE  LET p == Put(start, bytes, last)
         IN /\ p.at \in (op.at + 1)..last
            /\ p.tag \in Shape(kind) /\ p.tag.flag = tag.flag /\ p.tag.ln = tag.ln
            /\ \A c \in 0..(SizeOf(kind) - 1) :
                 p.tag.mem[c] = IF c \in (start + op.at)..(start + p.at - 1)
                                THEN bytes[c - start + 1] ELSE tag.mem[c]
            /\ p.fits => start + p.at <= SizeOf(kind)
<1> DEFINE o == start + op.at
           n == Chunk(o, last - op.at)
           p == Put(start, bytes, last)
           mem == [c \in 0..(SizeOf(kind) - 1) |->
                     IF c \in o..(o + n - 1) THEN bytes[c - start + 1] ELSE tag.mem[c]]
<1>1. n \in 1..(last - op.at)
  <2>1. o \in Nat /\ last - op.at \in Nat \ {0}
    OBVIOUS
  <2> QED
    BY <2>1, ChunkBounds
<1> HIDE DEF n
<1>2. DOMAIN tag.mem = 0..(SizeOf(kind) - 1) /\ SizeOf(kind) \in Nat
  BY Geometry DEF Shape
<1>3. p = [at |-> op.at + n, fits |-> o + n <= SizeOf(kind), tag |-> [tag EXCEPT !.mem = mem]]
  BY <1>2 DEF Put, n, Size, SizeOf
<1>4. p.at = op.at + n /\ p.fits = (o + n <= SizeOf(kind)) /\ p.tag = [tag EXCEPT !.mem = mem]
  BY <1>3
<1>5. \A c \in 0..(SizeOf(kind) - 1) : mem[c] \in Byte
  <2> SUFFICES ASSUME NEW c \in 0..(SizeOf(kind) - 1) PROVE mem[c] \in Byte
    OBVIOUS
  <2>1. tag.mem[c] \in Byte
    BY DEF Shape
  <2>2. c \in o..(o + n - 1) => c - start + 1 \in 1..last
    BY <1>1, <1>2
  <2> QED
    BY <2>1, <2>2
<1>6. mem \in [0..(SizeOf(kind) - 1) -> Byte]
  BY <1>5
<1>7. p.tag \in Shape(kind) /\ p.tag.flag = tag.flag /\ p.tag.ln = tag.ln /\ p.tag.mem = mem
  BY <1>4, <1>6 DEF Shape
<1>8. o + n - 1 = start + p.at - 1 /\ o + n = start + p.at
  BY <1>1, <1>4
<1>9. p.at \in (op.at + 1)..last
  BY <1>1, <1>4
<1>10. p.fits => start + p.at <= SizeOf(kind)
  BY <1>4, <1>8
<1>11. \A c \in 0..(SizeOf(kind) - 1) :
         p.tag.mem[c] = IF c \in (start + op.at)..(start + p.at - 1)
                        THEN bytes[c - start + 1] ELSE tag.mem[c]
  BY <1>7, <1>8
<1> HIDE DEF p
<1> QED
  BY <1>7, <1>9, <1>10, <1>11 DEF p
-----------------------------------------------------------------------------
(* What a step of a write keeps. *)

CtxShape(caches) ==
  [state : {"none", "INVALID", "INITIALIZED", "READWRITE"}, len : Nat, off : Nat,
   tlv : Nat, flag : BOOLEAN, ln : Nat, cache : caches]
GoodCtx(c) ==
  /\ c \in CtxShape(Caches)
  /\ c.flag => kind.type = "T3T"
  /\ IF HasTlv(kind) THEN c.tlv = Tlv ELSE c.off = kind.base

\* The TLV stays where it is.
Kept(t) == TagIs(kind, t) /\ (HasTlv(kind) => TlvOf(kind, t.mem) = Tlv)

\* The message stays, goes, or, where there was none, the one being written is there.
Moves(new) ==
  LET old == ContentOn(kind, tag)
  IN new = old \/ new \in Vacant \/ (old \in Vacant /\ new = Writing /\ Writing \in Messages)

WriteStep ==
  /\ Inv' /\ kind' = kind
  /\ Writing' \in {Writing, None}
  /\ Moves(ContentOn(kind, tag'))
  /\ Idle' /\ told'.ok => ContentOn(kind, tag') = Writing

LEMMA IdleIs ==
  ASSUME OpInv
  PROVE  Idle = (op = NoOp)
<1>1. op = NoOp => Idle
  BY DEF NoOp, Idle
<1>2. op # NoOp => ~Idle
  BY DEF OpInv, Idle, Called, None
<1> QED
  BY <1>1, <1>2 DEF Idle

LEMMA OpFacts ==
  ASSUME Inv, ~Idle
  PROVE  /\ kind \in Setups /\ tag \in Shape(kind) /\ TagIs(kind, tag)
         /\ op \in [msg : Called, phase : {"begin", "data", "end", "terminator"}, at : Nat,
                    cut : Nat, raw : BOOLEAN]
         /\ op.msg[1] \in Texts /\ op.msg[2] \in kind.lens /\ op.msg[2] \in Nat
         /\ op.msg[2] # 0 => op.msg \in Messages
         /\ Writing = IF op.msg[2] = 0 THEN Empty ELSE op.msg
         /\ since \in Known /\ GoodCtx(ctx) /\ StageInv
         /\ op.cut = 0 \/ op.cut < op.msg[2]
<1>1. kind \in Setups /\ TagIs(kind, tag) /\ tag \in Shape(kind)
  BY DEF Inv, TagInv, TagIs, Shape
<1>2. op # NoOp
  BY IdleIs DEF Inv
<1>3. /\ op \in [msg : Called, phase : {"begin", "data", "end", "terminator"}, at : Nat,
                 cut : Nat, raw : BOOLEAN]
      /\ since \in Known /\ StageInv
      /\ op.cut = 0 \/ op.cut < op.msg[2]
  BY <1>2 DEF Inv, OpInv
<1>4. PICK t \in Texts, n \in kind.lens : op.msg = <<t, n>>
  BY <1>3 DEF Called
<1>5. op.msg[1] = t /\ op.msg[2] = n
  BY <1>4
<1>6. kind.lens \subseteq Nat
  BY <1>1, Geometry
<1>7. op.msg[2] # 0 => op.msg \in Messages
  BY <1>1, <1>4, <1>5, MessageFacts
<1>8. Writing = IF op.msg[2] = 0 THEN Empty ELSE op.msg
  BY DEF Writing
<1>9. GoodCtx(ctx)
  BY <1>3 DEF Inv, CtxInv, GoodCtx, CtxShape
<1> QED
  BY <1>1, <1>3, <1>5, <1>6, <1>7, <1>8, <1>9

LEMMA EndsNext ==
  ASSUME Inv, ~Idle, kind' = kind, NEW t, tag' = t, Kept(t), NEW ok \in BOOLEAN, NEW c,
         GoodCtx(c), Ends(ok, c),
         ok => ~c.flag /\ ~t.flag /\ ((c.state = "READWRITE") = (ContentOn(kind, t) \in Messages))
  PROVE  Inv' /\ Writing' = None /\ told'.ok = ok
<1>1. /\ op' = NoOp /\ told'.ok = ok /\ since' = (IF ok THEN "written" ELSE "failed")
      /\ ctx' = [c EXCEPT !.cache = NoCache]
  BY DEF Ends, Fresh, NoOp
<1>2. OpInv' /\ Idle'
  BY <1>1 DEF OpInv, Idle, NoOp
<1>3. TagInv'
  BY OpFacts DEF TagInv, Kept
<1>4. NoCache \in Caches'
  BY DEF Caches
<1>5. /\ ctx' \in CtxShape(Caches')
      /\ ctx'.tlv = c.tlv /\ ctx'.off = c.off /\ ctx'.flag = c.flag /\ ctx'.state = c.state
  BY <1>1, <1>4 DEF GoodCtx, CtxShape
<1>6. CtxInv'
  <2>1. (ctx.flag => kind.type = "T3T")'
    BY <1>5 DEF GoodCtx
  <2>2. (IF HasTlv(kind) THEN ctx.tlv = Tlv ELSE ctx.off = kind.base)'
    BY <1>5 DEF GoodCtx, Kept, Tlv
  <2>3. (since \in Known)'
    BY <1>1 DEF Known
  <2> QED
    BY <1>5, <2>1, <2>2, <2>3 DEF CtxInv, CtxShape
<1>7. DetectedInv'
  BY <1>1 DEF DetectedInv
<1>8. WrittenInv'
  BY <1>1, <1>5 DEF WrittenInv
<1>9. Writing' = None
  BY <1>2 DEF Writing
<1> QED
  BY <1>1, <1>2, <1>3, <1>6, <1>7, <1>8, <1>9 DEF Inv

LEMMA FailStep ==
  ASSUME Inv, ~Idle, kind' = kind, NEW t, tag' = t, Kept(t), Moves(ContentOn(kind, t)), NEW c,
         GoodCtx(c), Ends(FALSE, c)
  PROVE  WriteStep
<1>1. Inv' /\ Writing' = None /\ told'.ok = FALSE
  BY EndsNext
<1> QED
  BY <1>1 DEF WriteStep

LEMMA DoneStep ==
  ASSUME Inv, ~Idle, kind' = kind, NEW t, tag' = t, Kept(t), Moves(ContentOn(kind, t)), NEW c,
         GoodCtx(c), Ends(TRUE, c), ContentOn(kind, t) = Writing, ~c.flag, ~t.flag,
         c.state = IF op.msg[2] = 0 THEN "INITIALIZED" ELSE "READWRITE"
  PROVE  WriteStep
<1>1. (c.state = "READWRITE") = (ContentOn(kind, t) \in Messages)
  BY OpFacts, MessageFacts
<1>2. Inv' /\ Writing' = None
  BY <1>1, EndsNext
<1> QED
  BY <1>2 DEF WriteStep

LEMMA GoStep ==
  ASSUME Inv, ~Idle, kind' = kind, NEW t, tag' = t, Kept(t), Moves(ContentOn(kind, t)), NEW c,
         GoodCtx(c), NEW phase \in {"begin", "data", "end", "terminator"}, NEW at \in Nat,
         Goes(phase, at, c), StageInv'
  PROVE  WriteStep
<1>1. /\ op' = [op EXCEPT !.phase = phase, !.at = at]
      /\ told' = told /\ since' = since
      /\ ctx' = [c EXCEPT !.cache = NoCache]
  BY DEF Goes, Fresh
<1>2. /\ op' \in [msg : Called, phase : {"begin", "data", "end", "terminator"}, at : Nat,
                  cut : Nat, raw : BOOLEAN]
      /\ op'.msg = op.msg /\ op'.cut = op.cut
  BY <1>1, OpFacts
<1>3. Called' = Called
  BY DEF Called
<1>4. OpInv'
  BY <1>1, <1>2, <1>3, OpFacts DEF OpInv
<1>5. ~Idle' /\ Writing' = Writing
  BY <1>2 DEF Idle, Writing
<1>6. TagInv'
  BY OpFacts DEF TagInv, Kept
<1>7. NoCache \in Caches'
  BY DEF Caches
<1>8. /\ ctx' \in CtxShape(Caches')
      /\ ctx'.tlv = c.tlv /\ ctx'.off = c.off /\ ctx'.flag = c.flag /\ ctx'.state = c.state
  BY <1>1, <1>7 DEF GoodCtx, CtxShape
<1>9. CtxInv'
  <2>1. (ctx.flag => kind.type = "T3T")'
    BY <1>8 DEF GoodCtx
  <2>2. (IF HasTlv(kind) THEN ctx.tlv = Tlv ELSE ctx.off = kind.base)'
    BY <1>8 DEF GoodCtx, Kept, Tlv
  <2>3. (since \in Known)'
    BY <1>1, OpFacts
  <2> QED
    BY <1>8, <2>1, <2>2, <2>3 DEF CtxInv, CtxShape
<1>10. DetectedInv' /\ WrittenInv'
  BY <1>5 DEF DetectedInv, WrittenInv
<1> QED
  BY <1>4, <1>5, <1>6, <1>9, <1>10 DEF WriteStep, Inv

-----------------------------------------------------------------------------
(* What the commands of a write leave on the tag. *)

LEMMA SameSays ==
  ASSUME NEW k \in Setups, NEW t, TagIs(k, t), NEW u \in Shape(k),
         u.mem = t.mem, u.flag = t.flag, u.ln = t.ln
  PROVE  /\ TagIs(k, u) /\ ContentOn(k, u) = ContentOn(k, t)
         /\ FoundOn(k, u) = FoundOn(k, t)
<1>1. FoundOn(k, u) = FoundOn(k, t)
  BY DEF FoundOn
<1>2. ContentOn(k, u) = ContentOn(k, t)
  BY <1>1 DEF ContentOn
<1> QED
  BY <1>1, <1>2 DEF TagIs, Shape

\* Bytes behind the TLV's first do not move it.
LEMMA TlvKept ==
  ASSUME NEW k \in Setups, HasTlv(k), NEW mem, NEW new, new[TlvOf(k, mem)] = T,
         \A c \in 0..(SizeOf(k) - 1) : c < TlvOf(k, mem) => new[c] = mem[c]
  PROVE  TlvOf(k, new) = TlvOf(k, mem)
<1>1. k.base \in Nat /\ k.tlv \in Nat /\ SizeOf(k) \in Nat
  BY Geometry
<1>2. TlvOf(k, mem) \in Nat /\ k.base <= TlvOf(k, mem) /\ TlvOf(k, mem) + 1 < SizeOf(k)
  BY TlvFacts
<1>3. CASE mem[k.base] = T
  BY <1>3 DEF TlvOf
<1>4. CASE mem[k.base] # T /\ k.tlv # 0
  <2>1. k.base \in 0..(SizeOf(k) - 1) /\ k.base < TlvOf(k, mem)
    BY <1>1, <1>2, <1>4 DEF TlvOf
  <2>2. new[k.base] # T
    BY <2>1, <1>4
  <2> QED
    BY <2>2, <1>4 DEF TlvOf
<1>5. CASE k.tlv = 0
  BY <1>1, <1>5 DEF TlvOf
<1> QED
  BY <1>3, <1>4, <1>5

\* A tag that says it has no message.
Vacated == IF kind.type = "T3T" THEN Unreadable ELSE Empty

LEMMA ResetSays ==
  ASSUME kind \in Setups, NEW t \in Shape(kind), t.flag => kind.type = "T3T",
         HasTlv(kind) => t.mem[Tlv] = T /\ TlvOf(kind, t.mem) = Tlv /\ ctx.tlv = Tlv, ResetOn(t)
  PROVE  Kept(t) /\ ContentOn(kind, t) = Vacated
<1>1. CASE HasTlv(kind)
  <2>1. kind.type # "T3T" /\ ~t.flag
    BY <1>1 DEF HasTlv
  <2>2. t.mem[TlvOf(kind, t.mem)] = T /\ t.mem[TlvOf(kind, t.mem) + 1] = L(0)
    BY <1>1 DEF ResetOn
  <2> QED
    BY <2>1, <2>2, <1>1, TlvReset DEF Kept, Vacated
<1>2. CASE ~HasTlv(kind)
  <2>1. t.flag \/ t.ln = 0
    BY <1>2 DEF ResetOn
  <2>2. kind.type = "T3T" => t.flag
    BY <1>2 DEF ResetOn
  <2> QED
    BY <2>1, <2>2, <1>2, PlainReset DEF Kept, Vacated
<1> QED
  BY <1>1, <1>2

LEMMA VacatedIs == Vacated \in Vacant
BY DEF Vacated, Vacant

\* The bytes of a length are bytes of a tag.
LEMMA LenFieldFacts ==
  /\ \A i \in 1..3 : LenField(0)[i] \in Byte
  /\ LenField(0)[1] = T /\ LenField(0)[2] = L(0)
  /\ \A n \in 1..ShortMax : /\ Len(LenField(n)) = 2
                            /\ \A i \in 1..2 : LenField(n)[i] \in Byte
                            /\ LenField(n)[1] = T /\ LenField(n)[2] = L(n)
<1>1. LenField(0) = <<T, L(0), Term>> /\ T \in Byte /\ L(0) \in Byte /\ Term \in Byte
  BY ByteFacts DEF LenField
<1>2. ASSUME NEW n \in 1..ShortMax PROVE LenField(n) = <<T, L(n)>> /\ L(n) \in Byte
  BY NdefAssumption, ByteFacts DEF LenField
<1> QED
  BY <1>1, <1>2

\* The reset of a length: its T is there already, its L makes the tag empty.
LEMMA BeginEffect ==
  ASSUME Inv, ~Idle, HasTlv(kind), op.phase = "begin"
  PROVE  LET p == Put(ctx.tlv, LenField(0), 3)
         IN /\ p.at \in 1..3
            /\ p.fits => /\ Kept(p.tag) /\ p.tag \in Shape(kind) /\ ~p.tag.flag
                         /\ p.at >= 2 => ResetOn(p.tag)
                         /\ ContentOn(kind, p.tag) \in {ContentOn(kind, tag), Empty}
<1> DEFINE p == Put(ctx.tlv, LenField(0), 3)
           tlv == ctx.tlv
<1>1. /\ kind \in Setups /\ tag \in Shape(kind) /\ TagIs(kind, tag)
      /\ tlv = Tlv /\ op.at \in 0..2 /\ (op.at = 2 => ResetOn(tag))
  BY OpFacts DEF GoodCtx, StageInv, BeginInv
<1>2. tlv \in Nat /\ tlv + 1 < SizeOf(kind) /\ SizeOf(kind) \in Nat
  BY <1>1, TlvFacts, Geometry DEF Tlv
<1>3. tag.mem[tlv] = T /\ kind.type # "T3T" /\ ~tag.flag
  BY <1>1 DEF TagIs, Tlv, HasTlv
<1>4. /\ p.at \in (op.at + 1)..3
      /\ p.tag \in Shape(kind) /\ p.tag.flag = tag.flag /\ p.tag.ln = tag.ln
      /\ \A c \in 0..(SizeOf(kind) - 1) :
           p.tag.mem[c] = IF c \in (tlv + op.at)..(tlv + p.at - 1)
                          THEN LenField(0)[c - tlv + 1] ELSE tag.mem[c]
  BY <1>1, <1>2, LenFieldFacts, PutFacts
<1> HIDE DEF p, tlv
<1>5. p.tag.mem[tlv] = T
  <2>1. tlv \in 0..(SizeOf(kind) - 1) /\ tlv - tlv + 1 = 1
    BY <1>2
  <2> QED
    BY <2>1, <1>3, <1>4, LenFieldFacts
<1>6. TlvOf(kind, p.tag.mem) = Tlv
  <2>1. \A c \in 0..(SizeOf(kind) - 1) : c < tlv => p.tag.mem[c] = tag.mem[c]
    BY <1>1, <1>2, <1>4
  <2> QED
    BY <2>1, <1>1, <1>5, TlvKept DEF Tlv
<1>7. ASSUME p.at >= 2 PROVE ResetOn(p.tag)
  <2> DEFINE c == tlv + 1
  <2>1. c \in 0..(SizeOf(kind) - 1) /\ c - tlv + 1 = 2
    BY <1>2
  <2>2. CASE op.at = 2
    <3>1. ~(tlv + 1 \in (tlv + op.at)..(tlv + p.at - 1))
      BY <2>2, <1>2
    <3>2. tag.mem[tlv + 1] = L(0)
      BY <2>2, <1>1 DEF ResetOn, tlv
    <3> QED
      BY <2>1, <3>1, <3>2, <1>4 DEF ResetOn, tlv
  <2>3. CASE op.at # 2
    <3>1. c \in (tlv + op.at)..(tlv + p.at - 1)
      BY <2>3, <1>1, <1>2, <1>4, <1>7
    <3>2. p.tag.mem[c] = LenField(0)[2]
      <4> HIDE DEF c
      <4> QED
        BY <2>1, <3>1, <1>4
    <3> QED
      BY <3>2, LenFieldFacts DEF ResetOn, tlv
  <2> QED
    BY <2>2, <2>3
<1>8. CASE p.at >= 2
  <2>1. Kept(p.tag) /\ ContentOn(kind, p.tag) = Empty
    BY <1>1, <1>3, <1>4, <1>5, <1>6, <1>7, <1>8, ResetSays DEF Vacated, tlv
  <2> QED
    BY <2>1, <1>1, <1>3, <1>4, <1>7, <1>8 DEF p, tlv
<1>9. CASE ~(p.at >= 2)
  <2>1. op.at = 0 /\ p.at = 1
    BY <1>1, <1>4, <1>9
  <2>2. ASSUME NEW c \in 0..(SizeOf(kind) - 1) PROVE p.tag.mem[c] = tag.mem[c]
    <3>1. CASE c = tlv
      BY <3>1, <1>3, <1>5
    <3>2. CASE c # tlv
      <4>1. ~(c \in (tlv + op.at)..(tlv + p.at - 1))
        BY <2>1, <3>2, <1>2
      <4> QED
        BY <4>1, <1>4
    <3> QED
      BY <3>1, <3>2
  <2>3. p.tag.mem = tag.mem
    <3> DEFINE new == p.tag.mem
               old == tag.mem
               S == 0..(SizeOf(kind) - 1)
    <3>1. new \in [S -> Byte] /\ old \in [S -> Byte]
      BY <1>1, <1>4 DEF Shape
    <3>2. \A c \in S : new[c] = old[c]
      BY <2>2
    <3> HIDE DEF new, old, S
    <3>3. new = old
      BY <3>1, <3>2, SameFunction
    <3> QED
      BY <3>3 DEF new, old
  <2>4. TagIs(kind, p.tag) /\ ContentOn(kind, p.tag) = ContentOn(kind, tag)
    BY <2>3, <1>1, <1>4, SameSays
  <2> QED
    BY <2>1, <2>4, <1>3, <1>4, <1>6 DEF Kept, p, tlv
<1> QED
  BY <1>8, <1>9

\* Bytes behind the length leave the tag without a message.
LEMMA BehindLength ==
  ASSUME kind \in Setups, TagIs(kind, tag), GoodCtx(ctx), ResetOn(tag), NEW t \in Shape(kind),
         t.flag = tag.flag, t.ln = tag.ln,
         \A c \in 0..(SizeOf(kind) - 1) : c < Off => t.mem[c] = tag.mem[c]
  PROVE  Kept(t) /\ ResetOn(t) /\ ContentOn(kind, t) = Vacated
<1>1. ASSUME HasTlv(kind) PROVE t.mem[Tlv] = T /\ TlvOf(kind, t.mem) = Tlv /\ ResetOn(t)
  <2>1. ctx.tlv = Tlv /\ tag.mem[Tlv] = T /\ Off = Tlv + 2
    BY <1>1 DEF GoodCtx, TagIs, Tlv, Off
  <2>2. Tlv \in Nat /\ Tlv + 1 < SizeOf(kind) /\ SizeOf(kind) \in Nat
    BY <1>1, TlvFacts, Geometry DEF Tlv
  <2>3. t.mem[Tlv] = T
    BY <2>1, <2>2
  <2>4. t.mem[Tlv + 1] = tag.mem[Tlv + 1]
    BY <2>1, <2>2
  <2>5. \A c \in 0..(SizeOf(kind) - 1) : c < Tlv => t.mem[c] = tag.mem[c]
    BY <2>1, <2>2
  <2>6. TlvOf(kind, t.mem) = Tlv
    BY <1>1, <2>3, <2>5, TlvKept DEF Tlv
  <2> QED
    BY <1>1, <2>1, <2>3, <2>4, <2>6 DEF ResetOn
<1>2. ResetOn(t)
  BY <1>1 DEF ResetOn
<1>3. t.flag => kind.type = "T3T"
  BY DEF TagIs
<1>4. HasTlv(kind) => ctx.tlv = Tlv
  BY DEF GoodCtx
<1> QED
  BY <1>1, <1>2, <1>3, <1>4, ResetSays

\* A part of a message: the bytes so far are there, and the tag has no message.
LEMMA DataEffect ==
  ASSUME Inv, ~Idle, op.phase = "data", NEW last \in Nat, op.at < last, last <= op.msg[2]
  PROVE  LET p == Put(ctx.off, Data(op.msg), last)
         IN /\ p.at \in (op.at + 1)..last
            /\ p.fits => /\ Kept(p.tag) /\ ResetOn(p.tag) /\ BytesOn(p.tag, p.at)
                         /\ ContentOn(kind, p.tag) = Vacated
<1> DEFINE p == Put(ctx.off, Data(op.msg), last)
           off == ctx.off
           bytes == Data(op.msg)
           n == op.msg[2]
<1>1. /\ kind \in Setups /\ tag \in Shape(kind) /\ TagIs(kind, tag) /\ GoodCtx(ctx)
      /\ op.msg[1] \in Texts /\ n \in Nat /\ op.at \in Nat
      /\ ResetOn(tag) /\ off = Off /\ BytesOn(tag, op.at)
  BY OpFacts DEF StageInv, DataInv
<1>2. off \in Nat
  BY <1>1 DEF GoodCtx, CtxShape
<1>3. \A i \in 1..last : bytes[i] \in Byte
  BY <1>1, DataFacts
<1>4. /\ p.at \in (op.at + 1)..last
      /\ p.tag \in Shape(kind) /\ p.tag.flag = tag.flag /\ p.tag.ln = tag.ln
      /\ \A c \in 0..(SizeOf(kind) - 1) :
           p.tag.mem[c] = IF c \in (off + op.at)..(off + p.at - 1)
                          THEN bytes[c - off + 1] ELSE tag.mem[c]
      /\ p.fits => off + p.at <= SizeOf(kind)
  <2> HIDE DEF bytes
  <2> QED
    BY <1>1, <1>2, <1>3, PutFacts DEF bytes
<1> HIDE DEF p, off, bytes, n
<1>5. Kept(p.tag) /\ ResetOn(p.tag) /\ ContentOn(kind, p.tag) = Vacated
  <2>1. \A c \in 0..(SizeOf(kind) - 1) : c < off => p.tag.mem[c] = tag.mem[c]
    BY <1>1, <1>2, <1>4
  <2> QED
    BY <2>1, <1>1, <1>4, BehindLength
<1>6. ASSUME p.fits PROVE BytesOn(p.tag, p.at)
  <2>1. off + p.at <= SizeOf(kind) /\ SizeOf(kind) \in Nat /\ p.at \in Nat
    BY <1>1, <1>4, <1>6, Geometry
  <2>2. ASSUME NEW i \in 1..p.at PROVE p.tag.mem[off + i - 1] = bytes[i]
    <3> DEFINE c == off + i - 1
    <3>1. c \in 0..(SizeOf(kind) - 1) /\ c - off + 1 = i
      BY <2>1, <1>2
    <3>2. CASE i <= op.at
      <4>1. tag.mem[c] = bytes[i]
        BY <3>2, <1>1 DEF BytesOn, off, bytes
      <4>2. ~(c \in (off + op.at)..(off + p.at - 1))
        BY <3>2, <1>1, <1>2
      <4> HIDE DEF c
      <4>3. p.tag.mem[c] = bytes[i]
        BY <4>1, <4>2, <3>1, <1>4
      <4> QED
        BY <4>3 DEF c
    <3>3. CASE ~(i <= op.at)
      <4>1. c \in (off + op.at)..(off + p.at - 1)
        BY <3>3, <1>1, <1>2, <2>1
      <4> HIDE DEF c
      <4>2. p.tag.mem[c] = bytes[i]
        BY <4>1, <3>1, <1>4
      <4> QED
        BY <4>2 DEF c
    <3> QED
      BY <3>2, <3>3
  <2> QED
    BY <2>1, <2>2 DEF BytesOn, off, bytes
<1> QED
  BY <1>4, <1>5, <1>6 DEF p, off, bytes

\* The length: with its L the message is on the tag.
LEMMA LengthEffect ==
  ASSUME Inv, ~Idle, HasTlv(kind), op.phase = "end", op.msg[2] <= ShortMax
  PROVE  LET f == LenField(op.msg[2])
             p == Put(ctx.tlv, f, Len(f))
         IN /\ Len(f) = 2 /\ p.at \in 1..2
            /\ p.fits =>
                 /\ Kept(p.tag) /\ BytesOn(p.tag, op.msg[2]) /\ ~p.tag.flag
                 /\ p.at = 1 => ContentOn(kind, p.tag) = Vacated /\ ResetOn(p.tag)
                 /\ p.at = 2 => /\ ContentOn(kind, p.tag) = op.msg
                                /\ p.tag.mem[ctx.tlv + 1] = L(op.msg[2])
<1> DEFINE n == op.msg[2]
           f == LenField(n)
           tlv == ctx.tlv
           p == Put(tlv, f, 2)
<1>1. /\ kind \in Setups /\ tag \in Shape(kind) /\ TagIs(kind, tag) /\ GoodCtx(ctx)
      /\ op.msg \in Messages /\ n \in 1..ShortMax /\ op.at \in 0..1
      /\ ResetOn(tag) /\ ctx.off = tlv + 2 /\ BytesOn(tag, n) /\ tlv = Tlv
  BY OpFacts DEF StageInv, EndInv, Off, GoodCtx
<1>2. tlv \in Nat /\ tlv + 1 < SizeOf(kind) /\ SizeOf(kind) \in Nat
  BY <1>1, TlvFacts, Geometry DEF Tlv
<1>3. tag.mem[tlv] = T /\ ~tag.flag /\ tag.mem[tlv + 1] = L(0)
  BY <1>1 DEF TagIs, Tlv, HasTlv, ResetOn
<1>4. Len(f) = 2 /\ (\A i \in 1..2 : f[i] \in Byte) /\ f[1] = T /\ f[2] = L(n)
  BY <1>1, LenFieldFacts
<1> HIDE DEF n, f, tlv
<1>5. /\ p.at \in (op.at + 1)..2
      /\ p.tag \in Shape(kind) /\ p.tag.flag = tag.flag /\ p.tag.ln = tag.ln
      /\ \A c \in 0..(SizeOf(kind) - 1) :
           p.tag.mem[c] = IF c \in (tlv + op.at)..(tlv + p.at - 1)
                          THEN f[c - tlv + 1] ELSE tag.mem[c]
  BY <1>1, <1>2, <1>4, PutFacts
<1> HIDE DEF p
<1>6. p.tag.mem[tlv] = T
  <2>1. tlv \in 0..(SizeOf(kind) - 1) /\ tlv - tlv + 1 = 1
    BY <1>2
  <2> QED
    BY <2>1, <1>3, <1>4, <1>5
<1>7. TlvOf(kind, p.tag.mem) = Tlv
  <2>1. \A c \in 0..(SizeOf(kind) - 1) : c < tlv => p.tag.mem[c] = tag.mem[c]
    BY <1>1, <1>2, <1>5
  <2> QED
    BY <2>1, <1>1, <1>6, TlvKept DEF Tlv
<1>8. \A c \in 0..(SizeOf(kind) - 1) : c >= tlv + 2 => p.tag.mem[c] = tag.mem[c]
  BY <1>1, <1>2, <1>5
<1>9. BytesOn(p.tag, n)
  <2>1. tlv + 2 + n <= SizeOf(kind) /\ n \in Nat
    BY <1>1 DEF BytesOn
  <2>2. ASSUME NEW i \in 1..n PROVE p.tag.mem[ctx.off + i - 1] = Data(op.msg)[i]
    <3> DEFINE c == ctx.off + i - 1
    <3>1. c \in 0..(SizeOf(kind) - 1) /\ c >= tlv + 2
      BY <2>1, <1>1, <1>2
    <3>2. tag.mem[c] = Data(op.msg)[i]
      BY <1>1 DEF BytesOn
    <3> HIDE DEF c
    <3>3. p.tag.mem[c] = Data(op.msg)[i]
      BY <3>1, <3>2, <1>8
    <3> QED
      BY <3>3 DEF c
  <2> QED
    BY <2>2, <1>1 DEF BytesOn
<1>10. p.tag.mem[tlv + 1] = IF p.at = 2 THEN L(n) ELSE L(0)
  <2> DEFINE c == tlv + 1
  <2>1. c \in 0..(SizeOf(kind) - 1) /\ c - tlv + 1 = 2
    BY <1>2
  <2>2. c \in (tlv + op.at)..(tlv + p.at - 1) <=> p.at = 2
    BY <1>1, <1>2, <1>5
  <2>3. tag.mem[c] = L(0)
    BY <1>3
  <2> HIDE DEF c
  <2>4. p.tag.mem[c] = IF p.at = 2 THEN L(n) ELSE L(0)
    BY <2>1, <2>2, <2>3, <1>4, <1>5
  <2> QED
    BY <2>4 DEF c
<1>11. CASE p.at = 2
  <2>1. TagIs(kind, p.tag) /\ ContentOn(kind, p.tag) = op.msg
    <3> DEFINE t == p.tag
               w == op.msg
               at == TlvOf(kind, t.mem)
    <3>1. tlv = at /\ n = w[2]
      BY <1>1, <1>7 DEF n
    <3>2. at + 2 + w[2] <= SizeOf(kind) /\ \A i \in 1..w[2] : t.mem[at + 2 + i - 1] = Data(w)[i]
      BY <3>1, <1>1, <1>9 DEF BytesOn
    <3>3. /\ t.mem[at] = T /\ t.mem[at + 1] = L(w[2]) /\ ~t.flag
          /\ t \in Shape(kind) /\ w \in Messages /\ w[2] <= ShortMax
      BY <3>1, <1>1, <1>3, <1>5, <1>6, <1>10, <1>11
    <3>4. kind \in Setups
      BY <1>1
    <3> HIDE DEF t, w
    <3>5. TagIs(kind, t) /\ ContentOn(kind, t) = w
      BY <3>2, <3>3, <3>4, TlvWhole, Zenon
    <3> QED
      BY <3>5 DEF t, w
  <2>2. Kept(p.tag) /\ ~p.tag.flag /\ p.tag.mem[tlv + 1] = L(n)
    BY <2>1, <1>3, <1>5, <1>7, <1>10, <1>11 DEF Kept
  <2> QED
    BY <2>1, <2>2, <1>1, <1>4, <1>5, <1>9, <1>11 DEF p, f, n, tlv
<1>12. CASE p.at = 1
  <2>1. ResetOn(p.tag) /\ ~p.tag.flag
    BY <1>3, <1>5, <1>10, <1>12 DEF ResetOn, tlv
  <2>2. Kept(p.tag) /\ ContentOn(kind, p.tag) = Vacated
    BY <2>1, <1>1, <1>5, <1>6, <1>7, ResetSays DEF tlv
  <2> QED
    BY <2>1, <2>2, <1>1, <1>4, <1>5, <1>9, <1>12 DEF p, f, n, tlv
<1>13. p.at = 1 \/ p.at = 2
  BY <1>1, <1>5
<1> QED
  BY <1>11, <1>12, <1>13

\* Bytes behind the message leave what the tag says.
LEMMA BehindMessage ==
  ASSUME Inv, ~Idle, op.phase = "terminator", op.msg[2] <= ShortMax, NEW u \in Shape(kind),
         u.flag = tag.flag,
         \A c \in 0..(SizeOf(kind) - 1) : c < ctx.off + op.msg[2] => u.mem[c] = tag.mem[c]
  PROVE  /\ Kept(u) /\ ~u.flag
         /\ ContentOn(kind, u) = IF tag.mem[ctx.tlv + 1] = L(op.msg[2]) THEN op.msg ELSE Empty
<1> DEFINE n == op.msg[2]
           tlv == ctx.tlv
           w == op.msg
<1>1. /\ kind \in Setups /\ TagIs(kind, tag) /\ GoodCtx(ctx) /\ HasTlv(kind)
      /\ w \in Messages /\ n \in 1..ShortMax
      /\ ctx.off = tlv + 2 /\ BytesOn(tag, n) /\ tlv = Tlv
      /\ tag.mem[tlv + 1] = L(n) \/ tag.mem[tlv + 1] = L(0)
  BY OpFacts DEF StageInv, TerminatorInv, Off, GoodCtx
<1>2. tlv \in Nat /\ tlv + 1 < SizeOf(kind) /\ SizeOf(kind) \in Nat
  BY <1>1, TlvFacts, Geometry DEF Tlv
<1>3. tag.mem[tlv] = T /\ ~tag.flag /\ ~u.flag
  BY <1>1 DEF TagIs, Tlv, HasTlv
<1> HIDE DEF n, tlv, w
<1>4. \A c \in 0..(SizeOf(kind) - 1) : c < tlv + 2 + n => u.mem[c] = tag.mem[c]
  BY <1>1 DEF n
<1>5. u.mem[tlv] = T /\ u.mem[tlv + 1] = tag.mem[tlv + 1]
  <2>1. tlv \in 0..(SizeOf(kind) - 1) /\ tlv < tlv + 2 + n
    BY <1>1, <1>2
  <2>2. tlv + 1 \in 0..(SizeOf(kind) - 1) /\ tlv + 1 < tlv + 2 + n
    BY <1>1, <1>2
  <2> QED
    BY <2>1, <2>2, <1>3, <1>4
<1>6. TlvOf(kind, u.mem) = Tlv
  <2>1. \A c \in 0..(SizeOf(kind) - 1) : c < tlv => u.mem[c] = tag.mem[c]
    BY <1>1, <1>2, <1>4
  <2> QED
    BY <2>1, <1>1, <1>5, TlvKept DEF Tlv
<1>7. CASE tag.mem[tlv + 1] = L(n)
  <2> DEFINE at == TlvOf(kind, u.mem)
  <2>1. at = tlv /\ n = w[2]
    BY <1>1, <1>6 DEF n, w
  <2>2. at + 2 + w[2] <= SizeOf(kind)
    BY <2>1, <1>1 DEF BytesOn
  <2>3. \A i \in 1..w[2] : u.mem[at + 2 + i - 1] = Data(w)[i]
    <3> SUFFICES ASSUME NEW i \in 1..n PROVE u.mem[tlv + 2 + i - 1] = Data(w)[i]
      BY <2>1
    <3> DEFINE c == tlv + 2 + i - 1
    <3>1. c \in 0..(SizeOf(kind) - 1) /\ c < tlv + 2 + n
      BY <2>1, <2>2, <1>1, <1>2
    <3>2. tag.mem[c] = Data(w)[i]
      BY <1>1 DEF BytesOn, w
    <3> HIDE DEF c
    <3>3. u.mem[c] = Data(w)[i]
      BY <3>1, <3>2, <1>4
    <3> QED
      BY <3>3 DEF c
  <2>4. u.mem[at] = T /\ u.mem[at + 1] = L(w[2]) /\ w[2] <= ShortMax
    BY <2>1, <1>1, <1>5, <1>7
  <2>5. TagIs(kind, u) /\ ContentOn(kind, u) = w
    BY <2>2, <2>3, <2>4, <1>1, <1>3, TlvWhole, Zenon
  <2> QED
    BY <2>5, <1>3, <1>6, <1>7 DEF Kept, w, n, tlv
<1>8. CASE tag.mem[tlv + 1] # L(n)
  <2>1. ResetOn(u) /\ kind.type # "T3T"
    BY <1>1, <1>5, <1>8 DEF ResetOn, tlv, HasTlv
  <2>2. Kept(u) /\ ContentOn(kind, u) = Empty
    BY <2>1, <1>1, <1>3, <1>5, <1>6, ResetSays DEF Vacated, tlv
  <2> QED
    BY <2>2, <1>3, <1>8 DEF w, n, tlv
<1> QED
  BY <1>7, <1>8

\* The terminator changes nothing that a reader looks at.
LEMMA TerminatorEffect ==
  ASSUME Inv, ~Idle, op.phase = "terminator", op.msg[2] <= ShortMax
  PROVE  LET p == Put(ctx.off + op.msg[2], <<Term>>, 1)
         IN /\ p.at = 1 /\ Kept(p.tag) /\ Kept(tag)
            /\ ContentOn(kind, p.tag) = ContentOn(kind, tag)
            /\ kind.type = "T5T" => ContentOn(kind, tag) = op.msg /\ ~p.tag.flag
<1> DEFINE start == ctx.off + op.msg[2]
           p == Put(start, <<Term>>, 1)
<1>1. /\ kind \in Setups /\ tag \in Shape(kind) /\ GoodCtx(ctx) /\ op.at = 0 /\ op.msg[2] \in Nat
      /\ kind.type = "T5T" => tag.mem[ctx.tlv + 1] = L(op.msg[2])
  BY OpFacts DEF StageInv, TerminatorInv
<1>2. start \in Nat
  BY <1>1 DEF GoodCtx, CtxShape
<1>3. \A i \in 1..1 : <<Term>>[i] \in Byte
  BY ByteFacts
<1> HIDE DEF start
<1>4. /\ p.at \in (op.at + 1)..1
      /\ p.tag \in Shape(kind) /\ p.tag.flag = tag.flag
      /\ \A c \in 0..(SizeOf(kind) - 1) :
           p.tag.mem[c] = IF c \in (start + op.at)..(start + p.at - 1)
                          THEN <<Term>>[c - start + 1] ELSE tag.mem[c]
  BY <1>1, <1>2, <1>3, PutFacts
<1> HIDE DEF p
<1>5. p.at = 1
  BY <1>1, <1>4
<1>6. \A c \in 0..(SizeOf(kind) - 1) : c < ctx.off + op.msg[2] => p.tag.mem[c] = tag.mem[c]
  BY <1>1, <1>2, <1>4 DEF start
<1>7. /\ Kept(p.tag) /\ ~p.tag.flag
      /\ ContentOn(kind, p.tag) = IF tag.mem[ctx.tlv + 1] = L(op.msg[2]) THEN op.msg ELSE Empty
  BY <1>4, <1>6, BehindMessage
<1>8. /\ Kept(tag)
      /\ ContentOn(kind, tag) = IF tag.mem[ctx.tlv + 1] = L(op.msg[2]) THEN op.msg ELSE Empty
  BY <1>1, BehindMessage
<1> QED
  BY <1>1, <1>5, <1>7, <1>8 DEF p, start

\* Types 3 and 4: the length, and the write flag of type 3, are changed by one command.
LEMMA AttributeReset ==
  ASSUME Inv, ~Idle, ~HasTlv(kind), NEW flag \in BOOLEAN, NEW ln \in Nat,
         flag = (kind.type = "T3T"), flag \/ ln = 0
  PROVE  LET t == PutAttribute(flag, ln).tag
         IN Kept(t) /\ ResetOn(t) /\ ContentOn(kind, t) = Vacated
<1> DEFINE t == PutAttribute(flag, ln).tag
<1>1. kind \in Setups /\ tag \in Shape(kind)
  BY OpFacts
<1>2. t = [tag EXCEPT !.flag = flag, !.ln = ln]
  BY DEF PutAttribute
<1>3. t \in Shape(kind) /\ t.flag = flag /\ t.ln = ln
  BY <1>1, <1>2 DEF Shape
<1> HIDE DEF t
<1>4. ResetOn(t)
  BY <1>3 DEF ResetOn
<1>5. Kept(t) /\ ContentOn(kind, t) = Vacated
  BY <1>1, <1>3, <1>4, ResetSays
<1> QED
  BY <1>4, <1>5 DEF t

LEMMA AttributeWhole ==
  ASSUME Inv, ~Idle, ~HasTlv(kind), op.phase = "end"
  PROVE  LET t == PutAttribute(FALSE, op.msg[2]).tag
         IN Kept(t) /\ ~t.flag /\ ContentOn(kind, t) = Writing
<1> DEFINE n == op.msg[2]
           w == op.msg
           t == PutAttribute(FALSE, n).tag
<1>1. /\ kind \in Setups /\ tag \in Shape(kind) /\ TagIs(kind, tag) /\ GoodCtx(ctx) /\ n \in Nat
      /\ n # 0 => w \in Messages
      /\ Writing = IF n = 0 THEN Empty ELSE w
      /\ ctx.off = kind.base /\ BytesOn(tag, n)
  BY OpFacts DEF StageInv, EndInv, Off
<1>2. t = [tag EXCEPT !.flag = FALSE, !.ln = n]
  BY DEF PutAttribute
<1>3. t \in Shape(kind) /\ ~t.flag /\ t.ln = n /\ t.mem = tag.mem
  BY <1>1, <1>2 DEF Shape
<1>4. n = w[2] /\ kind.base + n <= SizeOf(kind)
  BY <1>1 DEF BytesOn
<1>5. \A i \in 1..w[2] : t.mem[kind.base + i - 1] = Data(w)[i]
  BY <1>1, <1>3 DEF BytesOn
<1> HIDE DEF t, w, n
<1>6. TagIs(kind, t) /\ ContentOn(kind, t) = Writing
  <2>1. CASE n = 0
    BY <2>1, <1>1, <1>3, PlainReset
  <2>2. CASE n # 0
    <3>1. kind.base + w[2] <= SizeOf(kind) /\ t.ln = w[2] /\ w \in Messages /\ ~t.flag
      BY <2>2, <1>1, <1>3, <1>4
    <3>2. TagIs(kind, t) /\ ContentOn(kind, t) = w
      BY <3>1, <1>1, <1>3, <1>5, PlainWhole, Zenon
    <3> QED
      BY <3>2, <2>2, <1>1
  <2> QED
    BY <2>1, <2>2
<1> QED
  BY <1>3, <1>6 DEF Kept, t, n

-----------------------------------------------------------------------------
(* The steps of a write. *)

LEMMA Busy ==
  ASSUME Inv, op.phase \in {"begin", "data", "end", "terminator"}
  PROVE  ~Idle
<1>1. Idle = (op = NoOp)
  BY IdleIs DEF Inv
<1>2. op # NoOp
  BY DEF NoOp
<1> QED
  BY <1>1, <1>2, Zenon

LEMMA Stays ==
  ASSUME Inv, ~Idle
  PROVE  Kept(tag) /\ Moves(ContentOn(kind, tag))
BY OpFacts DEF Kept, Moves, Tlv

LEMMA GoesNext ==
  ASSUME Inv, ~Idle, NEW phase, NEW at, NEW c, GoodCtx(c), Goes(phase, at, c)
  PROVE  /\ op'.phase = phase /\ op'.at = at /\ op'.msg = op.msg
         /\ ctx'.off = c.off /\ ctx'.tlv = c.tlv
<1>1. /\ op' = [op EXCEPT !.phase = phase, !.at = at]
      /\ ctx' = [c EXCEPT !.cache = NoCache]
  BY DEF Goes, Fresh
<1>2. /\ op \in [msg : Called, phase : {"begin", "data", "end", "terminator"}, at : Nat,
                 cut : Nat, raw : BOOLEAN]
      /\ c \in CtxShape(Caches)
  BY OpFacts DEF GoodCtx
<1> QED
  BY <1>1, <1>2 DEF CtxShape

\* A context with another state, and for type 3 another flag.
LEMMA StateOnly ==
  ASSUME GoodCtx(ctx), NEW s \in {"INVALID", "INITIALIZED", "READWRITE"}
  PROVE  LET c == [ctx EXCEPT !.state = s]
         IN GoodCtx(c) /\ c.state = s /\ c.flag = ctx.flag /\ c.off = ctx.off /\ c.tlv = ctx.tlv
BY DEF GoodCtx, CtxShape

LEMMA Failing ==
  ASSUME Inv, ~Idle, kind' = kind, NEW t, tag' = t, Kept(t), Moves(ContentOn(kind, t)), Fails
  PROVE  WriteStep
<1> DEFINE c == [ctx EXCEPT !.state = "INVALID"]
<1>1. GoodCtx(c)
  BY OpFacts, StateOnly
<1>2. Ends(FALSE, c)
  BY DEF Fails
<1> HIDE DEF c
<1> QED
  BY <1>1, <1>2, FailStep

\* After the reset: the message, or for an empty one nothing more but for type 3.
LEMMA BeginsData ==
  ASSUME Inv, ~Idle, kind' = kind, NEW t \in Shape(kind), tag' = t, Kept(t), ResetOn(t),
         ContentOn(kind, t) = Vacated, NEW c, GoodCtx(c), c.tlv = ctx.tlv, c.off = Off,
         op.msg[2] # 0, Goes("data", 0, c)
  PROVE  WriteStep
<1>1. op'.phase = "data" /\ op'.at = 0 /\ op'.msg = op.msg /\ ctx'.off = Off /\ ctx'.tlv = ctx.tlv
  BY GoesNext
<1>2. ResetOn(tag)'
  BY <1>1 DEF ResetOn
<1>3. (ctx.off = Off)'
  BY <1>1 DEF Off
<1>4. Off + 0 <= SizeOf(kind) /\ op.msg[2] \in Nat
  <2>1. kind \in Setups /\ op.msg[2] \in Nat /\ (HasTlv(kind) => ctx.tlv = Tlv)
    BY OpFacts DEF GoodCtx
  <2>2. HasTlv(kind) => Tlv + 2 <= SizeOf(kind) /\ Tlv \in Nat
    BY <2>1, TlvFacts, Geometry DEF Tlv
  <2>3. kind.base + 0 <= SizeOf(kind) /\ kind.base \in Nat
    BY <2>1, Geometry DEF SizeOf
  <2> QED
    BY <2>1, <2>2, <2>3 DEF Off
<1>5. BytesOn(tag, 0)'
  BY <1>1, <1>4 DEF BytesOn
<1>6. DataInv'
  BY <1>1, <1>2, <1>3, <1>4, <1>5 DEF DataInv
<1>7. StageInv'
  BY <1>1, <1>6 DEF StageInv
<1>8. Moves(ContentOn(kind, t))
  BY VacatedIs DEF Moves
<1> QED
  BY <1>7, <1>8, GoStep

LEMMA TlvBegins ==
  ASSUME Inv, ShortLengths, T2TBeginWriteMessage \/ T5TBeginWriteMessage
  PROVE  WriteStep
<1> DEFINE p == Put(ctx.tlv, LenField(0), 3)
           off == ctx.tlv + 1 + LLen(op.msg[2])
           c == [ctx EXCEPT !.off = off, !.state = "INITIALIZED"]
<1>1. /\ HasTlv(kind) /\ op.phase = "begin" /\ kind' = kind /\ kind.type # "T3T"
      /\ \/ (p.fits /\ tag' = p.tag /\ p.at < 3 /\ Goes("begin", p.at, ctx))
         \/ (p.fits /\ tag' = p.tag /\ p.at = 3 /\ Begun(off))
         \/ (Fails /\ (tag' = tag \/ (p.fits /\ tag' = p.tag)))
  BY DEF T2TBeginWriteMessage, T5TBeginWriteMessage, Sends, Air, HasTlv
<1>2. ~Idle
  BY <1>1, Busy
<1>3. /\ p.at \in 1..3
      /\ p.fits => /\ Kept(p.tag) /\ p.tag \in Shape(kind) /\ ~p.tag.flag
                   /\ p.at >= 2 => ResetOn(p.tag)
                   /\ ContentOn(kind, p.tag) \in {ContentOn(kind, tag), Empty}
  BY <1>1, <1>2, BeginEffect
<1>4. /\ kind \in Setups /\ GoodCtx(ctx) /\ op.msg[2] \in Nat /\ op.msg[2] <= ShortMax
      /\ ctx.tlv \in Nat
      /\ Writing = IF op.msg[2] = 0 THEN Empty ELSE op.msg
  <2>1. /\ kind \in Setups /\ GoodCtx(ctx) /\ op.msg[2] \in Nat /\ op.msg[2] \in kind.lens
        /\ Writing = IF op.msg[2] = 0 THEN Empty ELSE op.msg
    BY <1>2, OpFacts
  <2>2. op.msg[2] \in 0..ShortMax
    BY <2>1, <1>1 DEF ShortLengths, HasTlv
  <2> QED
    BY <2>1, <2>2, NdefAssumption DEF GoodCtx, CtxShape
<1>5. off = ctx.tlv + 2 /\ off = Off
  BY <1>1, <1>4, NdefAssumption DEF LLen, Off
<1> HIDE DEF off
<1>6. GoodCtx(c) /\ c.tlv = ctx.tlv /\ c.off = Off /\ c.state = "INITIALIZED" /\ c.flag = ctx.flag
  <2>1. off \in Nat /\ ctx \in CtxShape(Caches)
    BY <1>4, <1>5 DEF GoodCtx
  <2>2. /\ c \in CtxShape(Caches) /\ c.tlv = ctx.tlv /\ c.off = off
        /\ c.state = "INITIALIZED" /\ c.flag = ctx.flag
    BY <2>1 DEF CtxShape
  <2> QED
    BY <2>2, <1>1, <1>4, <1>5 DEF GoodCtx
<1>7. Begun(off) => IF op.msg[2] # 0 THEN Goes("data", 0, c) ELSE Ends(TRUE, c)
  BY <1>1 DEF Begun
<1>8. ~ctx.flag
  BY <1>1, <1>4 DEF GoodCtx
<1> HIDE DEF p, c
<1>9. p.fits => Moves(ContentOn(kind, p.tag))
  BY <1>3 DEF Moves, Vacant
<1>10. CASE p.fits /\ tag' = p.tag /\ p.at < 3 /\ Goes("begin", p.at, ctx)
  <2>1. op'.phase = "begin" /\ op'.at = p.at /\ ctx'.tlv = ctx.tlv
    BY <1>2, <1>4, <1>10, GoesNext
  <2>2. p.at = 2 => ResetOn(tag)'
    BY <2>1, <1>1, <1>3, <1>10 DEF ResetOn
  <2>3. BeginInv'
    BY <2>1, <2>2, <1>1, <1>3, <1>10 DEF BeginInv
  <2>4. StageInv'
    BY <2>1, <2>3 DEF StageInv
  <2>5. p.at \in Nat
    BY <1>3
  <2> QED
    BY <2>4, <2>5, <1>1, <1>2, <1>3, <1>4, <1>9, <1>10, GoStep
<1>11. CASE p.fits /\ tag' = p.tag /\ p.at = 3 /\ Begun(off)
  <2>1. ResetOn(p.tag) /\ Kept(p.tag) /\ p.tag \in Shape(kind)
    BY <1>3, <1>11
  <2>2. ContentOn(kind, p.tag) = Vacated /\ Vacated = Empty
    <3>1. p.tag.mem[TlvOf(kind, p.tag.mem) + 1] = L(0) /\ p.tag.mem[TlvOf(kind, p.tag.mem)] = T
      BY <2>1, <1>1, <1>4 DEF ResetOn, Kept, GoodCtx, TagIs
    <3>2. ContentOn(kind, p.tag) = Empty
      BY <2>1, <3>1, <1>1, <1>3, <1>4, <1>11, TlvReset
    <3> QED
      BY <3>2, <1>1 DEF Vacated
  <2>3. CASE op.msg[2] # 0
    BY <2>1, <2>2, <2>3, <1>1, <1>2, <1>6, <1>7, <1>11, BeginsData
  <2>4. CASE op.msg[2] = 0
    <3>1. Ends(TRUE, c) /\ ContentOn(kind, p.tag) = Writing /\ ~c.flag /\ ~p.tag.flag
      BY <2>2, <2>4, <1>3, <1>4, <1>6, <1>7, <1>8, <1>11
    <3> QED
      BY <3>1, <2>1, <2>4, <1>1, <1>2, <1>6, <1>9, <1>11, DoneStep
  <2> QED
    BY <2>3, <2>4
<1>12. CASE Fails /\ (tag' = tag \/ (p.fits /\ tag' = p.tag))
  BY <1>1, <1>2, <1>3, <1>9, <1>12, Stays, Failing
<1> QED
  BY <1>1, <1>10, <1>11, <1>12

LEMMA T3TBegins ==
  ASSUME Inv, T3TBeginWriteMessage
  PROVE  WriteStep
<1> DEFINE p == PutAttribute(TRUE, ctx.ln)
           n == op.msg[2]
           c == [ctx EXCEPT !.state = "INITIALIZED", !.flag = TRUE]
           d == [ctx EXCEPT !.state = "INVALID", !.flag = TRUE]
<1>1. /\ ~HasTlv(kind) /\ op.phase = "begin" /\ kind' = kind /\ kind.type = "T3T"
      /\ \/ (tag' = p.tag /\ Goes(IF n = 0 THEN "end" ELSE "data", 0, c))
         \/ (Ends(FALSE, d) /\ (tag' = tag \/ tag' = p.tag))
  <2>1. /\ op.phase = "begin" /\ kind' = kind /\ kind.type = "T3T"
        /\ \/ (p.fits /\ tag' = p.tag /\ p.at < 1 /\ Goes("begin", p.at, ctx))
           \/ (p.fits /\ tag' = p.tag /\ p.at = 1 /\ Goes(IF n = 0 THEN "end" ELSE "data", 0, c))
           \/ (Ends(FALSE, d) /\ (tag' = tag \/ (p.fits /\ tag' = p.tag)))
    BY DEF T3TBeginWriteMessage, Sends, Air
  <2>2. p.at = 1 /\ ~(p.at < 1)
    BY DEF PutAttribute
  <2> HIDE DEF p, c, d
  <2> QED
    BY <2>1, <2>2 DEF HasTlv
<1>2. ~Idle
  BY <1>1, Busy
<1>3. kind \in Setups /\ GoodCtx(ctx) /\ n \in Nat /\ ctx.off = kind.base /\ ctx.ln \in Nat
  BY <1>1, <1>2, OpFacts DEF GoodCtx, CtxShape
<1>4. Kept(p.tag) /\ ResetOn(p.tag) /\ ContentOn(kind, p.tag) = Vacated
  <2>1. TRUE = (kind.type = "T3T") /\ ctx.ln \in Nat
    BY <1>1, <1>3
  <2> QED
    BY <2>1, <1>1, <1>2, AttributeReset
<1>5. p.tag \in Shape(kind)
  BY <1>4 DEF Kept, TagIs, Shape
<1>6. GoodCtx(c) /\ GoodCtx(d) /\ c.tlv = ctx.tlv /\ c.off = Off
  <2>1. ctx \in CtxShape(Caches) /\ Off = kind.base
    BY <1>1, <1>3 DEF GoodCtx, Off
  <2>2. c \in CtxShape(Caches) /\ c.tlv = ctx.tlv /\ c.off = ctx.off
    BY <2>1 DEF CtxShape
  <2>3. d \in CtxShape(Caches) /\ d.off = ctx.off
    BY <2>1 DEF CtxShape
  <2> QED
    BY <2>1, <2>2, <2>3, <1>1, <1>3 DEF GoodCtx
<1> HIDE DEF p, c, d
<1>7. Moves(ContentOn(kind, p.tag))
  BY <1>4, VacatedIs DEF Moves
<1>8. CASE tag' = p.tag /\ Goes(IF n = 0 THEN "end" ELSE "data", 0, c)
  <2>1. CASE n # 0
    BY <2>1, <1>1, <1>2, <1>4, <1>5, <1>6, <1>8, BeginsData
  <2>2. CASE n = 0
    <3>1. Goes("end", 0, c)
      BY <2>2, <1>8
    <3>2. /\ op'.phase = "end" /\ op'.at = 0 /\ op'.msg = op.msg
          /\ ctx'.off = Off /\ ctx'.tlv = ctx.tlv
      BY <3>1, <1>2, <1>6, GoesNext
    <3>3. ResetOn(tag)' /\ (ctx.off = Off)'
      BY <3>2, <1>1, <1>4, <1>8 DEF ResetOn, Off
    <3>4. BytesOn(tag, op.msg[2])'
      <4>1. kind.base + 0 <= SizeOf(kind)
        BY <1>3, Geometry DEF SizeOf
      <4>2. ctx'.off = kind.base /\ op'.msg[2] = 0
        BY <3>2, <2>2, <1>1 DEF Off
      <4> QED
        BY <4>1, <4>2, <1>1 DEF BytesOn
    <3>5. StageInv'
      BY <3>2, <3>3, <3>4, <1>1 DEF StageInv, EndInv
    <3> QED
      BY <3>1, <3>5, <1>1, <1>2, <1>4, <1>6, <1>7, <1>8, GoStep
  <2> QED
    BY <2>1, <2>2
<1>9. CASE Ends(FALSE, d) /\ (tag' = tag \/ tag' = p.tag)
  BY <1>1, <1>2, <1>4, <1>6, <1>7, <1>9, Stays, FailStep
<1> QED
  BY <1>1, <1>8, <1>9

LEMMA T4TBegins ==
  ASSUME Inv, T4TBeginWriteMessage
  PROVE  WriteStep
<1> DEFINE p == PutAttribute(FALSE, 0)
           n == op.msg[2]
           c == [ctx EXCEPT !.off = ctx.off, !.state = "INITIALIZED"]
<1>1. /\ ~HasTlv(kind) /\ op.phase = "begin" /\ kind' = kind /\ kind.type = "T4T"
      /\ \/ (tag' = p.tag /\ IF n # 0 THEN Goes("data", 0, c) ELSE Ends(TRUE, c))
         \/ (Fails /\ (tag' = tag \/ tag' = p.tag))
  <2>1. /\ op.phase = "begin" /\ kind' = kind /\ kind.type = "T4T"
        /\ \/ (p.fits /\ tag' = p.tag /\ p.at < 1 /\ Goes("begin", p.at, ctx))
           \/ (p.fits /\ tag' = p.tag /\ p.at = 1 /\ Begun(ctx.off))
           \/ (Fails /\ (tag' = tag \/ (p.fits /\ tag' = p.tag)))
    BY DEF T4TBeginWriteMessage, Sends, Air
  <2>2. p.at = 1 /\ ~(p.at < 1)
    BY DEF PutAttribute
  <2>3. Begun(ctx.off) => IF n # 0 THEN Goes("data", 0, c) ELSE Ends(TRUE, c)
    BY <2>1 DEF Begun
  <2> HIDE DEF p, c
  <2> QED
    BY <2>1, <2>2, <2>3 DEF HasTlv
<1>2. ~Idle
  BY <1>1, Busy
<1>3. /\ kind \in Setups /\ GoodCtx(ctx) /\ n \in Nat /\ ctx.off = kind.base /\ ~ctx.flag
      /\ Writing = IF n = 0 THEN Empty ELSE op.msg
  BY <1>1, <1>2, OpFacts DEF GoodCtx
<1>4. Kept(p.tag) /\ ResetOn(p.tag) /\ ContentOn(kind, p.tag) = Vacated
  <2>1. FALSE = (kind.type = "T3T")
    BY <1>1
  <2> QED
    BY <2>1, <1>1, <1>2, AttributeReset
<1>5. p.tag \in Shape(kind) /\ ~p.tag.flag
  BY <1>1, <1>4 DEF Kept, TagIs, Shape
<1>6. /\ GoodCtx(c) /\ c.tlv = ctx.tlv /\ c.off = Off /\ ~c.flag /\ c.state = "INITIALIZED"
  <2>1. ctx \in CtxShape(Caches) /\ Off = kind.base
    BY <1>1, <1>3 DEF GoodCtx, Off
  <2>2. /\ c \in CtxShape(Caches) /\ c.tlv = ctx.tlv /\ c.off = ctx.off /\ c.flag = ctx.flag
        /\ c.state = "INITIALIZED"
    BY <2>1 DEF CtxShape
  <2> QED
    BY <2>1, <2>2, <1>1, <1>3 DEF GoodCtx
<1> HIDE DEF p, c
<1>7. Moves(ContentOn(kind, p.tag)) /\ Vacated = Empty
  BY <1>1, <1>4, VacatedIs DEF Moves, Vacated
<1>8. CASE tag' = p.tag /\ IF n # 0 THEN Goes("data", 0, c) ELSE Ends(TRUE, c)
  <2>1. CASE n # 0
    BY <2>1, <1>1, <1>2, <1>4, <1>5, <1>6, <1>8, BeginsData
  <2>2. CASE n = 0
    <3>1. Ends(TRUE, c) /\ ContentOn(kind, p.tag) = Writing
      BY <2>2, <1>3, <1>4, <1>7, <1>8
    <3> QED
      BY <3>1, <2>2, <1>1, <1>2, <1>4, <1>5, <1>6, <1>7, <1>8, DoneStep
  <2> QED
    BY <2>1, <2>2
<1>9. CASE Fails /\ (tag' = tag \/ tag' = p.tag)
  BY <1>1, <1>2, <1>4, <1>7, <1>9, Stays, Failing
<1> QED
  BY <1>1, <1>8, <1>9

LEMMA WriteBytesStep ==
  ASSUME Inv, WriteBytes
  PROVE  WriteStep
<1> DEFINE n == op.msg[2]
           last == IF op.at < op.cut THEN op.cut ELSE n
           p == Put(ctx.off, Data(op.msg), last)
<1>1. /\ op.phase = "data" /\ kind' = kind
      /\ \/ (p.fits /\ tag' = p.tag /\ p.at < n /\ Goes("data", p.at, ctx))
         \/ (p.fits /\ tag' = p.tag /\ p.at = n /\ Goes("end", 0, ctx))
         \/ ((Ends(FALSE, ctx) \/ Fails) /\ (tag' = tag \/ (p.fits /\ tag' = p.tag)))
  BY DEF WriteBytes, Sends, Air
<1>2. ~Idle
  BY <1>1, Busy
<1>3. /\ kind \in Setups /\ GoodCtx(ctx) /\ n \in Nat /\ op.at \in Nat /\ op.cut \in Nat
      /\ op.cut = 0 \/ op.cut < n
      /\ op.at < n /\ ctx.off = Off
  BY <1>1, <1>2, OpFacts DEF StageInv, DataInv
<1>4. last \in Nat /\ op.at < last /\ last <= n
  BY <1>3
<1> HIDE DEF last
<1>5. /\ p.at \in (op.at + 1)..last
      /\ p.fits => /\ Kept(p.tag) /\ ResetOn(p.tag) /\ BytesOn(p.tag, p.at)
                   /\ ContentOn(kind, p.tag) = Vacated
  BY <1>1, <1>2, <1>4, DataEffect
<1> HIDE DEF p
<1>6. p.fits => Moves(ContentOn(kind, p.tag))
  BY <1>5, VacatedIs DEF Moves
<1>7. p.at \in Nat /\ p.at <= n
  BY <1>3, <1>4, <1>5
<1>8. CASE p.fits /\ tag' = p.tag /\ p.at < n /\ Goes("data", p.at, ctx)
  <2>1. /\ op'.phase = "data" /\ op'.at = p.at /\ op'.msg = op.msg
        /\ ctx'.off = ctx.off /\ ctx'.tlv = ctx.tlv
    BY <1>2, <1>3, <1>8, GoesNext
  <2>2. ResetOn(tag)' /\ (ctx.off = Off)' /\ BytesOn(tag, op.at)'
    BY <2>1, <1>1, <1>3, <1>5, <1>8 DEF ResetOn, Off, BytesOn
  <2>3. StageInv'
    BY <2>1, <2>2, <1>8 DEF StageInv, DataInv
  <2> QED
    BY <2>3, <1>1, <1>2, <1>3, <1>5, <1>6, <1>7, <1>8, GoStep
<1>9. CASE p.fits /\ tag' = p.tag /\ p.at = n /\ Goes("end", 0, ctx)
  <2>1. /\ op'.phase = "end" /\ op'.at = 0 /\ op'.msg = op.msg
        /\ ctx'.off = ctx.off /\ ctx'.tlv = ctx.tlv
    BY <1>2, <1>3, <1>9, GoesNext
  <2>2. ResetOn(tag)' /\ (ctx.off = Off)' /\ BytesOn(tag, op.msg[2])'
    BY <2>1, <1>1, <1>3, <1>5, <1>9 DEF ResetOn, Off, BytesOn
  <2>3. op'.msg[2] # 0
    BY <2>1, <1>3
  <2>4. StageInv'
    BY <2>1, <2>2, <2>3 DEF StageInv, EndInv
  <2> QED
    BY <2>4, <1>1, <1>2, <1>3, <1>5, <1>6, <1>9, GoStep
<1>10. CASE (Ends(FALSE, ctx) \/ Fails) /\ (tag' = tag \/ (p.fits /\ tag' = p.tag))
  <2>1. CASE Fails
    BY <2>1, <1>1, <1>2, <1>5, <1>6, <1>10, Stays, Failing
  <2>2. CASE Ends(FALSE, ctx)
    BY <2>2, <1>1, <1>2, <1>3, <1>5, <1>6, <1>10, Stays, FailStep
  <2> QED
    BY <2>1, <2>2, <1>10
<1> QED
  BY <1>1, <1>8, <1>9, <1>10

\* The state after a write that succeeded.
LEMMA EndStateIs ==
  ASSUME GoodCtx(ctx)
  PROVE  /\ GoodCtx(EndState) /\ EndState.flag = ctx.flag /\ EndState.off = ctx.off
         /\ EndState.tlv = ctx.tlv
         /\ EndState.state = IF op.msg[2] = 0 THEN "INITIALIZED" ELSE "READWRITE"
<1> DEFINE s == IF op.msg[2] = 0 THEN "INITIALIZED" ELSE "READWRITE"
<1>1. s \in {"INVALID", "INITIALIZED", "READWRITE"}
  OBVIOUS
<1>2. EndState = [ctx EXCEPT !.state = s]
  BY DEF EndState
<1> HIDE DEF s
<1>3. GoodCtx(EndState) /\ EndState.flag = ctx.flag /\ EndState.off = ctx.off
      /\ EndState.tlv = ctx.tlv /\ EndState.state = s
  BY <1>1, <1>2, StateOnly
<1> QED
  BY <1>3 DEF s

\* The length of a short message is written: what the next step finds.
LEMMA LengthStep ==
  ASSUME Inv, ShortLengths, HasTlv(kind), op.phase = "end", kind' = kind
  PROVE  LET f == LenField(op.msg[2])
             p == Put(ctx.tlv, f, Len(f))
         IN /\ ~Idle /\ op.msg[2] <= ShortMax
            /\ GoodCtx(ctx) /\ ~ctx.flag /\ Len(f) = 2 /\ p.at \in 1..2
            /\ p.fits => Kept(p.tag) /\ ~p.tag.flag /\ Moves(ContentOn(kind, p.tag))
            /\ p.fits /\ p.at = 2 => ContentOn(kind, p.tag) = Writing
            /\ p.fits /\ tag' = p.tag /\ p.at < 2 /\ Goes("end", p.at, ctx) => StageInv'
            /\ p.fits /\ tag' = p.tag /\ p.at = 2 /\ Goes("terminator", 0, ctx) => StageInv'
            /\ kind.type = "T2T" /\ (tag' = tag \/ (p.fits /\ tag' = p.tag))
               /\ Goes("terminator", 0, ctx) => StageInv'
<1> DEFINE n == op.msg[2]
           f == LenField(n)
           p == Put(ctx.tlv, f, Len(f))
<1>1. ~Idle
  BY Busy
<1>2. /\ kind \in Setups /\ TagIs(kind, tag) /\ tag \in Shape(kind)
      /\ GoodCtx(ctx) /\ n \in Nat /\ n \in kind.lens /\ n # 0
      /\ Writing = op.msg /\ op.msg \in Messages
      /\ ResetOn(tag) /\ ctx.off = Off /\ BytesOn(tag, n) /\ op.at \in 0..1
  BY <1>1, OpFacts DEF StageInv, EndInv
<1>3. n <= ShortMax /\ kind.type # "T3T" /\ ~ctx.flag
  <2>1. n \in 0..ShortMax
    BY <1>2 DEF ShortLengths, HasTlv
  <2> QED
    BY <2>1, <1>2 DEF HasTlv, GoodCtx
<1>4. /\ Len(f) = 2 /\ p.at \in 1..2
      /\ p.fits =>
           /\ Kept(p.tag) /\ BytesOn(p.tag, n) /\ ~p.tag.flag
           /\ p.at = 1 => ContentOn(kind, p.tag) = Vacated /\ ResetOn(p.tag)
           /\ p.at = 2 => /\ ContentOn(kind, p.tag) = op.msg
                          /\ p.tag.mem[ctx.tlv + 1] = L(n)
  BY <1>1, <1>3, LengthEffect
<1>5. ContentOn(kind, tag) \in Vacant
  BY <1>2, BehindLength, VacatedIs
<1> HIDE DEF n, f, p
<1>6. p.fits => Moves(ContentOn(kind, p.tag))
  <2>1. p.at = 1 \/ p.at = 2
    BY <1>4
  <2> QED
    BY <2>1, <1>2, <1>4, <1>5, VacatedIs DEF Moves
<1>7. ASSUME p.fits, tag' = p.tag, p.at < 2, Goes("end", p.at, ctx) PROVE StageInv'
  <2>1. /\ op'.phase = "end" /\ op'.at = p.at /\ op'.msg = op.msg
        /\ ctx'.off = ctx.off /\ ctx'.tlv = ctx.tlv
    BY <1>1, <1>2, <1>7, GoesNext
  <2>2. p.at = 1
    BY <1>4, <1>7
  <2>3. ResetOn(tag)' /\ (ctx.off = Off)' /\ BytesOn(tag, op.msg[2])'
    BY <2>1, <2>2, <1>2, <1>4, <1>7 DEF ResetOn, Off, BytesOn, n
  <2> QED
    BY <2>1, <2>2, <2>3, <1>2 DEF StageInv, EndInv, n
<1>8. ASSUME Goes("terminator", 0, ctx),
             \/ (tag' = tag /\ kind.type = "T2T")
             \/ (p.fits /\ tag' = p.tag /\ (p.at = 2 \/ kind.type = "T2T"))
      PROVE  StageInv'
  <2>1. /\ op'.phase = "terminator" /\ op'.at = 0 /\ op'.msg = op.msg
        /\ ctx'.off = ctx.off /\ ctx'.tlv = ctx.tlv
    BY <1>1, <1>2, <1>8, GoesNext
  <2>2. (ctx.off = Off)' /\ BytesOn(tag, op.msg[2])'
    BY <2>1, <1>2, <1>4, <1>8 DEF Off, BytesOn, n
  <2>3. \/ tag'.mem[ctx.tlv + 1] = L(n)
        \/ (tag'.mem[ctx.tlv + 1] = L(0) /\ kind.type = "T2T")
    <3>1. p.at = 1 \/ p.at = 2
      BY <1>4
    <3> QED
      BY <3>1, <1>2, <1>4, <1>8 DEF ResetOn
  <2>4. TerminatorInv'
    BY <2>1, <2>2, <2>3, <1>2 DEF TerminatorInv, n
  <2> QED
    BY <2>1, <2>4 DEF StageInv
<1>9. /\ p.fits => Kept(p.tag) /\ ~p.tag.flag /\ Moves(ContentOn(kind, p.tag))
      /\ p.fits /\ p.at = 2 => ContentOn(kind, p.tag) = Writing
  BY <1>2, <1>4, <1>6
<1>10. /\ p.fits /\ tag' = p.tag /\ p.at = 2 /\ Goes("terminator", 0, ctx) => StageInv'
       /\ kind.type = "T2T" /\ (tag' = tag \/ (p.fits /\ tag' = p.tag))
          /\ Goes("terminator", 0, ctx) => StageInv'
  BY <1>8
<1>11. p.fits /\ tag' = p.tag /\ p.at < 2 /\ Goes("end", p.at, ctx) => StageInv'
  BY <1>7
<1> QED
  BY <1>1, <1>2, <1>3, <1>4, <1>9, <1>10, <1>11 DEF n, f, p

LEMMA T2TEnds ==
  ASSUME Inv, ShortLengths, T2TWriteRawMessageLen
  PROVE  WriteStep
<1> DEFINE f == LenField(op.msg[2])
           p == Put(ctx.tlv, f, Len(f))
<1>1. /\ HasTlv(kind) /\ kind.type = "T2T" /\ op.phase = "end" /\ kind' = kind
      /\ \/ (p.fits /\ tag' = p.tag /\ p.at < Len(f) /\ Goes("end", p.at, ctx))
         \/ (p.fits /\ tag' = p.tag /\ p.at = Len(f) /\ Ends(TRUE, EndState))
         \/ ((Goes("terminator", 0, ctx) \/ Fails) /\ (tag' = tag \/ (p.fits /\ tag' = p.tag)))
  BY DEF T2TWriteRawMessageLen, Sends, Air, HasTlv
<1>2. /\ ~Idle /\ GoodCtx(ctx) /\ ~ctx.flag /\ Len(f) = 2 /\ p.at \in 1..2
      /\ p.fits => Kept(p.tag) /\ ~p.tag.flag /\ Moves(ContentOn(kind, p.tag))
      /\ p.fits /\ p.at = 2 => ContentOn(kind, p.tag) = Writing
      /\ p.fits /\ tag' = p.tag /\ p.at < 2 /\ Goes("end", p.at, ctx) => StageInv'
      /\ kind.type = "T2T" /\ (tag' = tag \/ (p.fits /\ tag' = p.tag))
         /\ Goes("terminator", 0, ctx) => StageInv'
  BY <1>1, LengthStep
<1>3. /\ GoodCtx(EndState) /\ ~EndState.flag
      /\ EndState.state = IF op.msg[2] = 0 THEN "INITIALIZED" ELSE "READWRITE"
  BY <1>2, EndStateIs
<1> HIDE DEF p, f
<1>4. CASE p.fits /\ tag' = p.tag /\ p.at < Len(f) /\ Goes("end", p.at, ctx)
  <2>1. p.at \in Nat /\ p.at < 2
    BY <1>2, <1>4
  <2> QED
    BY <2>1, <1>1, <1>2, <1>4, GoStep
<1>5. CASE p.fits /\ tag' = p.tag /\ p.at = Len(f) /\ Ends(TRUE, EndState)
  BY <1>1, <1>2, <1>3, <1>5, DoneStep
<1>6. CASE (Goes("terminator", 0, ctx) \/ Fails) /\ (tag' = tag \/ (p.fits /\ tag' = p.tag))
  <2>1. Kept(tag') /\ Moves(ContentOn(kind, tag'))
    BY <1>2, <1>6, Stays
  <2>2. CASE Fails
    BY <2>1, <2>2, <1>1, <1>2, Failing
  <2>3. CASE Goes("terminator", 0, ctx)
    BY <2>1, <2>3, <1>1, <1>2, <1>6, GoStep
  <2> QED
    BY <2>2, <2>3, <1>6
<1> QED
  BY <1>1, <1>4, <1>5, <1>6

LEMMA T5TEnds ==
  ASSUME Inv, ShortLengths, T5TWriteRawMessageLen
  PROVE  WriteStep
<1> DEFINE f == LenField(op.msg[2])
           p == Put(ctx.tlv, f, Len(f))
<1>1. /\ HasTlv(kind) /\ op.phase = "end" /\ kind' = kind
      /\ \/ (p.fits /\ tag' = p.tag /\ p.at < Len(f) /\ Goes("end", p.at, ctx))
         \/ (p.fits /\ tag' = p.tag /\ p.at = Len(f) /\ Goes("terminator", 0, ctx))
         \/ (Fails /\ (tag' = tag \/ (p.fits /\ tag' = p.tag)))
  BY DEF T5TWriteRawMessageLen, Sends, Air, HasTlv
<1>2. /\ ~Idle /\ GoodCtx(ctx) /\ Len(f) = 2 /\ p.at \in 1..2
      /\ p.fits => Kept(p.tag) /\ Moves(ContentOn(kind, p.tag))
      /\ p.fits /\ tag' = p.tag /\ p.at < 2 /\ Goes("end", p.at, ctx) => StageInv'
      /\ p.fits /\ tag' = p.tag /\ p.at = 2 /\ Goes("terminator", 0, ctx) => StageInv'
  BY <1>1, LengthStep
<1> HIDE DEF p, f
<1>3. CASE p.fits /\ tag' = p.tag /\ p.at < Len(f) /\ Goes("end", p.at, ctx)
  <2>1. p.at \in Nat /\ p.at < 2
    BY <1>2, <1>3
  <2> QED
    BY <2>1, <1>1, <1>2, <1>3, GoStep
<1>4. CASE p.fits /\ tag' = p.tag /\ p.at = Len(f) /\ Goes("terminator", 0, ctx)
  BY <1>1, <1>2, <1>4, GoStep
<1>5. CASE Fails /\ (tag' = tag \/ (p.fits /\ tag' = p.tag))
  BY <1>1, <1>2, <1>5, Stays, Failing
<1> QED
  BY <1>1, <1>3, <1>4, <1>5

LEMMA T3TEnds ==
  ASSUME Inv, T3TEndWriteMessage
  PROVE  WriteStep
<1> DEFINE n == op.msg[2]
           p == PutAttribute(FALSE, n)
           c == [EndState EXCEPT !.flag = FALSE, !.ln = n]
           d == [[ctx EXCEPT !.flag = FALSE, !.ln = n] EXCEPT !.state = "INVALID"]
<1>1. /\ ~HasTlv(kind) /\ op.phase = "end" /\ kind' = kind
      /\ \/ (tag' = p.tag /\ Ends(TRUE, c))
         \/ (Ends(FALSE, d) /\ (tag' = tag \/ tag' = p.tag))
  <2>1. /\ op.phase = "end" /\ kind' = kind /\ kind.type = "T3T"
        /\ \/ (p.fits /\ tag' = p.tag /\ p.at < 1 /\ Goes("end", p.at, ctx))
           \/ (p.fits /\ tag' = p.tag /\ p.at = 1 /\ Ends(TRUE, c))
           \/ (Ends(FALSE, d) /\ (tag' = tag \/ (p.fits /\ tag' = p.tag)))
    BY DEF T3TEndWriteMessage, Sends, Air
  <2>2. p.at = 1 /\ ~(p.at < 1)
    BY DEF PutAttribute
  <2> HIDE DEF p, c, d
  <2> QED
    BY <2>1, <2>2 DEF HasTlv
<1>2. ~Idle
  BY <1>1, Busy
<1>3. GoodCtx(ctx) /\ n \in Nat
  BY <1>2, OpFacts
<1>4. Kept(p.tag) /\ ~p.tag.flag /\ ContentOn(kind, p.tag) = Writing
  BY <1>1, <1>2, AttributeWhole
<1>5. GoodCtx(c) /\ ~c.flag /\ c.state = IF n = 0 THEN "INITIALIZED" ELSE "READWRITE"
  <2>1. /\ EndState \in CtxShape(Caches) /\ EndState.off = kind.base
        /\ EndState.state = IF n = 0 THEN "INITIALIZED" ELSE "READWRITE"
    BY <1>1, <1>3, EndStateIs DEF GoodCtx
  <2>2. /\ c \in CtxShape(Caches) /\ ~c.flag /\ c.off = EndState.off
        /\ c.state = EndState.state
    BY <2>1, <1>3 DEF CtxShape
  <2> QED
    BY <2>1, <2>2, <1>1 DEF GoodCtx
<1>6. GoodCtx(d)
  <2>1. ctx \in CtxShape(Caches) /\ ctx.off = kind.base
    BY <1>1, <1>3 DEF GoodCtx
  <2>2. d \in CtxShape(Caches) /\ ~d.flag /\ d.off = ctx.off
    BY <2>1, <1>3 DEF CtxShape
  <2> QED
    BY <2>1, <2>2, <1>1 DEF GoodCtx
<1>7. Moves(ContentOn(kind, p.tag))
  <2>1. /\ kind \in Setups /\ TagIs(kind, tag) /\ ResetOn(tag) /\ GoodCtx(ctx)
        /\ Writing \in Messages \/ Writing = Empty
        /\ tag \in Shape(kind)
    BY <1>1, <1>2, OpFacts DEF StageInv, EndInv
  <2>2. ContentOn(kind, tag) \in Vacant
    BY <2>1, BehindLength, VacatedIs
  <2> QED
    BY <2>1, <2>2, <1>4 DEF Moves, Vacant
<1> HIDE DEF p, c, d
<1>8. CASE tag' = p.tag /\ Ends(TRUE, c)
  BY <1>1, <1>2, <1>4, <1>5, <1>7, <1>8, DoneStep
<1>9. CASE Ends(FALSE, d) /\ (tag' = tag \/ tag' = p.tag)
  BY <1>1, <1>2, <1>4, <1>6, <1>7, <1>9, Stays, FailStep
<1> QED
  BY <1>1, <1>8, <1>9

LEMMA T4TEnds ==
  ASSUME Inv, T4TWriteRawMessageLen
  PROVE  WriteStep
<1> DEFINE p == PutAttribute(FALSE, op.msg[2])
<1>1. /\ ~HasTlv(kind) /\ op.phase = "end" /\ kind' = kind /\ kind.type = "T4T"
      /\ \/ (tag' = p.tag /\ Ends(TRUE, EndState))
         \/ (Fails /\ (tag' = tag \/ tag' = p.tag))
  <2>1. /\ op.phase = "end" /\ kind' = kind /\ kind.type = "T4T"
        /\ \/ (p.fits /\ tag' = p.tag /\ p.at < 1 /\ Goes("end", p.at, ctx))
           \/ (p.fits /\ tag' = p.tag /\ p.at = 1 /\ Ends(TRUE, EndState))
           \/ (Fails /\ (tag' = tag \/ (p.fits /\ tag' = p.tag)))
    BY DEF T4TWriteRawMessageLen, Sends, Air
  <2>2. p.at = 1 /\ ~(p.at < 1)
    BY DEF PutAttribute
  <2> HIDE DEF p
  <2> QED
    BY <2>1, <2>2 DEF HasTlv
<1>2. ~Idle
  BY <1>1, Busy
<1>3. GoodCtx(ctx) /\ ~ctx.flag
  BY <1>1, <1>2, OpFacts DEF GoodCtx
<1>4. Kept(p.tag) /\ ~p.tag.flag /\ ContentOn(kind, p.tag) = Writing
  BY <1>1, <1>2, AttributeWhole
<1>5. /\ GoodCtx(EndState) /\ ~EndState.flag
      /\ EndState.state = IF op.msg[2] = 0 THEN "INITIALIZED" ELSE "READWRITE"
  BY <1>3, EndStateIs
<1>6. Moves(ContentOn(kind, p.tag))
  <2>1. /\ kind \in Setups /\ TagIs(kind, tag) /\ ResetOn(tag) /\ GoodCtx(ctx)
        /\ Writing \in Messages \/ Writing = Empty
        /\ tag \in Shape(kind)
    BY <1>1, <1>2, OpFacts DEF StageInv, EndInv
  <2>2. ContentOn(kind, tag) \in Vacant
    BY <2>1, BehindLength, VacatedIs
  <2> QED
    BY <2>1, <2>2, <1>4 DEF Moves, Vacant
<1> HIDE DEF p
<1>7. CASE tag' = p.tag /\ Ends(TRUE, EndState)
  BY <1>1, <1>2, <1>4, <1>5, <1>6, <1>7, DoneStep
<1>8. CASE Fails /\ (tag' = tag \/ tag' = p.tag)
  BY <1>1, <1>2, <1>4, <1>6, <1>8, Stays, Failing
<1> QED
  BY <1>1, <1>7, <1>8

LEMMA Terminators ==
  ASSUME Inv, ShortLengths, T2TTerminator \/ T5TTerminator
  PROVE  WriteStep
<1> DEFINE p == Put(ctx.off + op.msg[2], <<Term>>, 1)
<1>1. /\ op.phase = "terminator" /\ kind' = kind /\ HasTlv(kind)
      /\ \/ (p.fits /\ tag' = p.tag /\ p.at < 1 /\ Goes("terminator", p.at, ctx))
         \/ (p.fits /\ tag' = p.tag /\ p.at = 1 /\ kind.type = "T5T" /\ Ends(TRUE, EndState))
         \/ (Fails /\ (tag' = tag \/ (p.fits /\ tag' = p.tag)))
  BY DEF T2TTerminator, T5TTerminator, Sends, Air, HasTlv
<1>2. ~Idle
  BY <1>1, Busy
<1>3. /\ GoodCtx(ctx) /\ ~ctx.flag /\ op.msg[2] <= ShortMax
      /\ op.msg[2] # 0 /\ Writing = op.msg
  <2>1. kind \in Setups /\ GoodCtx(ctx) /\ op.msg[2] \in kind.lens /\ op.msg[2] # 0
    BY <1>1, <1>2, OpFacts DEF StageInv, TerminatorInv
  <2>2. op.msg[2] \in 0..ShortMax
    BY <2>1, <1>1 DEF ShortLengths, HasTlv
  <2> QED
    BY <2>1, <2>2, <1>1, <1>2, OpFacts, NdefAssumption DEF GoodCtx, HasTlv
<1>4. /\ p.at = 1 /\ Kept(p.tag) /\ Kept(tag)
      /\ ContentOn(kind, p.tag) = ContentOn(kind, tag)
      /\ kind.type = "T5T" => ContentOn(kind, tag) = op.msg /\ ~p.tag.flag
  BY <1>1, <1>2, <1>3, TerminatorEffect
<1>5. /\ GoodCtx(EndState) /\ ~EndState.flag
      /\ EndState.state = IF op.msg[2] = 0 THEN "INITIALIZED" ELSE "READWRITE"
  BY <1>3, EndStateIs
<1> HIDE DEF p
<1>6. Moves(ContentOn(kind, p.tag))
  BY <1>4 DEF Moves
<1>7. CASE p.fits /\ tag' = p.tag /\ p.at = 1 /\ kind.type = "T5T" /\ Ends(TRUE, EndState)
  BY <1>1, <1>2, <1>3, <1>4, <1>5, <1>6, <1>7, DoneStep
<1>8. CASE Fails /\ (tag' = tag \/ (p.fits /\ tag' = p.tag))
  BY <1>1, <1>2, <1>4, <1>6, <1>8, Stays, Failing
<1>9. ~(p.at < 1)
  BY <1>4
<1> QED
  BY <1>1, <1>7, <1>8, <1>9, Zenon

\* Every command of a write, answered or not.
LEMMA WriteStepsAre ==
  ASSUME Inv, ShortLengths, WriteSteps
  PROVE  WriteStep /\ ~Idle
<1>1. WriteStep
  BY TlvBegins, T3TBegins, T4TBegins, WriteBytesStep, T2TEnds, T3TEnds, T4TEnds, T5TEnds,
     Terminators DEF WriteSteps
<1>2. op.phase \in {"begin", "data", "end", "terminator"}
  BY DEF WriteSteps, T2TBeginWriteMessage, T3TBeginWriteMessage, T4TBeginWriteMessage,
         T5TBeginWriteMessage, WriteBytes, T2TWriteRawMessageLen, T3TEndWriteMessage,
         T4TWriteRawMessageLen, T5TWriteRawMessageLen, T2TTerminator, T5TTerminator, Sends
<1> QED
  BY <1>1, <1>2, Busy

-----------------------------------------------------------------------------
(* The cache.  That several reads keep it true is an induction on their    *)
(* number, by the least number of reads after which it would not be.       *)

LEMMA Least ==
  ASSUME NEW S, S \subseteq Nat, S # {}
  PROVE  \E n \in S : \A m \in S : n <= m
<1>1. IsWellFoundedOn(OpToRel(<, Nat), Nat)
  BY NatLessThanWellFounded
<1>2. \E x \in S : \A y \in S : ~(<<y, x>> \in OpToRel(<, Nat))
  BY <1>1, WFMin
<1>3. \A x, y \in Nat : y < x => <<y, x>> \in OpToRel(<, Nat)
  BY DEF OpToRel
<1>4. \E x \in S : \A y \in S : ~(y < x)
  BY <1>2, <1>3, Zenon
<1> QED
  BY <1>4

LEMMA IntDivMod ==
  ASSUME NEW a \in Int, NEW b \in Nat \ {0}
  PROVE  a % b \in Int /\ a \div b \in Int
OBVIOUS

LEMMA ReadsAreIntegers ==
  ASSUME NEW o \in Int, NEW n \in Int, kind \in Setups
  PROVE  o - (o % kind.block) + ReadSize * ((o + n - 1 - (o - (o % kind.block))) \div ReadSize) \in Int
<1> DEFINE first == o - (o % kind.block)
           q == (o + n - 1 - first) \div ReadSize
<1>1. kind.block \in Nat \ {0} /\ ReadSize \in Nat \ {0}
  BY Geometry, NdefAssumption
<1>2. first \in Int
  BY <1>1, IntDivMod
<1> HIDE DEF first
<1>3. q \in Int
  BY <1>1, <1>2, IntDivMod
<1> HIDE DEF q
<1>4. first + ReadSize * q \in Int
  BY <1>1, <1>2, <1>3
<1> QED
  BY <1>4 DEF q, first

LEMMA CacheKept ==
  ASSUME kind \in Setups, NEW c \in Caches, NEW read \in Int \X Int
  PROVE  CacheAfter(c, read) \in Caches
<1> DEFINE o == read[1]
           n == read[2]
           first == o - (o % kind.block)
           addr == first + ReadSize * ((o + n - 1 - first) \div ReadSize)
<1>1. o \in Int /\ n \in Int
  OBVIOUS
<1>2. addr \in Int
  BY <1>1, ReadsAreIntegers
<1>3. CacheAfter(c, read) = IF InCache(c, o, n) THEN c ELSE Blocks(addr)
  BY DEF CacheAfter
<1> HIDE DEF addr
<1>4. Blocks(addr) \in Caches
  BY <1>2 DEF Caches
<1> QED
  BY <1>3, <1>4

\* The definition of CachesAfter, as a predicate of its function and its domain.
AfterReads(f, c, reads, n) ==
  f = [i \in 0..n |-> IF i = 0 THEN c ELSE CacheAfter(f[i - 1], reads[i])]

LEMMA AfterReadsExists ==
  ASSUME NEW c, NEW reads
  PROVE  \A n \in Nat : \E f : AfterReads(f, c, reads, n)
<1> DEFINE S == {n \in Nat : ~ \E f : AfterReads(f, c, reads, n)}
<1>1. CASE S = {}
  BY <1>1
<1>2. CASE S # {}
  <2>1. PICK n \in S : \A m \in S : n <= m
    <3> HIDE DEF S
    <3>1. S \subseteq Nat
      BY DEF S
    <3> QED
      BY <1>2, <3>1, Least
  <2>2. n # 0
    <3> DEFINE f == [i \in 0..0 |-> c]
    <3>1. f = [i \in 0..0 |-> IF i = 0 THEN c ELSE CacheAfter(f[i - 1], reads[i])]
      OBVIOUS
    <3>2. AfterReads(f, c, reads, 0)
      BY <3>1 DEF AfterReads
    <3> QED
      BY <3>2
  <2>3. n \in Nat /\ n - 1 \in Nat /\ ~(n <= n - 1)
    BY <2>2
  <2>4. n - 1 \notin S
    BY <2>1, <2>3
  <2>5. PICK f : AfterReads(f, c, reads, n - 1)
    BY <2>3, <2>4
  <2>6. \A i \in 0..(n - 1) : f[i] = IF i = 0 THEN c ELSE CacheAfter(f[i - 1], reads[i])
    BY <2>5 DEF AfterReads
  <2> DEFINE g == [i \in 0..n |-> IF i = n THEN CacheAfter(f[n - 1], reads[n]) ELSE f[i]]
  <2>7. \A i \in 0..(n - 1) : g[i] = f[i]
    BY <2>3
  <2>8. \A i \in 0..n : g[i] = IF i = 0 THEN c ELSE CacheAfter(g[i - 1], reads[i])
    <3> SUFFICES ASSUME NEW i \in 0..n
                 PROVE  g[i] = IF i = 0 THEN c ELSE CacheAfter(g[i - 1], reads[i])
      OBVIOUS
    <3>1. CASE i = n
      <4>1. g[i] = CacheAfter(f[n - 1], reads[n])
        BY <3>1
      <4>2. n - 1 \in 0..(n - 1)
        BY <2>3
      <4>3. g[n - 1] = f[n - 1]
        BY <4>2, <2>7
      <4> HIDE DEF g
      <4> QED
        BY <4>1, <4>3, <3>1, <2>2
    <3>2. CASE i # n
      <4>1. i \in 0..(n - 1)
        BY <3>2, <2>3
      <4>2. i # 0 => i - 1 \in 0..(n - 1)
        BY <4>1, <2>3
      <4>3. g[i] = f[i] /\ (i # 0 => g[i - 1] = f[i - 1])
        BY <4>1, <4>2, <2>7
      <4> HIDE DEF g
      <4> QED
        BY <4>1, <4>3, <2>6
    <3> QED
      BY <3>1, <3>2
  <2>9. g = [i \in 0..n |-> IF i = 0 THEN c ELSE CacheAfter(g[i - 1], reads[i])]
    <3>1. g = [i \in 0..n |-> g[i]]
      OBVIOUS
    <3> HIDE DEF g
    <3> QED
      BY <3>1, <2>8
  <2>10. AfterReads(g, c, reads, n)
    BY <2>9 DEF AfterReads
  <2> QED
    BY <2>1, <2>10
<1> QED
  BY <1>1, <1>2

LEMMA CachesKept ==
  ASSUME kind \in Setups, NEW c \in Caches, NEW reads \in Seq(Int \X Int)
  PROVE  CachesAfter(c, reads) \in Caches
<1> DEFINE last == Len(reads)
           after == CHOOSE f : AfterReads(f, c, reads, last)
<1>1. last \in Nat /\ \A i \in 1..last : reads[i] \in Int \X Int
  OBVIOUS
<1>2. AfterReads(after, c, reads, last)
  BY <1>1, AfterReadsExists
<1>3. CachesAfter(c, reads) = after[last]
  BY DEF CachesAfter, AfterReads
<1> HIDE DEF after, last
<1>4. \A i \in 0..last : after[i] = IF i = 0 THEN c ELSE CacheAfter(after[i - 1], reads[i])
  BY <1>2 DEF AfterReads
<1> DEFINE S == {i \in 0..last : after[i] \notin Caches}
<1>5. S = {}
  <2> SUFFICES ASSUME S # {} PROVE FALSE
    OBVIOUS
  <2>1. PICK i \in S : \A j \in S : i <= j
    <3>1. S \subseteq Nat
      BY <1>1
    <3> HIDE DEF S
    <3> QED
      BY <3>1, Least
  <2>2. i \in 0..last /\ after[i] \notin Caches
    BY <2>1
  <2>3. i # 0
    BY <2>2, <1>1, <1>4
  <2>4. i - 1 \in 0..last /\ i \in 1..last /\ ~(i <= i - 1)
    BY <2>2, <2>3, <1>1
  <2>5. after[i - 1] \in Caches
    BY <2>1, <2>4
  <2>6. after[i] = CacheAfter(after[i - 1], reads[i])
    BY <2>2, <2>3, <1>4
  <2> QED
    BY <2>2, <2>4, <2>5, <2>6, <1>1, CacheKept
<1>6. last \in 0..last
  BY <1>1
<1> QED
  BY <1>3, <1>5, <1>6

\* A byte in the cache is the tag's.
LEMMA SeenIs ==
  ASSUME kind \in Setups, NEW c \in Caches, NEW o \in 0..(SizeOf(kind) - 1)
  PROVE  Seen(c, o) = tag.mem[o]
<1>1. CASE ~InCache(c, o, 1)
  BY <1>1 DEF Seen
<1>2. CASE InCache(c, o, 1)
  <2>1. c.addr >= 0 /\ o >= c.addr /\ o + 1 < c.addr + ReadSize
    BY <1>2 DEF InCache
  <2>2. c # NoCache
    BY <2>1 DEF NoCache
  <2>3. PICK a \in Int : c = Blocks(a)
    BY <2>2 DEF Caches
  <2>4. c.addr = a /\ c.bytes = [i \in 1..ReadSize |-> tag.mem[(a + i - 1) % Size]]
    BY <2>3 DEF Blocks
  <2>5. ReadSize \in Nat /\ SizeOf(kind) \in Nat /\ Size = SizeOf(kind)
    BY Geometry, NdefAssumption DEF Size, SizeOf
  <2> DEFINE i == o - a + 1
  <2>6. i \in 1..ReadSize /\ a + i - 1 = o
    BY <2>1, <2>4, <2>5
  <2>7. o % Size = o
    BY <2>5
  <2>8. Seen(c, o) = c.bytes[i]
    BY <1>2, <2>4 DEF Seen
  <2> HIDE DEF i
  <2> QED
    BY <2>4, <2>6, <2>7, <2>8
<1> QED
  BY <1>1, <1>2

-----------------------------------------------------------------------------
(* The other steps. *)

LEMMA IdleFacts ==
  ASSUME Inv, Idle
  PROVE  /\ op = NoOp /\ Writing = None
         /\ kind \in Setups /\ TagIs(kind, tag) /\ tag \in Shape(kind)
         /\ ctx \in CtxShape(Caches) /\ (ctx.flag => kind.type = "T3T")
         /\ kind.type # "T3T" => ~ctx.flag /\ ~tag.flag
<1>1. op = NoOp
  BY IdleIs DEF Inv
<1>2. kind \in Setups /\ TagIs(kind, tag) /\ tag \in Shape(kind)
  BY DEF Inv, TagInv, TagIs, Shape
<1>3. ctx \in CtxShape(Caches) /\ (ctx.flag => kind.type = "T3T")
  BY DEF Inv, CtxInv, CtxShape
<1>4. kind.type # "T3T" => ~ctx.flag /\ ~tag.flag
  BY <1>2, <1>3 DEF TagIs
<1> QED
  BY <1>1, <1>2, <1>3, <1>4 DEF Writing

\* A step that leaves the tag's memory and the operation as they are.
SameTag == kind' = kind /\ tag' = tag
IdleStep == Idle /\ Idle' /\ Writing' = None

LEMMA SameCaches ==
  ASSUME kind' = kind, tag'.mem = tag.mem
  PROVE  Caches' = Caches
BY DEF Caches, Blocks, Size

LEMMA NoOpNext ==
  ASSUME Inv, Idle, op' = op
  PROVE  IdleStep /\ OpInv'
<1>1. op' = NoOp
  BY IdleFacts
<1> QED
  BY <1>1 DEF IdleStep, OpInv, Idle, NoOp, Writing

LEMMA SameTagNext ==
  ASSUME Inv, SameTag
  PROVE  /\ TagInv' /\ Caches' = Caches /\ Tlv' = Tlv /\ Found' = Found
         /\ ContentOn(kind, tag)' = ContentOn(kind, tag)
BY SameCaches DEF Inv, TagInv, SameTag, Tlv, Found

LEMMA CallsStep ==
  ASSUME Inv, Calls
  PROVE  /\ Inv' /\ SameTag /\ Idle
         /\ Writing' \in Messages \cup {Empty}
<1>1. PICK t \in Texts, n \in kind.lens :
        WriteRawMessage(<<t, n>>) \/ \E cut \in kind.cuts : ndefPollerWriteMessage(<<t, n>>, cut)
  BY DEF Calls
<1> DEFINE m == <<t, n>>
<1>2. kind \in Setups /\ kind.cuts \subseteq Nat /\ n \in Nat
  BY Geometry DEF Inv, TagInv
<1>3. \E cut \in Nat, raw \in BOOLEAN : Call(m, cut, raw) /\ (cut = 0 \/ cut < n)
  <2>1. CASE WriteRawMessage(m)
    <3>1. Call(m, 0, TRUE)
      BY <2>1 DEF WriteRawMessage, T2TWriteRawMessage, T3TWriteRawMessage, T4TWriteRawMessage,
                  T5TWriteRawMessage
    <3> QED
      BY <3>1
  <2>2. CASE \E cut \in kind.cuts : ndefPollerWriteMessage(m, cut)
    <3>1. PICK cut \in kind.cuts : ndefPollerWriteMessage(m, cut)
      BY <2>2
    <3>2. Call(m, cut, FALSE) /\ cut < n
      BY <3>1 DEF ndefPollerWriteMessage
    <3> QED
      BY <3>2, <1>2
  <2> QED
    BY <1>1, <2>1, <2>2
<1>4. PICK cut \in Nat, raw \in BOOLEAN : Call(m, cut, raw) /\ (cut = 0 \/ cut < n)
  BY <1>3
<1>5. /\ Idle /\ since \in Known /\ SameTag /\ ctx' = ctx /\ since' = since
      /\ op' = [msg |-> m, phase |-> "begin", at |-> 0, cut |-> cut, raw |-> raw]
  BY <1>4 DEF Call, Known, SameTag
<1>6. op'.msg = m /\ op'.phase = "begin" /\ op'.at = 0 /\ m # None
  BY <1>5 DEF None
<1>7. ~Idle' /\ Writing' = IF n = 0 THEN Empty ELSE m
  BY <1>6 DEF Idle, Writing
<1>8. OpInv'
  <2>1. StageInv'
    BY <1>6 DEF StageInv, BeginInv
  <2>2. op' \in [msg : Called', phase : {"begin", "data", "end", "terminator"}, at : Nat,
                 cut : Nat, raw : BOOLEAN]
    BY <1>5 DEF Called, SameTag
  <2>3. op'.cut = 0 \/ op'.cut < op'.msg[2]
    BY <1>4, <1>5
  <2> QED
    BY <2>1, <2>2, <2>3, <1>5 DEF OpInv
<1>9. TagInv' /\ CtxInv'
  BY <1>5, SameTagNext DEF Inv, CtxInv, SameTag
<1>10. DetectedInv' /\ WrittenInv'
  BY <1>7 DEF DetectedInv, WrittenInv
<1>11. n # 0 => m \in Messages
  BY <1>2, MessageFacts
<1> QED
  BY <1>5, <1>7, <1>8, <1>9, <1>10, <1>11 DEF Inv

\* A new context that says nothing of the tag.
LEMMA ForgetStep ==
  ASSUME Inv, SameTag, Idle, op' = op, ctx' \in CtxShape(Caches), ctx'.flag => kind.type = "T3T",
         since' = "nothing"
  PROVE  Inv' /\ IdleStep
<1>1. IdleStep /\ OpInv'
  BY NoOpNext
<1>2. TagInv' /\ Caches' = Caches
  BY SameTagNext
<1>3. CtxInv'
  BY <1>2 DEF CtxInv, CtxShape, Known, SameTag
<1>4. DetectedInv' /\ WrittenInv'
  BY DEF DetectedInv, WrittenInv
<1> QED
  BY <1>1, <1>2, <1>3, <1>4 DEF Inv

\* A context that says what is on the tag.
LEMMA DetectStep ==
  ASSUME Inv, SameTag, Idle, op' = op, ctx' \in CtxShape(Caches),
         ctx'.flag = tag.flag, ctx'.len = Found.len, ctx'.off = Found.off,
         ctx'.state = StateOf(Found.len), HasTlv(kind) => ctx'.tlv = Tlv,
         since' = "detected"
  PROVE  Inv' /\ IdleStep
<1>1. IdleStep /\ OpInv'
  BY NoOpNext
<1>2. TagInv' /\ Caches' = Caches /\ Tlv' = Tlv /\ Found' = Found
  BY SameTagNext
<1>3. CtxInv'
  <2>1. ctx'.flag => kind.type = "T3T"
    BY IdleFacts DEF TagIs
  <2>2. ~HasTlv(kind) => ctx'.off = kind.base
    BY DEF Found, FoundOn
  <2> QED
    BY <2>1, <2>2, <1>2 DEF CtxInv, CtxShape, Known, SameTag
<1>4. DetectedInv'
  BY <1>2 DEF DetectedInv, SameTag
<1>5. WrittenInv'
  BY DEF WrittenInv
<1> QED
  BY <1>1, <1>2, <1>3, <1>4, <1>5 DEF Inv

\* A context that differs in the cache, or in the state after a failure.
LEMMA CacheStep ==
  ASSUME Inv, SameTag, Idle, op' = op, since' = since, NEW c \in Caches,
         ctx' = [ctx EXCEPT !.cache = c]
  PROVE  Inv' /\ IdleStep
<1>1. IdleStep /\ OpInv'
  BY NoOpNext
<1>2. TagInv' /\ Caches' = Caches /\ Tlv' = Tlv /\ Found' = Found
      /\ ContentOn(kind, tag)' = ContentOn(kind, tag)
  BY SameTagNext
<1>3. ctx \in CtxShape(Caches)
  BY IdleFacts
<1>4. /\ ctx' \in CtxShape(Caches)
      /\ ctx'.tlv = ctx.tlv /\ ctx'.off = ctx.off /\ ctx'.flag = ctx.flag
      /\ ctx'.len = ctx.len /\ ctx'.state = ctx.state
  BY <1>3 DEF CtxShape
<1>5. CtxInv'
  BY <1>2, <1>4 DEF Inv, CtxInv, CtxShape, SameTag
<1>6. DetectedInv'
  BY <1>2, <1>4 DEF Inv, DetectedInv, SameTag
<1>7. WrittenInv'
  BY <1>2, <1>4 DEF Inv, WrittenInv, SameTag
<1> QED
  BY <1>1, <1>2, <1>5, <1>6, <1>7 DEF Inv

LEMMA FailedStep ==
  ASSUME Inv, SameTag, Idle, op' = op, since \in Known, since' = "failed", NEW c \in Caches,
         NEW s \in {"none", "INVALID", "INITIALIZED", "READWRITE"},
         ctx' = [[ctx EXCEPT !.cache = c] EXCEPT !.state = s]
  PROVE  Inv' /\ IdleStep
<1>1. IdleStep /\ OpInv'
  BY NoOpNext
<1>2. TagInv' /\ Caches' = Caches /\ Tlv' = Tlv
  BY SameTagNext
<1>3. ctx \in CtxShape(Caches)
  BY IdleFacts
<1>4. /\ ctx' \in CtxShape(Caches)
      /\ ctx'.tlv = ctx.tlv /\ ctx'.off = ctx.off /\ ctx'.flag = ctx.flag
  BY <1>3 DEF CtxShape
<1>5. CtxInv'
  BY <1>2, <1>4 DEF Inv, CtxInv, CtxShape, SameTag, Known
<1>6. DetectedInv' /\ WrittenInv'
  BY DEF DetectedInv, WrittenInv
<1> QED
  BY <1>1, <1>2, <1>5, <1>6 DEF Inv

\* What a detection reads through the cache is what is on the tag.
LEMMA T2TDetectStep ==
  ASSUME Inv, T2TDetect
  PROVE  Inv' /\ SameTag /\ IdleStep
<1> DEFINE c1 == CacheAfter(ctx.cache, <<kind.base - kind.block, kind.block>>)
           seen == [o \in DOMAIN tag.mem |-> Seen(c1, o)]
           tlv == TlvIn(seen)
           h == Header(seen, tlv)
           blocks == <<<<kind.base - kind.block, kind.block>>>>
           tlvs == [i \in 1..(tlv - kind.base + 2) |-> <<kind.base + i - 1, 1>>]
           length == IF h.off = tlv + 4 THEN <<<<tlv + 2, 2>>>> ELSE <<>>
           reads == blocks \o tlvs \o length
           c == [ctx EXCEPT !.state = StateOf(h.len), !.len = h.len, !.off = h.off,
                            !.tlv = tlv, !.cache = CachesAfter(@, reads)]
           d == [ctx EXCEPT !.state = "INVALID", !.cache = NoCache]
<1>1. /\ Idle /\ SameTag /\ op' = op /\ kind.type = "T2T"
      /\ \/ (ctx' = c /\ since' = "detected")
         \/ (ctx' = d /\ since' = "nothing")
  BY DEF T2TDetect, Detected, SameTag
<1>2. /\ kind \in Setups /\ TagIs(kind, tag) /\ tag \in Shape(kind) /\ ctx \in CtxShape(Caches)
      /\ ctx.flag = tag.flag /\ ~ctx.flag
  BY <1>1, IdleFacts DEF CtxShape, Shape
<1>3. ctx.cache \in Caches /\ kind.base \in Int /\ kind.block \in Int
  BY <1>2, Geometry DEF CtxShape
<1>4. seen = tag.mem
  <2>1. c1 \in Caches
    <3>1. <<kind.base - kind.block, kind.block>> \in Int \X Int
      BY <1>3
    <3> QED
      BY <3>1, <1>2, <1>3, CacheKept
  <2> HIDE DEF c1
  <2>2. tag.mem \in [0..(SizeOf(kind) - 1) -> Byte]
    BY <1>2 DEF Shape
  <2>3. \A o \in 0..(SizeOf(kind) - 1) : Seen(c1, o) = tag.mem[o]
    BY <2>1, <1>2, SeenIs
  <2> QED
    BY <2>2, <2>3
<1> HIDE DEF seen
<1>5. HasTlv(kind) /\ tlv = Tlv /\ h = Found
  BY <1>1, <1>4 DEF HasTlv, TlvIn, Tlv, TlvOf, Found, FoundOn
<1>6. tlv \in Nat /\ kind.base <= tlv
  BY <1>2, <1>5, TlvFacts DEF Tlv
<1>7. h.len \in Nat /\ h.off \in Nat
  <2>1. h.off \in {tlv + 4, tlv + 2}
    BY DEF Header
  <2> QED
    BY <2>1, <1>2, <1>5, <1>6 DEF TagIs, Found
<1> HIDE DEF tlv, h
<1>8. reads \in Seq(Int \X Int)
  <2>1. blocks \in Seq(Int \X Int)
    <3>1. <<kind.base - kind.block, kind.block>> \in Int \X Int
      BY <1>3
    <3> QED
      BY <3>1
  <2>2. tlvs \in Seq(Int \X Int)
    <3>1. tlv - kind.base + 2 \in Nat
      BY <1>3, <1>6
    <3>2. \A i \in 1..(tlv - kind.base + 2) : <<kind.base + i - 1, 1>> \in Int \X Int
      BY <1>3
    <3> QED
      BY <3>1, <3>2
  <2>3. length \in Seq(Int \X Int)
    <3>1. <<tlv + 2, 2>> \in Int \X Int
      BY <1>6
    <3> QED
      BY <3>1
  <2> HIDE DEF blocks, tlvs, length
  <2>4. blocks \o tlvs \in Seq(Int \X Int)
    BY <2>1, <2>2
  <2> QED
    BY <2>3, <2>4
<1> HIDE DEF reads
<1>9. CachesAfter(ctx.cache, reads) \in Caches
  BY <1>2, <1>3, <1>8, CachesKept
<1>10. /\ c \in CtxShape(Caches) /\ c.flag = ctx.flag /\ c.len = h.len /\ c.off = h.off
       /\ c.state = StateOf(h.len) /\ c.tlv = tlv
  BY <1>2, <1>6, <1>7, <1>9 DEF CtxShape, StateOf
<1>11. d \in CtxShape(Caches) /\ d.flag = ctx.flag
  <2>1. NoCache \in Caches
    BY DEF Caches
  <2> QED
    BY <2>1, <1>2 DEF CtxShape
<1> HIDE DEF c, d
<1>12. CASE ctx' = c /\ since' = "detected"
  BY <1>1, <1>2, <1>5, <1>10, <1>12, DetectStep
<1>13. CASE ctx' = d /\ since' = "nothing"
  BY <1>1, <1>2, <1>11, <1>13, ForgetStep
<1> QED
  BY <1>1, <1>12, <1>13

LEMMA T3TDetectStep ==
  ASSUME Inv, T3TDetect
  PROVE  Inv' /\ SameTag /\ IdleStep
<1> DEFINE c == [ctx EXCEPT !.state = StateOf(tag.ln), !.len = tag.ln,
                            !.off = kind.base, !.flag = tag.flag, !.ln = tag.ln]
           d == [ctx EXCEPT !.state = "INVALID"]
<1>1. /\ Idle /\ SameTag /\ op' = op /\ kind.type = "T3T" /\ ~HasTlv(kind)
      /\ \/ (ctx' = c /\ since' = "detected")
         \/ (ctx' = d /\ since' = "nothing")
  BY DEF T3TDetect, Detected, SameTag, HasTlv
<1>2. kind \in Setups /\ TagIs(kind, tag) /\ tag \in Shape(kind) /\ ctx \in CtxShape(Caches)
  BY <1>1, IdleFacts
<1>3. Found = [len |-> tag.ln, off |-> kind.base] /\ tag.ln \in Nat /\ kind.base \in Nat
  BY <1>1, <1>2, Geometry DEF Found, FoundOn, Shape
<1>4. /\ c \in CtxShape(Caches) /\ c.flag = tag.flag /\ c.len = tag.ln /\ c.off = kind.base
      /\ c.state = StateOf(tag.ln)
  BY <1>2, <1>3 DEF CtxShape, StateOf, Shape
<1>5. d \in CtxShape(Caches)
  BY <1>2 DEF CtxShape
<1> HIDE DEF c, d
<1>6. CASE ctx' = c /\ since' = "detected"
  BY <1>1, <1>3, <1>4, <1>6, DetectStep
<1>7. CASE ctx' = d /\ since' = "nothing"
  BY <1>1, <1>5, <1>7, ForgetStep
<1> QED
  BY <1>1, <1>6, <1>7

LEMMA T4TDetectStep ==
  ASSUME Inv, T4TDetect
  PROVE  Inv' /\ SameTag /\ IdleStep
<1> DEFINE c == [ctx EXCEPT !.state = StateOf(tag.ln), !.len = tag.ln, !.off = NLenSize]
           d == [ctx EXCEPT !.state = "INVALID"]
<1>1. /\ Idle /\ SameTag /\ op' = op /\ kind.type = "T4T" /\ ~HasTlv(kind)
      /\ \/ (ctx' = c /\ since' = "detected")
         \/ (ctx' = d /\ since' = "nothing")
  BY DEF T4TDetect, Detected, SameTag, HasTlv
<1>2. /\ kind \in Setups /\ TagIs(kind, tag) /\ tag \in Shape(kind) /\ ctx \in CtxShape(Caches)
      /\ ctx.flag = tag.flag /\ ~ctx.flag
  BY <1>1, IdleFacts DEF CtxShape, Shape
<1>3. Found = [len |-> tag.ln, off |-> kind.base] /\ tag.ln \in Nat /\ kind.base \in Nat
  BY <1>1, <1>2, Geometry DEF Found, FoundOn, Shape
<1>4. /\ c \in CtxShape(Caches) /\ c.flag = ctx.flag /\ c.len = tag.ln /\ c.off = kind.base
      /\ c.state = StateOf(tag.ln)
  BY <1>2, <1>3 DEF CtxShape, StateOf, NLenSize
<1>5. d \in CtxShape(Caches) /\ d.flag = ctx.flag
  BY <1>2 DEF CtxShape
<1> HIDE DEF c, d
<1>6. CASE ctx' = c /\ since' = "detected"
  BY <1>1, <1>2, <1>3, <1>4, <1>6, DetectStep
<1>7. CASE ctx' = d /\ since' = "nothing"
  BY <1>1, <1>2, <1>5, <1>7, ForgetStep
<1> QED
  BY <1>1, <1>6, <1>7

LEMMA T5TDetectStep ==
  ASSUME Inv, T5TDetect
  PROVE  Inv' /\ SameTag /\ IdleStep
<1> DEFINE tlv == TlvIn(tag.mem)
           h == Header(tag.mem, tlv)
           c == [ctx EXCEPT !.state = StateOf(h.len), !.len = h.len, !.off = h.off, !.tlv = tlv]
           d == [ctx EXCEPT !.state = "INVALID", !.len = 0, !.off = 0]
           e == [ctx EXCEPT !.state = "INITIALIZED", !.len = 0, !.off = kind.base]
<1>1. /\ Idle /\ SameTag /\ op' = op /\ kind.type = "T5T" /\ HasTlv(kind)
      /\ \/ (ctx' = c /\ since' = "detected")
         \/ ((ctx' = d \/ ctx' = e) /\ since' = "nothing")
  BY DEF T5TDetect, Detected, SameTag, HasTlv
<1>2. /\ kind \in Setups /\ TagIs(kind, tag) /\ tag \in Shape(kind) /\ ctx \in CtxShape(Caches)
      /\ ctx.flag = tag.flag /\ ~ctx.flag
  BY <1>1, IdleFacts DEF CtxShape, Shape
<1>3. tlv = Tlv /\ h = Found
  BY <1>1 DEF TlvIn, Tlv, TlvOf, Found, FoundOn
<1>4. tlv \in Nat /\ kind.base \in Nat
  BY <1>1, <1>2, <1>3, TlvFacts, Geometry DEF Tlv
<1>5. h.len \in Nat /\ h.off \in Nat
  <2>1. h.off \in {tlv + 4, tlv + 2}
    BY DEF Header
  <2> QED
    BY <2>1, <1>2, <1>3, <1>4 DEF TagIs, Found
<1> HIDE DEF tlv, h
<1>6. /\ c \in CtxShape(Caches) /\ c.flag = ctx.flag /\ c.len = h.len /\ c.off = h.off
      /\ c.state = StateOf(h.len) /\ c.tlv = tlv
  BY <1>2, <1>4, <1>5 DEF CtxShape, StateOf
<1>7. d \in CtxShape(Caches) /\ d.flag = ctx.flag /\ e \in CtxShape(Caches) /\ e.flag = ctx.flag
  BY <1>2, <1>4 DEF CtxShape
<1> HIDE DEF c, d, e
<1>8. CASE ctx' = c /\ since' = "detected"
  BY <1>1, <1>2, <1>3, <1>6, <1>8, DetectStep
<1>9. CASE (ctx' = d \/ ctx' = e) /\ since' = "nothing"
  BY <1>1, <1>2, <1>7, <1>9, ForgetStep
<1> QED
  BY <1>1, <1>8, <1>9

\* The bytes of the message that the tag holds are all there.
LEMMA ContentFits ==
  ASSUME NEW k \in Setups, NEW t, TagIs(k, t), ~t.flag, FoundOn(k, t).off \in Nat
  PROVE  LET h == FoundOn(k, t)
         IN \A i \in 1..h.len : h.off + i <= SizeOf(k)
<1> DEFINE h == FoundOn(k, t)
           run == Run(k, t.mem, h.off, h.len)
<1>1. h.len \in Nat /\ Parsed(run) \in Messages \cup Vacant /\ h.off \in Nat /\ SizeOf(k) \in Nat
  BY Geometry DEF TagIs, ContentOn
<1> HIDE DEF h
<1>2. DOMAIN run = 1..h.len
  BY DEF Run
<1>3. \A i \in 1..h.len : run[i] = IF h.off + i <= SizeOf(k) THEN t.mem[h.off + i - 1] ELSE Null
  BY DEF Run
<1> HIDE DEF run
<1>4. run = <<>> \/ \E m \in Messages : run = Data(m)
  BY <1>1, MessageFacts DEF Parsed
<1>5. CASE run = <<>>
  <2>1. DOMAIN run = 1..0
    BY <1>5
  <2>2. h.len = 0
    BY <2>1, <1>1, <1>2
  <2> QED
    BY <2>2, <1>1 DEF h
<1>6. CASE \E m \in Messages : run = Data(m)
  <2>1. PICK m \in Messages : run = Data(m)
    BY <1>6
  <2>2. m[1] \in Texts /\ m[2] \in Nat
    BY MessageFacts
  <2>3. \A i \in 1..m[2] : run[i] # Null
    BY <2>1, <2>2, DataFacts DEF Null
  <2>4. DOMAIN run = 1..m[2]
    BY <2>1, <2>2, DataFacts
  <2>5. \A i \in 1..h.len : run[i] # Null
    BY <2>3, <2>4, <1>2
  <2> QED
    BY <2>5, <1>3 DEF h
<1> QED
  BY <1>4, <1>5, <1>6

\* What a read returns.
ReadIsTrue ==
  told'.call = "read" /\ told'.ok /\ since = "detected" => told'.msg = ContentOn(kind, tag)

LEMMA ReadFound ==
  ASSUME Inv, Idle, since = "detected"
  PROVE  /\ ctx.off = Found.off /\ ctx.len = Found.len /\ ctx.flag = tag.flag
         /\ Found.off \in Nat /\ Found.len \in Nat
         /\ ~tag.flag => ContentOn(kind, tag) = Parsed(Run(kind, tag.mem, ctx.off, ctx.len))
<1>1. ctx.off = Found.off /\ ctx.len = Found.len /\ ctx.flag = tag.flag
  BY DEF Inv, DetectedInv
<1>2. ctx \in CtxShape(Caches)
  BY IdleFacts
<1>3. Found.off \in Nat /\ Found.len \in Nat
  BY <1>1, <1>2 DEF CtxShape
<1>4. ~tag.flag => ContentOn(kind, tag) = Parsed(Run(kind, tag.mem, ctx.off, ctx.len))
  BY <1>1 DEF ContentOn, Found
<1> QED
  BY <1>1, <1>3, <1>4

LEMMA SliceIs ==
  ASSUME kind \in Setups
  PROVE  \A mem, off, n : Slice(mem, off, n) = Run(kind, mem, off, n)
BY DEF Slice, Run, Size, SizeOf

\* Nor does a read that fails leave anything false in the cache.
LEMMA CachesLeftKept ==
  ASSUME kind \in Setups, ctx.off \in Nat, ctx.len \in Nat, ctx.cache \in Caches
  PROVE  CachesLeft \subseteq Caches
<1>1. NoCache \in Caches
  BY DEF Caches
<1>2. ctx.off - (ctx.off % kind.block) \in Int
  <2>1. kind.block \in Nat \ {0}
    BY NdefAssumption
  <2> QED
    BY ONLY <2>1, ctx.off \in Nat
<1>3. Blocks(ctx.off - (ctx.off % kind.block)) \in Caches
  BY <1>2 DEF Caches
<1> QED
  BY <1>1, <1>3 DEF CachesLeft

LEMMA T2TReadStep ==
  ASSUME Inv, ReadsWhatItDetected, T2TReadRawMessage
  PROVE  Inv' /\ SameTag /\ IdleStep /\ ReadIsTrue
<1> DEFINE cached == InCache(ctx.cache, ctx.off, ctx.len)
           Read(o) == IF cached THEN Seen(ctx.cache, o) ELSE tag.mem[o]
           bytes == [i \in 1..ctx.len |-> Read(ctx.off + i - 1)]
           c == CacheAfter(ctx.cache, <<ctx.off, ctx.len>>)
<1>1. /\ Idle /\ SameTag /\ op' = op /\ kind.type = "T2T" /\ since \in kind.reads
      /\ \/ /\ ctx' = [ctx EXCEPT !.cache = c] /\ since' = since
            /\ told' = [call |-> "read", ok |-> TRUE, msg |-> Parsed(bytes)]
         \/ /\ \E d \in CachesLeft : ctx' = [[ctx EXCEPT !.cache = d] EXCEPT !.state = "INVALID"]
            /\ since' = "failed" /\ told' = [call |-> "read", ok |-> FALSE, msg |-> None]
  <2>1. T2TReadRawMessage =>
          /\ kind.type = "T2T"
          /\ \/ Reads(TRUE, bytes, [ctx EXCEPT !.cache = c])
             \/ \E d \in CachesLeft : Reads(FALSE, <<>>, [ctx EXCEPT !.cache = d])
    BY DEF T2TReadRawMessage
  <2> HIDE DEF bytes, c
  <2> QED
    BY <2>1 DEF Reads, SameTag
<1>2. /\ kind \in Setups /\ TagIs(kind, tag) /\ tag \in Shape(kind) /\ ctx \in CtxShape(Caches)
      /\ ~tag.flag
  BY <1>1, IdleFacts
<1>3. ctx.cache \in Caches /\ ctx.off \in Nat /\ ctx.len \in Nat /\ NoCache \in Caches
  BY <1>2 DEF CtxShape, Caches
<1>4. c \in Caches
  <2>1. <<ctx.off, ctx.len>> \in Int \X Int
    BY <1>3
  <2> QED
    BY <2>1, <1>2, <1>3, CacheKept
<1>5. since \in Known
  BY <1>1, <1>2 DEF ReadsWhatItDetected, Known
<1>6. since = "detected" => Parsed(bytes) = ContentOn(kind, tag)
  <2> SUFFICES ASSUME since = "detected" PROVE Parsed(bytes) = ContentOn(kind, tag)
    OBVIOUS
  <2>1. /\ ctx.off = Found.off /\ ctx.len = Found.len
        /\ ContentOn(kind, tag) = Parsed(Run(kind, tag.mem, ctx.off, ctx.len))
    BY <1>1, <1>2, ReadFound
  <2>2. \A i \in 1..ctx.len : ctx.off + i <= SizeOf(kind)
    BY <2>1, <1>2, <1>3, ContentFits DEF Found
  <2>3. \A i \in 1..ctx.len : Read(ctx.off + i - 1) = tag.mem[ctx.off + i - 1]
    <3> SUFFICES ASSUME NEW i \in 1..ctx.len
                 PROVE  Read(ctx.off + i - 1) = tag.mem[ctx.off + i - 1]
      OBVIOUS
    <3> DEFINE o == ctx.off + i - 1
    <3>1. o \in 0..(SizeOf(kind) - 1)
      <4>1. SizeOf(kind) \in Nat /\ ctx.off + i <= SizeOf(kind)
        BY <2>2, <1>2, Geometry
      <4> QED
        BY <4>1, <1>3
    <3> HIDE DEF o
    <3>2. Seen(ctx.cache, o) = tag.mem[o]
      BY <3>1, <1>2, <1>3, SeenIs
    <3> QED
      BY <3>2 DEF o
  <2>4. bytes = Run(kind, tag.mem, ctx.off, ctx.len)
    BY <2>2, <2>3 DEF Run
  <2> QED
    BY <2>1, <2>4
<1> HIDE DEF bytes, c
<1>7. CASE /\ ctx' = [ctx EXCEPT !.cache = c] /\ since' = since
           /\ told' = [call |-> "read", ok |-> TRUE, msg |-> Parsed(bytes)]
  <2>1. Inv' /\ IdleStep
    BY <1>1, <1>4, <1>7, CacheStep
  <2> QED
    BY <2>1, <1>1, <1>6, <1>7 DEF ReadIsTrue
<1>8. ASSUME NEW d \in CachesLeft, ctx' = [[ctx EXCEPT !.cache = d] EXCEPT !.state = "INVALID"],
             since' = "failed", told' = [call |-> "read", ok |-> FALSE, msg |-> None]
      PROVE  Inv' /\ SameTag /\ IdleStep /\ ReadIsTrue
  <2>1. d \in Caches
    BY <1>2, <1>3, CachesLeftKept
  <2>2. Inv' /\ IdleStep
    BY <1>1, <1>5, <1>8, <2>1, FailedStep
  <2> QED
    BY <2>2, <1>1, <1>8 DEF ReadIsTrue
<1> QED
  BY <1>1, <1>7, <1>8

\* A read past the cache, with the context as it was or with another state.
LEMMA PlainReadStep ==
  ASSUME Inv, ReadsWhatItDetected, Idle, ~ctx.flag \/ kind.type # "T3T",
         \/ Reads(TRUE, Slice(tag.mem, ctx.off, ctx.len), ctx)
         \/ Reads(FALSE, <<>>, ctx)
  PROVE  Inv' /\ SameTag /\ IdleStep /\ ReadIsTrue
<1> DEFINE bytes == Slice(tag.mem, ctx.off, ctx.len)
           s == IF kind.type = "T5T" THEN ctx.state ELSE "INVALID"
<1>1. /\ kind \in Setups /\ ctx \in CtxShape(Caches) /\ ~ctx.flag
      /\ (kind.type # "T3T" => ~tag.flag)
  BY IdleFacts
<1>2. /\ SameTag /\ op' = op /\ since \in kind.reads
      /\ \/ /\ ctx' = ctx /\ since' = since
            /\ told' = [call |-> "read", ok |-> TRUE, msg |-> Parsed(bytes)]
         \/ /\ ctx' = [ctx EXCEPT !.state = s]
            /\ since' = "failed" /\ told' = [call |-> "read", ok |-> FALSE, msg |-> None]
  BY DEF Reads, SameTag
<1>3. /\ ctx.cache \in Caches /\ ctx.cache = ctx.cache
      /\ s \in {"none", "INVALID", "INITIALIZED", "READWRITE"}
  BY <1>1 DEF CtxShape
<1>4. ctx = [ctx EXCEPT !.cache = ctx.cache]
  BY <1>1 DEF CtxShape
<1>5. since \in Known
  BY <1>1, <1>2 DEF ReadsWhatItDetected, Known
<1>6. since = "detected" => Parsed(bytes) = ContentOn(kind, tag)
  <2> SUFFICES ASSUME since = "detected" PROVE Parsed(bytes) = ContentOn(kind, tag)
    OBVIOUS
  <2>1. /\ ctx.flag = tag.flag
        /\ ~tag.flag => ContentOn(kind, tag) = Parsed(Run(kind, tag.mem, ctx.off, ctx.len))
    BY ReadFound
  <2> QED
    BY <2>1, <1>1, SliceIs
<1> HIDE DEF bytes, s
<1>7. CASE /\ ctx' = ctx /\ since' = since
           /\ told' = [call |-> "read", ok |-> TRUE, msg |-> Parsed(bytes)]
  <2>1. Inv' /\ IdleStep
    BY <1>2, <1>3, <1>4, <1>7, CacheStep
  <2> QED
    BY <2>1, <1>2, <1>6, <1>7 DEF ReadIsTrue
<1>8. CASE /\ ctx' = [ctx EXCEPT !.state = s]
           /\ since' = "failed" /\ told' = [call |-> "read", ok |-> FALSE, msg |-> None]
  <2>1. ctx' = [[ctx EXCEPT !.cache = ctx.cache] EXCEPT !.state = s]
    BY <1>4, <1>8
  <2>2. Inv' /\ IdleStep
    BY <2>1, <1>2, <1>3, <1>5, <1>8, FailedStep
  <2> QED
    BY <2>2, <1>2, <1>8 DEF ReadIsTrue
<1> QED
  BY <1>2, <1>7, <1>8

LEMMA ReadingsStep ==
  ASSUME Inv, ReadsWhatItDetected, Readings
  PROVE  Inv' /\ SameTag /\ IdleStep /\ ReadIsTrue
<1>1. CASE T2TReadRawMessage
  BY <1>1, T2TReadStep
<1>2. CASE T3TReadRawMessage \/ T4TReadRawMessage \/ T5TReadRawMessage
  <2>1. /\ ~ctx.flag \/ kind.type # "T3T"
        /\ \/ Reads(TRUE, Slice(tag.mem, ctx.off, ctx.len), ctx)
           \/ Reads(FALSE, <<>>, ctx)
    BY <1>2 DEF T3TReadRawMessage, T4TReadRawMessage, T5TReadRawMessage, T3TReadBytes,
                T4TReadBytes, T5TReadBytes
  <2>2. Idle
    BY <2>1 DEF Reads
  <2> QED
    BY <2>1, <2>2, PlainReadStep
<1> QED
  BY <1>1, <1>2 DEF Readings

LEMMA PresenceStep ==
  ASSUME Inv, T2TCheckPresence
  PROVE  Inv' /\ SameTag /\ IdleStep /\ told'.call = "presence"
<1>1. PICK c \in {Blocks(0), NoCache} :
        Idle /\ SameTag /\ op' = op /\ since' = since /\ told'.call = "presence"
        /\ ctx' = [ctx EXCEPT !.cache = c]
  BY DEF T2TCheckPresence, Answers, SameTag, Fresh
<1>2. c \in Caches
  BY <1>1 DEF Caches
<1> QED
  BY <1>1, <1>2, CacheStep

\* A formatted tag has no message.
LEMMA FormattedIs ==
  ASSUME kind \in Setups, HasTlv(kind), TagIs(kind, tag), tag \in Shape(kind)
  PROVE  /\ TagIs(kind, Formatted) /\ Formatted \in Shape(kind)
         /\ ContentOn(kind, Formatted) = Empty
<1> DEFINE S == 0..(SizeOf(kind) - 1)
           cell(i) == IF i \in kind.base..(kind.base + 3) THEN EmptyNdef[i - kind.base + 1]
                      ELSE tag.mem[i]
           mem == [i \in S |-> cell(i)]
           t == Formatted
<1>1. /\ kind.base \in Nat /\ SizeOf(kind) \in Nat /\ kind.base + 1 \in S /\ kind.base \in S
      /\ kind.type # "T3T"
  BY Geometry DEF HasTlv, SizeOf
<1>2. DOMAIN tag.mem = S /\ \A i \in S : tag.mem[i] \in Byte
  BY DEF Shape
<1>3. t = [tag EXCEPT !.mem = mem]
  BY <1>2 DEF Formatted
<1>4. \A i \in 1..4 : EmptyNdef[i] \in Byte
  BY ByteFacts DEF EmptyNdef
<1>5. mem \in [S -> Byte]
  <2>1. \A i \in S : cell(i) \in Byte
    <3> SUFFICES ASSUME NEW i \in S PROVE cell(i) \in Byte
      OBVIOUS
    <3>1. i \in kind.base..(kind.base + 3) => i - kind.base + 1 \in 1..4
      BY <1>1
    <3> QED
      BY <3>1, <1>2, <1>4
  <2> QED
    BY <2>1
<1>6. mem[kind.base] = T /\ mem[kind.base + 1] = L(0)
  <2>1. EmptyNdef[1] = T /\ EmptyNdef[2] = L(0)
    BY DEF EmptyNdef
  <2>2. /\ kind.base \in kind.base..(kind.base + 3) /\ kind.base - kind.base + 1 = 1
        /\ kind.base + 1 \in kind.base..(kind.base + 3) /\ kind.base + 1 - kind.base + 1 = 2
    BY <1>1
  <2> QED
    BY <2>1, <2>2, <1>1
<1> HIDE DEF mem
<1>7. t \in Shape(kind) /\ t.mem = mem /\ t.flag = tag.flag
  BY <1>3, <1>5 DEF Shape
<1>8. ~t.flag
  BY <1>1, <1>7 DEF TagIs
<1>9. TlvOf(kind, t.mem) = kind.base
  BY <1>6, <1>7 DEF TlvOf
<1> HIDE DEF t
<1>10. t.mem[TlvOf(kind, t.mem)] = T /\ t.mem[TlvOf(kind, t.mem) + 1] = L(0)
  BY <1>6, <1>7, <1>9
<1> QED
  BY <1>7, <1>8, <1>10, TlvReset DEF t

\* The tag is as it was, or formatted; the context says nothing of it.
FormatStep ==
  /\ Inv' /\ kind' = kind /\ IdleStep /\ told'.call = "format"
  /\ ContentOn(kind, tag') \in {ContentOn(kind, tag), Empty}

LEMMA FormatNext ==
  ASSUME Inv, NEW ok \in BOOLEAN, NEW effect, NEW c, Format(ok, effect, c),
         c \in CtxShape(Caches), c.flag => kind.type = "T3T",
         TagIs(kind, effect), ContentOn(kind, effect) \in {ContentOn(kind, tag), Empty}
  PROVE  FormatStep
<1>1. /\ Idle /\ kind' = kind /\ op' = op /\ (tag' = effect \/ tag' = tag)
      /\ ctx' = [c EXCEPT !.cache = NoCache] /\ since' = "formatted" /\ told'.call = "format"
  BY DEF Format, Air, Fresh
<1>2. kind \in Setups /\ TagIs(kind, tag)
  BY DEF Inv, TagInv
<1>3. TagInv' /\ ContentOn(kind, tag') \in {ContentOn(kind, tag), Empty}
  BY <1>1, <1>2 DEF TagInv
<1>4. IdleStep /\ OpInv'
  BY <1>1, NoOpNext
<1>5. NoCache \in Caches'
  BY DEF Caches
<1>6. ctx' \in CtxShape(Caches') /\ ctx'.flag = c.flag
  BY <1>1, <1>5 DEF CtxShape
<1>7. CtxInv'
  BY <1>1, <1>6 DEF CtxInv, CtxShape, Known
<1>8. DetectedInv' /\ WrittenInv'
  BY <1>1 DEF DetectedInv, WrittenInv
<1> QED
  BY <1>1, <1>3, <1>4, <1>7, <1>8 DEF FormatStep, Inv

LEMMA TlvFormats ==
  ASSUME Inv, T2TTagFormat \/ T5TTagFormat
  PROVE  FormatStep
<1> DEFINE reset == [ctx EXCEPT !.len = 0, !.off = 0, !.tlv = 0]
           c == [reset EXCEPT !.tlv = kind.base, !.off = kind.base + 2, !.state = "INITIALIZED"]
           d == [reset EXCEPT !.tlv = kind.base]
<1>1. HasTlv(kind) /\ Idle
  BY DEF T2TTagFormat, T5TTagFormat, Format, HasTlv
<1>2. PICK ok \in BOOLEAN, effect \in {Formatted, tag}, e \in {ctx, c, d, reset} :
        Format(ok, effect, e)
  BY DEF T2TTagFormat, T5TTagFormat
<1>3. /\ kind \in Setups /\ TagIs(kind, tag) /\ tag \in Shape(kind) /\ ctx \in CtxShape(Caches)
      /\ ~ctx.flag /\ kind.base \in Nat
  BY <1>1, IdleFacts, Geometry DEF HasTlv
<1>4. reset \in CtxShape(Caches) /\ reset.flag = ctx.flag
  BY <1>3 DEF CtxShape
<1> HIDE DEF reset
<1>5. c \in CtxShape(Caches) /\ c.flag = reset.flag /\ d \in CtxShape(Caches) /\ d.flag = reset.flag
  <2> DEFINE b == kind.base
             behind == kind.base + 2
  <2>1. b \in Nat /\ behind \in Nat
    BY <1>3
  <2> HIDE DEF b, behind
  <2>2. /\ [reset EXCEPT !.tlv = b] \in CtxShape(Caches)
        /\ [reset EXCEPT !.tlv = b].flag = reset.flag
    BY <2>1, <1>4 DEF CtxShape
  <2>3. /\ [reset EXCEPT !.tlv = b, !.off = behind, !.state = "INITIALIZED"] \in CtxShape(Caches)
        /\ [reset EXCEPT !.tlv = b, !.off = behind, !.state = "INITIALIZED"].flag = reset.flag
    BY <2>1, <1>4 DEF CtxShape
  <2> QED
    BY <2>2, <2>3 DEF b, behind
<1> HIDE DEF c, d
<1>6. e \in CtxShape(Caches) /\ (e.flag => kind.type = "T3T")
  BY <1>2, <1>3, <1>4, <1>5
<1>7. TagIs(kind, effect) /\ ContentOn(kind, effect) \in {ContentOn(kind, tag), Empty}
  BY <1>1, <1>2, <1>3, FormattedIs
<1> QED
  BY <1>2, <1>6, <1>7, FormatNext

LEMMA PlainFormats ==
  ASSUME Inv, T3TTagFormat \/ T4TTagFormat
  PROVE  FormatStep
<1> DEFINE u == [tag EXCEPT !.flag = FALSE, !.ln = 0]
           v == [tag EXCEPT !.ln = 0]
           c == [ctx EXCEPT !.state = "INITIALIZED", !.flag = FALSE, !.ln = 0]
<1>1. ~HasTlv(kind) /\ Idle
  BY DEF T3TTagFormat, T4TTagFormat, Format, HasTlv
<1>2. \E ok \in BOOLEAN : \/ (kind.type = "T3T" /\ Format(ok, u, c))
                          \/ Format(ok, tag, ctx)
                          \/ (kind.type = "T4T" /\ Format(ok, v, ctx))
  BY DEF T3TTagFormat, T4TTagFormat
<1>3. /\ kind \in Setups /\ TagIs(kind, tag) /\ tag \in Shape(kind) /\ ctx \in CtxShape(Caches)
      /\ (ctx.flag => kind.type = "T3T") /\ (kind.type # "T3T" => ~tag.flag)
  BY <1>1, IdleFacts
<1>4. /\ u \in Shape(kind) /\ ~u.flag /\ u.ln = 0
      /\ v \in Shape(kind) /\ v.flag = tag.flag /\ v.ln = 0
  BY <1>3 DEF Shape
<1>5. c \in CtxShape(Caches) /\ ~c.flag
  BY <1>3 DEF CtxShape
<1> HIDE DEF u, v, c
<1>6. TagIs(kind, u) /\ ContentOn(kind, u) = Empty
  BY <1>1, <1>3, <1>4, PlainReset
<1>7. kind.type = "T4T" => TagIs(kind, v) /\ ContentOn(kind, v) = Empty
  BY <1>1, <1>3, <1>4, PlainReset
<1>8. PICK ok \in BOOLEAN : \/ (kind.type = "T3T" /\ Format(ok, u, c))
                           \/ Format(ok, tag, ctx)
                           \/ (kind.type = "T4T" /\ Format(ok, v, ctx))
  BY <1>2
<1>9. CASE kind.type = "T3T" /\ Format(ok, u, c)
  BY <1>5, <1>6, <1>9, FormatNext
<1>10. CASE Format(ok, tag, ctx)
  BY <1>3, <1>10, FormatNext
<1>11. CASE kind.type = "T4T" /\ Format(ok, v, ctx)
  BY <1>3, <1>7, <1>11, FormatNext
<1> QED
  BY <1>8, <1>9, <1>10, <1>11

LEMMA ContextStep ==
  ASSUME Inv, ContextInitialization
  PROVE  /\ Inv' /\ kind' = kind /\ IdleStep /\ told'.call = "none"
         /\ ContentOn(kind, tag') = ContentOn(kind, tag)
<1>1. /\ Idle /\ kind' = kind /\ op' = op /\ tag' = [tag EXCEPT !.present = TRUE]
      /\ ctx' = NewContext /\ since' = "nothing" /\ told'.call = "none"
  BY DEF ContextInitialization
<1>2. kind \in Setups /\ TagIs(kind, tag) /\ tag \in Shape(kind)
  BY <1>1, IdleFacts
<1>3. tag' \in Shape(kind) /\ tag'.mem = tag.mem /\ tag'.flag = tag.flag /\ tag'.ln = tag.ln
  BY <1>1, <1>2 DEF Shape
<1>4. TagIs(kind, tag') /\ ContentOn(kind, tag') = ContentOn(kind, tag)
  BY <1>2, <1>3, SameSays
<1>5. TagInv'
  BY <1>1, <1>2, <1>4 DEF TagInv
<1>6. IdleStep /\ OpInv'
  BY <1>1, NoOpNext
<1>7. CtxInv'
  <2>1. NoCache \in Caches'
    BY DEF Caches
  <2>2. NewContext \in CtxShape(Caches') /\ ~NewContext.flag
    BY <2>1 DEF NewContext, CtxShape
  <2> QED
    BY <2>2, <1>1 DEF CtxInv, CtxShape, Known
<1>8. DetectedInv' /\ WrittenInv'
  BY <1>1 DEF DetectedInv, WrittenInv
<1> QED
  BY <1>1, <1>4, <1>5, <1>6, <1>7, <1>8 DEF Inv

\* What is on the tag stays, and nothing else changes, in the middle of a write as well.
LEMMA SameMemoryNext ==
  ASSUME Inv, kind' = kind, ctx' = ctx, op' = op, since' = since, TagIs(kind, tag'),
         tag'.mem = tag.mem, tag'.flag = tag.flag, tag'.ln = tag.ln,
         FoundOn(kind, tag') = FoundOn(kind, tag), ContentOn(kind, tag') = ContentOn(kind, tag)
  PROVE  Inv'
<1>1. /\ Caches' = Caches /\ Tlv' = Tlv /\ Found' = Found
      /\ ContentOn(kind, tag)' = ContentOn(kind, tag)
  BY SameCaches DEF Tlv, Found
<1>2. TagInv'
  BY DEF Inv, TagInv
<1>3. CtxInv'
  BY <1>1 DEF Inv, CtxInv
<1>4. DetectedInv' /\ WrittenInv'
  BY <1>1 DEF Inv, DetectedInv, WrittenInv, Idle
<1>5. OpInv'
  <2>1. ResetOn(tag)' = ResetOn(tag) /\ Off' = Off /\ \A n : BytesOn(tag, n)' = BytesOn(tag, n)
    BY DEF ResetOn, Off, BytesOn
  <2>2. BeginInv' = BeginInv /\ DataInv' = DataInv /\ EndInv' = EndInv
    BY <2>1 DEF BeginInv, DataInv, EndInv
  <2>3. TerminatorInv' = TerminatorInv
    BY <2>1 DEF TerminatorInv
  <2>4. StageInv' = StageInv /\ Called' = Called
    BY <2>2, <2>3 DEF StageInv, Called
  <2> QED
    BY <2>4 DEF Inv, OpInv
<1> QED
  BY <1>2, <1>3, <1>4, <1>5 DEF Inv

LEMMA LeavesStep ==
  ASSUME Inv, TagLeaves
  PROVE  /\ Inv' /\ kind' = kind /\ op' = op /\ told' = told
         /\ ContentOn(kind, tag') = ContentOn(kind, tag)
<1>1. /\ tag' = [tag EXCEPT !.present = FALSE]
      /\ kind' = kind /\ ctx' = ctx /\ op' = op /\ since' = since /\ told' = told
  BY DEF TagLeaves
<1>2. kind \in Setups /\ TagIs(kind, tag) /\ tag \in Shape(kind)
  BY DEF Inv, TagInv, TagIs, Shape
<1>3. tag' \in Shape(kind) /\ tag'.mem = tag.mem /\ tag'.flag = tag.flag /\ tag'.ln = tag.ln
  BY <1>1, <1>2 DEF Shape
<1>4. /\ TagIs(kind, tag') /\ ContentOn(kind, tag') = ContentOn(kind, tag)
      /\ FoundOn(kind, tag') = FoundOn(kind, tag)
  BY <1>2, <1>3, SameSays
<1> QED
  BY <1>1, <1>3, <1>4, SameMemoryNext

-----------------------------------------------------------------------------
(* The invariant of the specification. *)

LEMMA DetectionsStep ==
  ASSUME Inv, Detections
  PROVE  Inv' /\ SameTag /\ IdleStep /\ told'.call = "detect"
<1>1. Inv' /\ SameTag /\ IdleStep
  BY T2TDetectStep, T3TDetectStep, T4TDetectStep, T5TDetectStep DEF Detections
<1>2. \A ok, c : Detected(ok, c) => told'.call = "detect"
  BY DEF Detected
<1>3. told'.call = "detect"
  <2>1. CASE T2TDetect
    BY <2>1, <1>2 DEF T2TDetect
  <2>2. CASE T3TDetect
    BY <2>2, <1>2 DEF T3TDetect
  <2>3. CASE T4TDetect
    BY <2>3, <1>2 DEF T4TDetect
  <2>4. CASE T5TDetect
    BY <2>4, <1>2 DEF T5TDetect
  <2> QED
    BY <2>1, <2>2, <2>3, <2>4 DEF Detections
<1> QED
  BY <1>1, <1>3

LEMMA FormatsStep ==
  ASSUME Inv, Formats
  PROVE  FormatStep
BY TlvFormats, PlainFormats DEF Formats

LEMMA InvNext ==
  ASSUME Inv, ShortLengths, ReadsWhatItDetected, [Next]_vars
  PROVE  Inv'
<1>1. CASE ContextInitialization
  BY <1>1, ContextStep
<1>2. CASE TagLeaves
  BY <1>2, LeavesStep
<1>3. CASE Calls
  BY <1>3, CallsStep
<1>4. CASE WriteSteps
  BY <1>4, WriteStepsAre DEF WriteStep
<1>5. CASE Detections
  BY <1>5, DetectionsStep
<1>6. CASE Readings
  BY <1>6, ReadingsStep
<1>7. CASE T2TCheckPresence
  BY <1>7, PresenceStep
<1>8. CASE Formats
  BY <1>8, FormatsStep DEF FormatStep
<1>9. CASE UNCHANGED vars
  <2>1. kind' = kind /\ tag' = tag /\ ctx' = ctx /\ op' = op /\ since' = since
    BY <1>9 DEF vars
  <2>2. TagIs(kind, tag)
    BY DEF Inv, TagInv
  <2> QED
    BY <2>1, <2>2, SameMemoryNext
<1> QED
  BY <1>1, <1>2, <1>3, <1>4, <1>5, <1>6, <1>7, <1>8, <1>9 DEF Next

\* How far a write has come says what is on the tag and what the context knows of it,
\* whatever fails and whenever the tag leaves.
THEOREM Stages == ShortLengths /\ ReadsWhatItDetected => (Spec => []Inv)
<1> SUFFICES ASSUME ShortLengths, ReadsWhatItDetected PROVE Spec => []Inv
  OBVIOUS
<1>1. Inv /\ [Next]_vars => Inv'
  BY InvNext
<1> QED
  BY InitInv, <1>1, PTL DEF Spec

LEMMA ContentIs == Content = ContentOn(kind, tag)
BY DEF Content, ContentOn, HasTLV, HasTlv, TlvIn, TlvOf, FoundOn, Slice, Run, Size, SizeOf

LEMMA ContentNext ==
  ASSUME kind' = kind
  PROVE  Content' = ContentOn(kind, tag')
<1>1. (Content = ContentOn(kind, tag))'
  BY ContentIs, PTL
<1> QED
  BY <1>1

\* Nothing that the context of ndefContext_t remembers is stale when it is used: after a
\* detection or a write the state agrees with the tag, and the cache of a type 2 tag (subCtx.t2t)
\* is always that of the blocks it names.
THEOREM ContextAlwaysTrue ==
  ShortLengths /\ ReadsWhatItDetected => (Spec => []ContextIsTrue)
<1> SUFFICES ASSUME ShortLengths, ReadsWhatItDetected PROVE Spec => []ContextIsTrue
  OBVIOUS
<1>1. Inv => CacheIsTrue
  <2> SUFFICES ASSUME Inv, ctx.cache.addr >= 0 PROVE ctx.cache = Blocks(ctx.cache.addr)
    BY DEF CacheIsTrue
  <2>1. ctx.cache \in Caches
    BY DEF Inv, CtxInv
  <2>2. ctx.cache # NoCache
    BY DEF NoCache
  <2>3. PICK a \in Int : ctx.cache = Blocks(a)
    BY <2>1, <2>2 DEF Caches
  <2>4. ctx.cache.addr = a
    BY <2>3 DEF Blocks
  <2> QED
    BY <2>3, <2>4
<1>2. Inv => ContextMatchesTag
  <2> SUFFICES ASSUME Inv, Idle, since \in {"detected", "written"}
               PROVE  /\ ctx.flag = tag.flag
                      /\ ~tag.flag => (ctx.state = "READWRITE") = (Content \in Messages)
    BY DEF ContextMatchesTag
  <2>1. /\ kind \in Setups /\ TagIs(kind, tag) /\ tag \in Shape(kind) /\ ctx \in CtxShape(Caches)
        /\ ctx.flag \in BOOLEAN /\ tag.flag \in BOOLEAN
    BY IdleFacts DEF CtxShape, Shape
  <2>2. CASE since = "detected"
    <3>1. ctx.flag = tag.flag /\ ctx.state = StateOf(Found.len)
      BY <2>2 DEF Inv, DetectedInv
    <3>2. ASSUME ~tag.flag PROVE (ctx.state = "READWRITE") = (Content \in Messages)
      <4>1. (Found.len = 0) = (ContentOn(kind, tag) = Empty)
        BY <2>1, <3>2, LengthSays DEF Found
      <4>2. ContentOn(kind, tag) # Unreadable
        BY <3>2, MessageFacts DEF ContentOn, Parsed, Empty, Garbled, Unreadable
      <4>3. ContentOn(kind, tag) \in Messages \cup Vacant
        BY <2>1 DEF TagIs
      <4>4. (Found.len # 0) = (Content \in Messages)
        BY <4>1, <4>2, <4>3, MessageFacts, ContentIs DEF Vacant
      <4> QED
        BY <4>4, <3>1 DEF StateOf
    <3> QED
      BY <3>1, <3>2
  <2>3. CASE since = "written"
    BY <2>1, <2>3, ContentIs DEF Inv, WrittenInv
  <2> QED
    BY <2>2, <2>3
<1> QED
  BY Stages, <1>1, <1>2, PTL DEF ContextIsTrue

-----------------------------------------------------------------------------
(* What writing promises, and what the calls report. *)

LEMMA StoreNames ==
  /\ Store!Empty = Empty /\ Store!None = None /\ Store!Vacant = Vacant
BY DEF Store!Empty, Store!None, Store!Vacant, Empty, None, Vacant, Unreadable

\* A step of a write leaves the message, takes it away, or puts the one being written in
\* the place of none.
LEMMA WriteRefines ==
  ASSUME Inv, ~Idle, WriteStep
  PROVE  Store!Next \/ UNCHANGED Store!vars
<1>1. /\ Content = ContentOn(kind, tag) /\ Content' = ContentOn(kind, tag')
      /\ Writing' \in {Writing, None}
  BY ContentIs, ContentNext DEF WriteStep
<1>2. Writing # None
  BY OpFacts, MessageFacts DEF Empty, None
<1>3. \/ Content' = Content
      \/ Content' \in Vacant
      \/ (Content \in Vacant /\ Content' = Writing /\ Writing \in Messages)
  BY <1>1 DEF WriteStep, Moves
<1>4. CASE Content' = Content
  BY <1>1, <1>4, StoreNames DEF Store!Next, Store!Stop, Store!vars
<1>5. CASE Content' \in Vacant
  BY <1>1, <1>2, <1>5, StoreNames DEF Store!Next, Store!Reset, Store!Ends
<1>6. CASE Content \in Vacant /\ Content' = Writing /\ Writing \in Messages
  BY <1>1, <1>6, StoreNames DEF Store!Next, Store!Commit, Store!Ends
<1> QED
  BY <1>3, <1>4, <1>5, <1>6

\* Outside a write only formatting changes what the tag holds.
LEMMA IdleRefines ==
  ASSUME Inv, kind' = kind, IdleStep
  PROVE  /\ ContentOn(kind, tag') = ContentOn(kind, tag) => UNCHANGED Store!vars
         /\ ContentOn(kind, tag') = Empty => Store!Next
<1>1. Content = ContentOn(kind, tag) /\ Content' = ContentOn(kind, tag')
  BY ContentIs, ContentNext
<1>2. Writing = None /\ Writing' = None
  BY IdleFacts DEF IdleStep
<1> QED
  BY <1>1, <1>2, StoreNames DEF Store!vars, Store!Next, Store!Format

LEMMA StoreNext ==
  ASSUME Inv, ShortLengths, ReadsWhatItDetected, [Next]_vars
  PROVE  [Store!Next]_(Store!vars)
<1>1. CASE ContextInitialization
  BY <1>1, ContextStep, IdleRefines
<1>2. CASE TagLeaves
  <2>1. Content' = Content
    BY <1>2, LeavesStep, ContentIs, ContentNext
  <2>2. Writing' = Writing
    BY <1>2 DEF TagLeaves, Writing, Idle
  <2> QED
    BY <2>1, <2>2 DEF Store!vars
<1>3. CASE Calls
  <2>1. Idle /\ SameTag /\ Writing' \in Messages \cup {Empty}
    BY <1>3, CallsStep
  <2>2. Content' = Content
    BY <2>1, ContentIs, ContentNext DEF SameTag
  <2>3. Writing = None
    BY <2>1 DEF Writing
  <2> QED
    BY <2>1, <2>2, <2>3, StoreNames DEF Store!Next, Store!Write
<1>4. CASE WriteSteps
  BY <1>4, WriteStepsAre, WriteRefines
<1>5. CASE Detections \/ Readings \/ T2TCheckPresence
  <2>1. SameTag /\ IdleStep
    BY <1>5, DetectionsStep, ReadingsStep, PresenceStep
  <2>2. kind' = kind /\ ContentOn(kind, tag') = ContentOn(kind, tag)
    BY <2>1 DEF SameTag
  <2> QED
    BY <2>1, <2>2, IdleRefines
<1>6. CASE Formats
  BY <1>6, FormatsStep, IdleRefines DEF FormatStep
<1>7. CASE UNCHANGED vars
  <2>1. Content' = Content
    BY <1>7, ContentIs, ContentNext DEF vars
  <2>2. Writing' = Writing
    BY <1>7 DEF vars, Writing, Idle
  <2> QED
    BY <2>1, <2>2 DEF Store!vars
<1> QED
  BY <1>1, <1>2, <1>3, <1>4, <1>5, <1>6, <1>7 DEF Next

\* Whatever fails and whenever the tag leaves during ndefPollerWriteRawMessage or
\* ndefPollerWriteMessage, the tag holds the old message, none or the new one: the length is
\* reset before the message is touched and set when all of it is there.
THEOREM StoreImplemented ==
  ShortLengths /\ ReadsWhatItDetected => (Spec => ImplementsStore)
<1> SUFFICES ASSUME ShortLengths, ReadsWhatItDetected PROVE Spec => ImplementsStore
  OBVIOUS
<1>1. Init => Store!Init
  <2> SUFFICES ASSUME Init PROVE Store!Init
    OBVIOUS
  <2>1. Content \in Messages \cup Vacant
    BY InitInv, ContentIs DEF Inv, TagInv, TagIs
  <2>2. Writing = None
    BY DEF Init, Writing, Idle
  <2> QED
    BY <2>1, <2>2, StoreNames DEF Store!Init
<1>2. Inv /\ [Next]_vars => [Store!Next]_(Store!vars)
  BY StoreNext
<1> QED
  BY <1>1, <1>2, Stages, PTL DEF Spec, ImplementsStore, Store!Spec

LEMMA ReportsNext ==
  ASSUME Inv, ShortLengths, ReadsAfterDetection, [Next]_vars
  PROVE  /\ told' # told /\ told'.call = "read" /\ told'.ok => told'.msg = Content
         /\ ~Idle /\ Idle' /\ told'.ok => Content' = Writing
<1>1. ReadsWhatItDetected
  BY DEF ReadsAfterDetection, ReadsWhatItDetected
<1>2. CASE ContextInitialization
  BY <1>2, ContextStep DEF IdleStep
<1>3. CASE TagLeaves \/ UNCHANGED vars
  <2>1. told' = told /\ op' = op
    BY <1>3, LeavesStep DEF vars
  <2> QED
    BY <2>1 DEF Idle
<1>4. CASE Calls
  <2>1. Idle
    BY <1>4, CallsStep
  <2>2. told' = told
    BY <1>4 DEF Calls, WriteRawMessage, T2TWriteRawMessage, T3TWriteRawMessage,
                T4TWriteRawMessage, T5TWriteRawMessage, ndefPollerWriteMessage, Call
  <2> QED
    BY <2>1, <2>2
<1>5. CASE WriteSteps
  <2>1. WriteStep /\ ~Idle
    BY <1>1, <1>5, WriteStepsAre
  <2>2. Idle' /\ told'.ok => Content' = Writing
    BY <2>1, ContentNext DEF WriteStep
  <2>3. told' = told \/ told'.call = "write"
    <3>1. \A phase, at, c : Goes(phase, at, c) => told' = told
      BY DEF Goes
    <3>2. \A ok, c : Ends(ok, c) => told'.call = "write"
      BY DEF Ends
    <3> QED
      BY <3>1, <3>2, <1>5 DEF WriteSteps, T2TBeginWriteMessage, T3TBeginWriteMessage,
         T4TBeginWriteMessage, T5TBeginWriteMessage, WriteBytes, T2TWriteRawMessageLen,
         T3TEndWriteMessage, T4TWriteRawMessageLen, T5TWriteRawMessageLen, T2TTerminator,
         T5TTerminator, Sends, Fails, Begun
  <2> QED
    BY <2>1, <2>2, <2>3
<1>6. CASE Detections \/ T2TCheckPresence
  BY <1>6, DetectionsStep, PresenceStep DEF IdleStep
<1>7. CASE Readings
  <2>1. IdleStep /\ ReadIsTrue
    BY <1>1, <1>7, ReadingsStep
  <2>2. kind \in Setups /\ since \in kind.reads
    BY <1>7 DEF Inv, TagInv, Readings, T2TReadRawMessage, T3TReadRawMessage, T4TReadRawMessage,
                T5TReadRawMessage, Reads
  <2>3. since = "detected"
    BY <2>2 DEF ReadsAfterDetection
  <2> QED
    BY <2>1, <2>3, ContentIs DEF IdleStep, ReadIsTrue
<1>8. CASE Formats
  BY <1>8, FormatsStep DEF FormatStep, IdleStep
<1> QED
  BY <1>2, <1>3, <1>4, <1>5, <1>6, <1>7, <1>8 DEF Next

\* What a call reports is so: a read after a detection (ndefPollerReadRawMessage) returns what
\* the tag holds, a write that returns ERR_NONE has put the whole message there.
THEOREM ReportsAlwaysTrue ==
  ShortLengths /\ ReadsAfterDetection => (Spec => ReportsAreTrue)
<1> SUFFICES ASSUME ShortLengths, ReadsAfterDetection PROVE Spec => ReportsAreTrue
  OBVIOUS
<1>1. ReadsWhatItDetected
  BY DEF ReadsAfterDetection, ReadsWhatItDetected
<1>2. Spec => []Inv
  BY <1>1, Stages
<1>3. Inv /\ [Next]_vars =>
        [told' # told /\ told'.call = "read" /\ told'.ok => told'.msg = Content]_vars
  BY ReportsNext
<1>4. Inv /\ [Next]_vars => [~Idle /\ Idle' /\ told'.ok => Content' = Writing]_vars
  BY ReportsNext
<1> QED
  BY <1>2, <1>3, <1>4, PTL DEF Spec, ReportsAreTrue, ReadsWhatIsThere, SuccessMeansWritten
=============================================================================
