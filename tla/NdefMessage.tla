---------------------------- MODULE NdefMessage ----------------------------
(***************************************************************************)
(* NDEF messages in memory and on the wire: ndef_message.cpp,              *)
(* ndef_record.cpp and the record types of ndef_types.cpp,                 *)
(* ndef_types_rtd.cpp and ndef_types_mime.cpp.                             *)
(*                                                                         *)
(* A record is linked into its message by a pointer in the record itself   *)
(* and its header byte caches facts kept elsewhere: MB and ME say where it *)
(* stands in the list, SR how long its payload is.  A record of a text or  *)
(* a URI has no payload of its own: it points to the type object, which is *)
(* asked for its length and its bytes when the message is encoded.         *)
(* Decoded records come from one pool, from its start: a decoding begins   *)
(* with ndefMessageInit(), which resets the index of the pool.             *)
(*                                                                         *)
(* The application builds and changes a message, encodes it into a buffer   *)
(* and decodes into it what it encoded or what another device wrote; it    *)
(* may change and extend a decoded message and encode it again.  A record  *)
(* is in the message once, a type object is not changed while a record     *)
(* refers to it, and a buffer a message was decoded from is left alone:    *)
(* the code keeps pointers.                                                *)
(***************************************************************************)
EXTENDS Integers, SequencesExt, Bitwise

CONSTANTS
  AppRecords,   \* the ndefRecord variables of the application
  PoolSize,     \* NDEF_MAX_RECORD (10)
  ShortMax,     \* NDEF_SHORT_RECORD_LENGTH_MAX (255), scaled down
  TypeObjects,  \* the ndefType variables of the application
  Values,       \* what the application stores in a type object
  Raw,          \* records initialised from their fields: [tnf, type, payload]
  Ids,          \* record identifiers
  Payloads,     \* payloads set on a record later
  UriPrefix,    \* the URI prefix table, its first and last entry empty
  Foreign,      \* messages of other devices: [long, content]
  Cuts,         \* how many bytes of one may be missing at its end
  Null

VARIABLES
  records,      \* every record, of the application and of the pool
  types,        \* the type objects
  first,        \* the first record of the message
  wire,         \* the encoded message
  meant,        \* history: what was put in each record and type object
  named,        \* history: the identifier each record was given
  sent,         \* history: what was put in the records of wire
  lost          \* history: the last decoding reported success but left records out

vars == <<records, types, first, wire, meant, named, sent, lost>>

ASSUME SizesAssumption == PoolSize \in Nat /\ ShortMax \in 0..255

Pool == 1..PoolSize
Records == AppRecords \cup Pool

NDEF_RECORD_HEADER_LEN == 7
NDEF_TNF_EMPTY == 0
NDEF_TNF_RTD_WELL_KNOWN_TYPE == 1
NDEF_TNF_MEDIA_TYPE == 2
NDEF_TNF_RTD_EXTERNAL_TYPE == 4

bufRtdTypeText == <<84>>
bufRtdTypeUri == <<85>>
bufRtdTypeAar == <<97>>        \* "android.com:pkg", shortened to its first byte

NDEF_URI_PREFIX_AUTODETECT == Len(UriPrefix) - 1
Prefix(protocol) == UriPrefix[protocol + 1]
Bit(b) == IF b THEN 1 ELSE 0

-----------------------------------------------------------------------------
(* Type objects.                                                           *)

\* Mutant: the prefix is found, but not cut off.
AutodetectKeepsPrefix(string) ==
  LET hits == {i \in 0..Len(UriPrefix) - 1 : Prefix(i) # <<>> /\ IsPrefix(Prefix(i), string)}
  IN  [id |-> "uri", protocol |-> IF hits = {} THEN 0 ELSE CHOOSE i \in hits : \A j \in hits : i <= j,
       string |-> string]

\* The first prefix of the table that the string starts with is cut off.
Autodetect(string) ==
  LET hits == {i \in 0..Len(UriPrefix) - 1 : Prefix(i) # <<>> /\ IsPrefix(Prefix(i), string)}
  IN  IF hits = {} THEN [id |-> "uri", protocol |-> 0, string |-> string]
      ELSE LET i == CHOOSE i \in hits : \A j \in hits : i <= j
           IN  [id |-> "uri", protocol |-> i,
                string |-> SubSeq(string, Len(Prefix(i)) + 1, Len(string))]

NdefRtdUri(protocol, string) ==
  IF protocol = NDEF_URI_PREFIX_AUTODETECT THEN Autodetect(string)
  ELSE [id |-> "uri", protocol |-> protocol, string |-> string]

NdefRtdText(utf, language, sentence) ==
  [id |-> "text", status |-> 128 * utf + Len(language),
   language |-> language, sentence |-> sentence]

\* The other constructors keep what they are given.
NdefRtdAar(payload) == [id |-> "aar", payload |-> payload]
NdefMedia(type, payload) == [id |-> "media", type |-> type, payload |-> payload]
NdefEmptyType == [id |-> "empty"]

MakeType(v) ==
  CASE v.id = "text"  -> NdefRtdText(v.utf, v.language, v.sentence)
    [] v.id = "uri"   -> NdefRtdUri(v.protocol, v.string)
    [] v.id = "aar"   -> NdefRtdAar(v.payload)
    [] v.id = "media" -> NdefMedia(v.type, v.payload)
    [] v.id = "empty" -> NdefEmptyType

\* What the getters give back: a text with its encoding, a URI with its prefix.
NdefGetRtdText(t) == [id |-> "text", utf |-> (t.status \div 128) % 2,
                      language |-> t.language, sentence |-> t.sentence]
NdefGetRtdUri(t) == [id |-> "uri", string |-> Prefix(t.protocol) \o t.string]

GetType(t) ==
  CASE t.id = "text" -> NdefGetRtdText(t)
    [] t.id = "uri"  -> NdefGetRtdUri(t)
    [] OTHER         -> t

\* The same value as the application states it.
Meaning(v) ==
  IF v.id # "uri" THEN v
  ELSE [id |-> "uri", string |-> IF v.protocol = NDEF_URI_PREFIX_AUTODETECT THEN v.string
                                 ELSE Prefix(v.protocol) \o v.string]

\* getPayloadLength(), and the items getPayloadItem() returns one after the other.
NdefRtdTextPayloadGetLength(t) == 1 + Len(t.language) + Len(t.sentence)
NdefRtdUriPayloadGetLength(t) == 1 + Len(t.string)
NdefRtdTextToPayloadItem(t) == <<<<t.status>>, t.language, t.sentence>>
NdefRtdUriToPayloadItem(t) == <<<<t.protocol>>, t.string>>

TypePayloadLength(t) ==
  CASE t.id = "text" -> NdefRtdTextPayloadGetLength(t)
    [] t.id = "uri"  -> NdefRtdUriPayloadGetLength(t)
    [] OTHER         -> 0
TypePayloadItems(t) ==
  CASE t.id = "text" -> NdefRtdTextToPayloadItem(t)
    [] t.id = "uri"  -> NdefRtdUriToPayloadItem(t)
    [] OTHER         -> <<>>

-----------------------------------------------------------------------------
(* Records.                                                                *)

NdefRecordGetPayloadLength(r) ==
  IF r.ndeftype # Null THEN TypePayloadLength(types[r.ndeftype]) ELSE Len(r.payload)
NdefRecordPayloadEncode(r) ==
  IF r.ndeftype # Null THEN FlattenSeq(TypePayloadItems(types[r.ndeftype])) ELSE r.payload

NdefRecordGetHeaderLength(r) ==
  2 + (IF r.sr THEN 1 ELSE 4) + Bit(r.il) + Len(r.type) + Len(r.id)
NdefRecordGetLength(r) == NdefRecordGetHeaderLength(r) + NdefRecordGetPayloadLength(r)

NdefRecordReset ==
  [mb |-> FALSE, me |-> FALSE, sr |-> TRUE, il |-> FALSE, tnf |-> NDEF_TNF_EMPTY,
   type |-> <<>>, id |-> <<>>, payload |-> <<>>, ndeftype |-> Null, next |-> Null]
\* ndefHeaderSetTNF adds bits to those that are there; every caller has just reset the record.
NdefRecordSetType(r, tnf, type) == [r EXCEPT !.tnf = @ | tnf, !.type = type]
NdefRecordSetId(r, id) == [r EXCEPT !.il = TRUE, !.id = id]

\* Mutant: the longest short payload is marked as a long one.
SetPayloadStrict(r, p) == [r EXCEPT !.sr = Len(p) < ShortMax, !.payload = p]

NdefRecordSetPayload(r, p) == [r EXCEPT !.sr = Len(p) <= ShortMax, !.payload = p]
NdefRecordSetNdefType(r, t) ==
  [r EXCEPT !.ndeftype = t, !.sr = TypePayloadLength(types[t]) <= ShortMax]

NdefRecordInit(tnf, type, payload) ==
  NdefRecordSetPayload(NdefRecordSetType(NdefRecordReset, tnf, type), payload)

\* Text, URI and empty records point to the type object; the others copy it.
NdefRtdTextToRecord(t) == NdefRecordSetNdefType(
  NdefRecordSetType(NdefRecordReset, NDEF_TNF_RTD_WELL_KNOWN_TYPE, bufRtdTypeText), t)
NdefRtdUriToRecord(t) == NdefRecordSetNdefType(
  NdefRecordSetType(NdefRecordReset, NDEF_TNF_RTD_WELL_KNOWN_TYPE, bufRtdTypeUri), t)
NdefEmptyTypeToRecord(t) == NdefRecordSetNdefType(NdefRecordReset, t)
NdefRtdAarToRecord(t) ==
  NdefRecordInit(NDEF_TNF_RTD_EXTERNAL_TYPE, bufRtdTypeAar, types[t].payload)
NdefMediaToRecord(t) ==
  NdefRecordInit(NDEF_TNF_MEDIA_TYPE, types[t].type, types[t].payload)

NdefTypeToRecord(t) ==
  CASE types[t].id = "text"  -> NdefRtdTextToRecord(t)
    [] types[t].id = "uri"   -> NdefRtdUriToRecord(t)
    [] types[t].id = "empty" -> NdefEmptyTypeToRecord(t)
    [] types[t].id = "aar"   -> NdefRtdAarToRecord(t)
    [] types[t].id = "media" -> NdefMediaToRecord(t)

HeaderByte(r) == 128 * Bit(r.mb) + 64 * Bit(r.me) + 16 * Bit(r.sr) + 8 * Bit(r.il) + r.tnf

\* The payload length takes one byte or four by its value, not by the SR bit.
NdefRecordEncodeHeader(r) ==
  LET n == NdefRecordGetPayloadLength(r) IN
  <<HeaderByte(r), Len(r.type)>>
  \o (IF n <= ShortMax THEN <<n>> ELSE <<0, 0, n \div 256, n % 256>>)
  \o (IF r.il THEN <<Len(r.id)>> ELSE <<>>)

NdefRecordEncode(r) == NdefRecordEncodeHeader(r) \o r.type \o r.id \o NdefRecordPayloadEncode(r)

\* One record from the front of b, or Null if a field lies beyond its end; of a
\* four byte length the last two bytes, longer payloads than 64K are left out.
NdefRecordDecode(b) ==
  LET sr     == (b[1] \div 16) % 2 = 1
      il     == (b[1] \div 8) % 2 = 1
      idAt   == IF sr THEN 4 ELSE 7                \* the ID length, if there is one
      typeAt == idAt + Bit(il)
      Fits(n) == Len(b) >= n
  IN  IF ~Fits(typeAt - 1) THEN Null
      ELSE LET typeLength == b[2]
               idLength   == IF il THEN b[idAt] ELSE 0
               length     == IF sr THEN b[3] ELSE 256 * b[5] + b[6]
               id         == typeAt + typeLength
               payload    == id + idLength
           IN  IF ~Fits(payload + length - 1) THEN Null
               ELSE [mb |-> b[1] >= 128, me |-> (b[1] \div 64) % 2 = 1, sr |-> sr, il |-> il,
                     tnf |-> b[1] % 8, type |-> SubSeq(b, typeAt, id - 1),
                     id |-> SubSeq(b, id, payload - 1),
                     payload |-> SubSeq(b, payload, payload + length - 1),
                     ndeftype |-> Null, next |-> Null]

-----------------------------------------------------------------------------
(* A record as a type again: the one it refers to, or its fields read as one. *)

NoValue == [id |-> "none"]

NdefPayloadToRtdText(p) ==
  LET language == p[1] % 64 IN
  [id |-> "text", status |-> p[1], language |-> SubSeq(p, 2, 1 + language),
   sentence |-> SubSeq(p, 2 + language, Len(p))]
NdefPayloadToRtdUri(p) == NdefRtdUri(p[1], SubSeq(p, 2, Len(p)))

NdefRecordToEmptyType(r) ==
  IF r.id = <<>> /\ r.payload = <<>> THEN NdefEmptyType ELSE NoValue
NdefRecordToRtdText(r) ==
  IF Len(r.payload) >= 2 THEN NdefPayloadToRtdText(r.payload) ELSE NoValue
NdefRecordToRtdUri(r) ==
  IF Len(r.payload) >= 2 THEN NdefPayloadToRtdUri(r.payload) ELSE NoValue
NdefRecordToRtdAar(r) == IF r.payload # <<>> THEN NdefRtdAar(r.payload) ELSE NoValue
NdefRecordToMedia(r) ==
  IF r.type # <<>> /\ r.payload # <<>> THEN NdefMedia(r.type, r.payload) ELSE NoValue

NdefRecordTypeMatch(r, tnf, type) == r.tnf = tnf /\ r.type = type

NdefRecordToType(r) ==
  CASE r.ndeftype # Null -> types[r.ndeftype]
    [] NdefRecordTypeMatch(r, NDEF_TNF_EMPTY, <<>>) -> NdefRecordToEmptyType(r)
    [] NdefRecordTypeMatch(r, NDEF_TNF_RTD_WELL_KNOWN_TYPE, bufRtdTypeText) -> NdefRecordToRtdText(r)
    [] NdefRecordTypeMatch(r, NDEF_TNF_RTD_WELL_KNOWN_TYPE, bufRtdTypeUri) -> NdefRecordToRtdUri(r)
    [] NdefRecordTypeMatch(r, NDEF_TNF_RTD_EXTERNAL_TYPE, bufRtdTypeAar) -> NdefRecordToRtdAar(r)
    [] OTHER -> NoValue

\* The application asks for a media type by itself and reads a record of no
\* known type by its fields.
Value(r) ==
  LET t == IF r.tnf = NDEF_TNF_MEDIA_TYPE THEN NdefRecordToMedia(r) ELSE NdefRecordToType(r)
  IN  IF t # NoValue THEN t
      ELSE [id |-> "raw", tnf |-> r.tnf, type |-> r.type, payload |-> r.payload]

-----------------------------------------------------------------------------
(* Messages.                                                               *)

Chain(r) ==
  LET from[x \in Records \cup {Null}] ==
        IF x = Null THEN <<>> ELSE <<x>> \o from[records[x].next]
  IN  from[r]
Message == [i \in DOMAIN Chain(first) |-> records[Chain(first)[i]]]
InMessage(r) == Contains(Chain(first), r)
Refers(t) == \E r \in AppRecords : records[r].ndeftype = t

\* ndefMessageGetInfo(): the length is added up record by record.
MessageLength == FoldSeq(LAMBDA r, n : NdefRecordGetLength(r) + n, 0, Message)

\* Mutant: the record before the appended one stays marked as the last.
AppendKeepsEnd(recs, head, r) ==
  LET from[x \in Records \cup {Null}] ==
        IF x = Null THEN <<>> ELSE <<x>> \o from[recs[x].next]
      new  == [recs EXCEPT ![r].mb = head = Null, ![r].me = TRUE, ![r].next = Null]
  IN  IF head = Null THEN new ELSE [new EXCEPT ![Last(from[head])].next = r]

\* The list with r appended: the record before it is no longer the last.
NdefMessageAppend(recs, head, r) ==
  LET from[x \in Records \cup {Null}] ==
        IF x = Null THEN <<>> ELSE <<x>> \o from[recs[x].next]
      last == Last(from[head])
      new  == [recs EXCEPT ![r].mb = head = Null, ![r].me = TRUE, ![r].next = Null]
  IN  IF head = Null THEN new ELSE [new EXCEPT ![last].me = FALSE, ![last].next = r]

\* Each record needs its own length and always room for the longest header.
NdefMessageFits(size) ==
  LET lengths == [i \in DOMAIN Message |-> NdefRecordGetLength(Message[i])]
      Rest(i) == size - FoldSeq(+, 0, SubSeq(lengths, 1, i - 1))
  IN  \A i \in DOMAIN lengths : Rest(i) >= lengths[i] /\ Rest(i) >= NDEF_RECORD_HEADER_LEN

NdefMessageEncode ==
  FlattenSeq([i \in DOMAIN Message |-> NdefRecordEncode(Message[i])])

\* ndefMessageDecode(): records are taken from the pool and decoded until the
\* buffer is used up, the pool is empty or a record is cut off.
NdefMessageDecode(b) ==
  LET after[n \in 0..PoolSize] ==
        IF n = 0 THEN [at |-> 0, got |-> <<>>, err |-> "none"]
        ELSE LET p == after[n - 1]
                 r == NdefRecordDecode(SubSeq(b, p.at + 1, Len(b)))
             IN  IF p.err # "none" \/ p.at >= Len(b) THEN p
                 ELSE IF r = Null THEN [p EXCEPT !.err = "proto"]
                 ELSE [p EXCEPT !.at = p.at + NdefRecordGetLength(r),
                                !.got = Append(p.got, r)]
      end == after[PoolSize]
  IN  IF end.err = "none" /\ end.at < Len(b) THEN [end EXCEPT !.err = "nomem"] ELSE end

-----------------------------------------------------------------------------
(* The calls of the application.  What it has encoded it hands over, and   *)
(* what it has received it decodes, before it goes on.                     *)

Nothing == [content |-> <<>>, whole |-> FALSE]

Init ==
  /\ records = [r \in Records |-> NdefRecordReset]
  /\ types = [t \in TypeObjects |-> NoValue]
  /\ first = Null
  /\ wire = <<>>
  /\ meant = [x \in Records \cup TypeObjects |-> NoValue]
  /\ named = [r \in Records |-> <<>>]
  /\ sent = Nothing
  /\ lost = FALSE

SetValue(t, v) ==
  /\ wire = <<>>
  /\ ~Refers(t)
  /\ types' = [types EXCEPT ![t] = MakeType(v)]
  /\ meant' = [meant EXCEPT ![t] = Meaning(v)]
  /\ UNCHANGED <<records, first, wire, named, sent, lost>>

\* A record variable that is in no message becomes a record of the type.
TypeToRecord(t, r) ==
  /\ wire = <<>>
  /\ types[t] # NoValue /\ ~InMessage(r)
  /\ records' = [records EXCEPT ![r] = NdefTypeToRecord(t)]
  /\ meant' = [meant EXCEPT ![r] = meant[t]]
  /\ named' = [named EXCEPT ![r] = <<>>]
  /\ UNCHANGED <<types, first, wire, sent, lost>>

RecordInit(r, v) ==
  /\ wire = <<>>
  /\ ~InMessage(r)
  /\ records' = [records EXCEPT ![r] = NdefRecordInit(v.tnf, v.type, v.payload)]
  /\ meant' = [meant EXCEPT ![r] = v]
  /\ named' = [named EXCEPT ![r] = <<>>]
  /\ UNCHANGED <<types, first, wire, sent, lost>>

\* A record of the message gets an identifier; an empty record has none.
SetId(r, id) ==
  /\ wire = <<>>
  /\ InMessage(r) /\ meant[r].id # "empty"
  /\ records' = [records EXCEPT ![r] = NdefRecordSetId(@, id)]
  /\ named' = [named EXCEPT ![r] = id]
  /\ UNCHANGED <<types, first, wire, meant, sent, lost>>

\* A record of the message that holds its payload itself gets another one.
SetPayload(r, p) ==
  /\ wire = <<>>
  /\ InMessage(r) /\ meant[r].id \in {"raw", "aar", "media"}
  /\ records' = [records EXCEPT ![r] = NdefRecordSetPayload(@, p)]
  /\ meant' = [meant EXCEPT ![r].payload = p]
  /\ UNCHANGED <<types, first, wire, named, sent, lost>>

\* What is left in the pool is never read again: a decoding resets its records.
CleanPool(f, clean) == [x \in DOMAIN f |-> IF x \in Pool THEN clean ELSE f[x]]

MessageInit ==
  /\ first' = Null
  /\ records' = CleanPool(records, NdefRecordReset)
  /\ meant' = CleanPool(meant, NoValue)
  /\ named' = CleanPool(named, <<>>)
  /\ UNCHANGED <<types, wire, sent, lost>>

MessageAppend(r) ==
  /\ wire = <<>>
  /\ meant[r] # NoValue /\ ~InMessage(r)
  /\ records' = NdefMessageAppend(records, first, r)
  /\ first' = IF first = Null THEN r ELSE first
  /\ UNCHANGED <<types, wire, meant, named, sent, lost>>

MessageEncode(size) ==
  /\ first # Null
  /\ IF MessageLength <= size /\ NdefMessageFits(size)
     THEN /\ wire' = NdefMessageEncode
          /\ sent' = [content |-> [i \in DOMAIN Message |->
                                     <<named[Chain(first)[i]], meant[Chain(first)[i]]>>],
                      whole |-> TRUE]
     ELSE wire' = <<>> /\ sent' = Nothing
  /\ UNCHANGED <<records, types, first, meant, named, lost>>

\* A message of another device: MB and ME, SR as f says, IL with an identifier.
EncodedBy(f) ==
  LET Encoded(i) == LET c == f.content[i] IN
        <<128 * Bit(i = 1) + 64 * Bit(i = Len(f.content)) + 16 * Bit(~f.long)
          + 8 * Bit(c.id # <<>>) + c.tnf, Len(c.type)>>
        \o (IF f.long THEN <<0, 0, 0, Len(c.payload)>> ELSE <<Len(c.payload)>>)
        \o (IF c.id = <<>> THEN <<>> ELSE <<Len(c.id)>>) \o c.type \o c.id \o c.payload
  IN  FlattenSeq([i \in DOMAIN f.content |-> Encoded(i)])

\* It is read into the buffer, perhaps without its last bytes, when the
\* application has no message in hand.
Receive(f, cut) ==
  /\ first = Null
  /\ wire' = SubSeq(EncodedBy(f), 1, Len(EncodedBy(f)) - cut)
  /\ sent' = [content |-> [i \in DOMAIN f.content |-> <<f.content[i].id, f.content[i].value>>],
              whole |-> cut = 0]
  /\ UNCHANGED <<records, types, first, meant, named, lost>>

MessageDecode ==
  LET d == NdefMessageDecode(wire)
      n == Len(d.got)
  IN  /\ wire # <<>>
      /\ records' = FoldLeft(LAMBDA recs, i :
                       NdefMessageAppend([recs EXCEPT ![i] = d.got[i]], IF i = 1 THEN Null ELSE 1, i),
                       CleanPool(records, NdefRecordReset), [i \in 1..n |-> i])
      /\ first' = IF n = 0 THEN Null ELSE 1
      /\ named' = [r \in Records |-> IF r \in 1..n THEN sent.content[r][1]
                                       ELSE CleanPool(named, <<>>)[r]]
      /\ meant' = [x \in DOMAIN meant |-> IF x \in 1..n THEN sent.content[x][2]
                                            ELSE CleanPool(meant, NoValue)[x]]
      /\ lost' = (d.err = "none" /\ sent.whole /\ n < Len(sent.content))
      /\ wire' = <<>> /\ sent' = Nothing      \* the buffer now belongs to the message
      /\ UNCHANGED types

\* The application takes a record of the message over into a type object.
RecordToType(r, t) ==
  /\ wire = <<>>
  /\ InMessage(r) /\ ~Refers(t)
  /\ Value(records[r]).id # "raw"
  /\ types' = [types EXCEPT ![t] = Value(records[r])]
  /\ meant' = [meant EXCEPT ![t] = meant[r]]
  /\ UNCHANGED <<records, first, wire, named, sent, lost>>

Next ==
  \/ \E t \in TypeObjects, v \in Values : SetValue(t, v)
  \/ \E t \in TypeObjects, r \in AppRecords : TypeToRecord(t, r)
  \/ \E r \in AppRecords, v \in Raw : RecordInit(r, v)
  \/ \E r \in Records, id \in Ids : SetId(r, id)
  \/ \E r \in Records, p \in Payloads : SetPayload(r, p)
  \/ MessageInit
  \/ \E r \in AppRecords : MessageAppend(r)
  \/ \E slack \in {-1, 0, NDEF_RECORD_HEADER_LEN} : MessageEncode(MessageLength + slack)
  \/ \E f \in Foreign, cut \in Cuts : Receive(f, cut)
  \/ MessageDecode
  \/ \E r \in Records, t \in TypeObjects : RecordToType(r, t)

Spec == Init /\ [][Next]_vars

-----------------------------------------------------------------------------
(* Properties.                                                             *)

\* The first record of the message, and no other, carries MB; the last, and no
\* other, ME: whatever was appended, dropped, decoded and appended again.
WellFramed ==
  \A i \in DOMAIN Message : /\ Message[i].mb <=> i = 1
                            /\ Message[i].me <=> i = Len(Message)

\* The length ndefMessageGetInfo() adds up, which tag writers announce before a
\* byte is encoded, is the length of what is encoded: SR and IL agree with the
\* payload and the identifier through every change of a record.
LengthIsEncoded == MessageLength = Len(NdefMessageEncode)

\* Every record of the message reads as what was put in it, by the application
\* or by the device that wrote the message, through encoding and decoding; only
\* a message cut off or larger than the pool comes back short, or is reported.
RoundTrip ==
  /\ \A r \in ToSet(Chain(first)) :
       GetType(Value(records[r])) = meant[r] /\ records[r].id = named[r]
  /\ ~lost
=============================================================================
