------------------------------ MODULE NdefTag ------------------------------
(* NDEF access to a tag of type 2, 3, 4 or 5: detection, reading, writing  *)
(* and formatting, each a sequence of commands to a tag that may leave the *)
(* field, or whose answer may be lost, before any of them.                 *)
(* Offsets count from the start of the tag's memory (of the file, type 4). *)
EXTENDS Integers, Sequences, FiniteSetsExt

CONSTANTS
  ShortMax,   \* NDEF_SHORT_VFIELD_MAX_LEN: the longest length in one byte
  ReadSize,   \* NDEF_T2T_READ_RESP_SIZE: bytes a type 2 READ returns, and the cache
  Texts,      \* what messages say
  Setups      \* the tags: [type, block, base, area, tlv, first, nbW, mLc, lens, cuts, reads]

\* A tag's blocks start at multiples of their size; its first message fits.
HeaderLen(k) == IF k.type \in {"T3T", "T4T"} THEN 0 ELSE IF k.first > ShortMax THEN 4 ELSE 2
ASSUME NdefAssumption ==
  /\ ShortMax \in Nat \ {0} /\ ReadSize \in Nat \ {0} /\ Texts # {}
  /\ \A k \in Setups :
       /\ k.type \in {"T2T", "T3T", "T4T", "T5T"}
       /\ {k.block, k.nbW, k.mLc} \subseteq Nat \ {0}
       /\ {k.base, k.area, k.tlv, k.first} \cup k.lens \cup k.cuts \subseteq Nat
       /\ k.base % k.block = 0
       /\ k.tlv + HeaderLen(k) + k.first <= k.area
       /\ k.type \in {"T3T", "T4T"} => k.tlv = 0
       /\ k.type = "T5T" => k.tlv # 1

VARIABLES
  kind,   \* the tag's type, geometry and first message: one of Setups
  tag,    \* [present, mem, flag, ln]: memory; write flag and length (attribute block, NLEN)
  ctx,    \* [state, len, off, tlv, flag, ln, cache] of NdefClass and its subCtx
  op,     \* the write in progress: [msg, phase, at, cut]
  since,  \* what the application did last: "nothing", "detected", "written"
  told    \* what the last call returned: [call, msg]
vars == <<kind, tag, ctx, op, since, told>>

None == <<"none">>
Empty == <<"empty">>
Unreadable == <<"unreadable">>
Garbled == <<"garbled">>
T == <<"T">>
Term == <<"term">>
Null == <<"null">>
Proprietary == <<"prop">>
L(n) == <<"L", n>>
Data(m) == [i \in 1..m[2] |-> <<"D", m[1], m[2], i>>]
Marker == L(ShortMax + 1)
Radix == ShortMax + 2
Messages == {<<t, n>> : t \in Texts, n \in (UNION {k.lens \cup {k.first} : k \in Setups}) \ {0}}

Size == kind.base + kind.area
HasTLV == kind.type \in {"T2T", "T5T"}
Idle == op.msg = None

\* The message a run of bytes is, if it is one.
Parsed(bytes) ==
  IF bytes = <<>> THEN Empty
  ELSE IF \E m \in Messages : bytes = Data(m) THEN CHOOSE m \in Messages : bytes = Data(m)
  ELSE Garbled
Slice(mem, off, n) == [i \in 1..n |-> IF off + i <= Size THEN mem[off + i - 1] ELSE Null]

(***************************************************************************)
(* What a reader that follows the standard finds on the tag.               *)
(***************************************************************************)
TlvIn(mem) == IF mem[kind.base] = T THEN kind.base ELSE kind.base + kind.tlv
Header(mem, tlv) ==
  IF mem[tlv + 1] = Marker
  THEN [len |-> mem[tlv + 2][2] * Radix + mem[tlv + 3][2], off |-> tlv + 4]
  ELSE [len |-> mem[tlv + 1][2], off |-> tlv + 2]
Content ==
  LET tlv == TlvIn(tag.mem)
      h == IF HasTLV THEN Header(tag.mem, tlv) ELSE [len |-> tag.ln, off |-> kind.base]
  IN IF tag.flag THEN Unreadable ELSE Parsed(Slice(tag.mem, h.off, h.len))
Writing == IF Idle THEN None ELSE IF op.msg[2] = 0 THEN Empty ELSE op.msg

(***************************************************************************)
(* Commands.  A command that fails has reached the tag or has not.         *)
(***************************************************************************)
Air(ok, effect) ==
  \/ tag.present /\ tag' = effect
  \/ ~ok /\ UNCHANGED tag

\* How much of a run of bytes one command writes.
ToBlockEnd(o, rest) == Min({kind.block - (o % kind.block), rest})
T2TChunk(o, rest) == ToBlockEnd(o, rest)
T3TChunk(o, rest) ==
  IF o % kind.block # 0 \/ rest < kind.block THEN ToBlockEnd(o, rest)
  ELSE kind.block * Min({kind.nbW, rest \div kind.block})
T4TChunk(o, rest) == Min({kind.mLc, rest})
T5TChunk(o, rest) == ToBlockEnd(o, rest)
Chunk(o, rest) ==
  CASE kind.type = "T2T" -> T2TChunk(o, rest) [] kind.type = "T3T" -> T3TChunk(o, rest)
    [] kind.type = "T4T" -> T4TChunk(o, rest) [] kind.type = "T5T" -> T5TChunk(o, rest)

\* The next command that writes bytes[1..last] from start on.
Put(start, bytes, last) ==
  LET o == start + op.at
      n == Chunk(o, last - op.at)
  IN [at |-> op.at + n,
      fits |-> o + n <= Size,
      tag |-> [tag EXCEPT !.mem = [i \in DOMAIN tag.mem |->
                 IF i \in o..(o + n - 1) THEN bytes[i - start + 1] ELSE tag.mem[i]]]]
\* A write of the attribute block (type 3) or of NLEN (type 4): one command.
PutAttribute(flag, ln) ==
  [at |-> 1, fits |-> TRUE, tag |-> [tag EXCEPT !.flag = flag, !.ln = ln]]

NoCache == [addr |-> -1, bytes |-> <<>>]
\* Mutant: writing leaves the cache as it is.
FreshKeeps(c) == c
Fresh(c) == [c EXCEPT !.cache = NoCache]

Ends(ok, c) ==
  /\ op' = [msg |-> None, phase |-> "none", at |-> 0, cut |-> 0, raw |-> TRUE]
  /\ told' = [call |-> "write", ok |-> ok, msg |-> IF ok THEN Writing ELSE None]
  /\ since' = IF ok THEN "written" ELSE "failed"
  /\ ctx' = Fresh(c)
Fails == Ends(FALSE, [ctx EXCEPT !.state = "INVALID"])
Goes(phase, at, c) ==
  /\ op' = [op EXCEPT !.phase = phase, !.at = at]
  /\ ctx' = Fresh(c)
  /\ UNCHANGED <<told, since>>

\* One command of a phase: Failed if it is not answered, Done after the last.
Sends(phase, p, last, Failed, Done) ==
  /\ op.phase = phase
  /\ \/ p.fits /\ tag.present /\ tag' = p.tag /\ p.at < last /\ Goes(phase, p.at, ctx)
     \/ p.fits /\ tag.present /\ tag' = p.tag /\ p.at = last /\ Done
     \/ IF p.fits THEN Air(FALSE, p.tag) /\ Failed ELSE UNCHANGED tag /\ Failed
  /\ UNCHANGED kind

(***************************************************************************)
(* Writing: the length is reset, the message written, the length set.      *)
(***************************************************************************)
LLen(n) == IF n > ShortMax THEN 3 ELSE 1
LenField(n) ==
  IF n = 0 THEN <<T, L(0), Term>>
  ELSE IF n <= ShortMax THEN <<T, L(n)>> ELSE <<T, L(n \div Radix), L(n % Radix)>>
NLenSize == kind.base   \* type 4: NLEN is in front of the message

T2TCheckAvailableSpace(n) == n + ctx.tlv + 1 + LLen(n) <= kind.area + kind.base
T3TCheckAvailableSpace(n) == n <= kind.area
T4TCheckAvailableSpace(n) == n + NLenSize <= Size
T5TCheckAvailableSpace(n) == n + ctx.tlv + 1 + LLen(n) <= kind.area + kind.base
CheckAvailableSpace(n) ==
  CASE kind.type = "T2T" -> T2TCheckAvailableSpace(n) [] kind.type = "T3T" -> T3TCheckAvailableSpace(n)
    [] kind.type = "T4T" -> T4TCheckAvailableSpace(n) [] kind.type = "T5T" -> T5TCheckAvailableSpace(n)

\* A write is called for a tag that was detected: the documented precondition.
Call(m, cut, raw) ==
  /\ Idle /\ since \in {"detected", "written", "failed"}
  /\ ctx.state \in {"INITIALIZED", "READWRITE"}
  /\ op' = [msg |-> m, phase |-> "begin", at |-> 0, cut |-> cut, raw |-> raw]
  /\ UNCHANGED <<kind, tag, ctx, since, told>>
T2TWriteRawMessage(m) == kind.type = "T2T" /\ T2TCheckAvailableSpace(m[2]) /\ Call(m, 0, TRUE)
T3TWriteRawMessage(m) == kind.type = "T3T" /\ T3TCheckAvailableSpace(m[2]) /\ Call(m, 0, TRUE)
T4TWriteRawMessage(m) == kind.type = "T4T" /\ T4TCheckAvailableSpace(m[2]) /\ Call(m, 0, TRUE)
T5TWriteRawMessage(m) == kind.type = "T5T" /\ T5TCheckAvailableSpace(m[2]) /\ Call(m, 0, TRUE)
WriteRawMessage(m) ==
  T2TWriteRawMessage(m) \/ T3TWriteRawMessage(m) \/ T4TWriteRawMessage(m) \/ T5TWriteRawMessage(m)
\* A record's header is written by itself, then its payload.  The empty message
\* is left out: for type 3 it would end with the write flag on.
ndefPollerWriteMessage(m, cut) == cut < m[2] /\ CheckAvailableSpace(m[2]) /\ Call(m, cut, FALSE)

\* After the length was reset: nothing else to do for an empty message, but type 3.
Begun(off) ==
  LET c == [ctx EXCEPT !.off = off, !.state = "INITIALIZED"] IN
  IF op.msg[2] # 0 THEN Goes("data", 0, c)
  ELSE IF kind.type = "T3T" THEN Goes("end", 0, c) ELSE Ends(TRUE, c)

T2TBeginWriteMessage ==
  /\ kind.type = "T2T"
  /\ Sends("begin", Put(ctx.tlv, LenField(0), 3), 3, Fails, Begun(ctx.tlv + 1 + LLen(op.msg[2])))
T3TBeginWriteMessage ==
  /\ kind.type = "T3T"
  /\ Sends("begin", PutAttribute(TRUE, ctx.ln), 1,
           Ends(FALSE, [ctx EXCEPT !.state = "INVALID", !.flag = TRUE]),
           Goes(IF op.msg[2] = 0 THEN "end" ELSE "data", 0,
                [ctx EXCEPT !.state = "INITIALIZED", !.flag = TRUE]))
\* Mutant: the new length is written first.
T4TLengthFirst ==
  /\ kind.type = "T4T"
  /\ Sends("begin", PutAttribute(FALSE, op.msg[2]), 1, Fails, Begun(ctx.off))
T4TBeginWriteMessage ==
  /\ kind.type = "T4T"
  /\ Sends("begin", PutAttribute(FALSE, 0), 1, Fails, Begun(ctx.off))
T5TBeginWriteMessage ==
  /\ kind.type = "T5T"
  /\ Sends("begin", Put(ctx.tlv, LenField(0), 3), 3, Fails, Begun(ctx.tlv + 1 + LLen(op.msg[2])))

\* The header of a record that is not written leaves the state as it is.
WriteBytes ==
  LET n == op.msg[2]
      last == IF op.at < op.cut THEN op.cut ELSE n
  IN Sends("data", Put(ctx.off, Data(op.msg), last), n,
           IF op.at < op.cut THEN Ends(FALSE, ctx) ELSE Fails, Goes("end", 0, ctx))

\* Mutant: the state after a write is that of its beginning.
EndStateKept == ctx
\* The member messageLen keeps its old value: the parameter hides it.
EndState == [ctx EXCEPT !.state = IF op.msg[2] = 0 THEN "INITIALIZED" ELSE "READWRITE"]

T2TWriteRawMessageLen ==
  LET f == LenField(op.msg[2])
  IN /\ kind.type = "T2T"
     /\ Sends("end", Put(ctx.tlv, f, Len(f)), Len(f),
              IF ctx.off + op.msg[2] < kind.area THEN Goes("terminator", 0, ctx) ELSE Fails,
              Ends(TRUE, EndState))
\* Type 2 writes the terminator after a length that was not written, ...
T2TTerminator ==
  /\ kind.type = "T2T"
  /\ Sends("terminator", Put(ctx.off + op.msg[2], <<Term>>, 1), 1, Fails, Fails)
\* Mutant: the write flag stays on in the tag.
T3TFlagStaysOn ==
  /\ kind.type = "T3T"
  /\ LET c == [ctx EXCEPT !.flag = FALSE, !.ln = op.msg[2]] IN
     Sends("end", PutAttribute(TRUE, op.msg[2]), 1, Ends(FALSE, [c EXCEPT !.state = "INVALID"]),
           Ends(TRUE, [EndState EXCEPT !.flag = FALSE, !.ln = op.msg[2]]))
T3TEndWriteMessage ==
  /\ kind.type = "T3T"
  /\ LET c == [ctx EXCEPT !.flag = FALSE, !.ln = op.msg[2]] IN
     Sends("end", PutAttribute(FALSE, op.msg[2]), 1, Ends(FALSE, [c EXCEPT !.state = "INVALID"]),
           Ends(TRUE, [EndState EXCEPT !.flag = FALSE, !.ln = op.msg[2]]))
T4TWriteRawMessageLen ==
  /\ kind.type = "T4T"
  /\ Sends("end", PutAttribute(FALSE, op.msg[2]), 1, Fails, Ends(TRUE, EndState))
T5TWriteRawMessageLen ==
  LET f == LenField(op.msg[2])
  IN /\ kind.type = "T5T"
     /\ Sends("end", Put(ctx.tlv, f, Len(f)), Len(f), Fails, Goes("terminator", 0, ctx))
\* ... type 5 after one that was.
T5TTerminator ==
  /\ kind.type = "T5T"
  /\ Sends("terminator", Put(ctx.off + op.msg[2], <<Term>>, 1), 1, Fails, Ends(TRUE, EndState))

(***************************************************************************)
(* Reading.  Type 2 keeps the last blocks it read in a cache.              *)
(***************************************************************************)
InCache(c, o, n) == c.addr >= 0 /\ o >= c.addr /\ o + n < c.addr + ReadSize
Blocks(addr) == [addr |-> addr, bytes |-> [i \in 1..ReadSize |-> tag.mem[(addr + i - 1) % Size]]]
\* The cache after ReadBytes(o, n): the blocks that were read last.
CacheAfter(c, read) ==
  LET o == read[1]
      n == read[2]
      first == o - (o % kind.block)
  IN IF InCache(c, o, n) THEN c
     ELSE Blocks(first + ReadSize * ((o + n - 1 - first) \div ReadSize))
\* The cache after several reads, one after the other.
CachesAfter(c, reads) ==
  LET after[i \in 0..Len(reads)] == IF i = 0 THEN c ELSE CacheAfter(after[i - 1], reads[i])
  IN after[Len(reads)]
Seen(c, o) == IF InCache(c, o, 1) THEN c.bytes[o - c.addr + 1] ELSE tag.mem[o]

Answers(call, ok, c) ==
  /\ Idle /\ ctx' = c /\ UNCHANGED <<kind, tag, op, since>>
  /\ told' = [call |-> call, ok |-> ok, msg |-> None]
Detected(ok, c) ==
  /\ Idle /\ UNCHANGED <<kind, tag, op>>
  /\ ctx' = c
  /\ since' = IF ok THEN "detected" ELSE "nothing"
  /\ told' = [call |-> "detect", ok |-> ok, msg |-> None]
StateOf(len) == IF len = 0 THEN "INITIALIZED" ELSE "READWRITE"

T2TDetect ==
  LET c1 == CacheAfter(ctx.cache, <<kind.base - kind.block, kind.block>>)
      seen == [o \in DOMAIN tag.mem |-> Seen(c1, o)]
      tlv == TlvIn(seen)
      h == Header(seen, tlv)
      reads == <<<<kind.base - kind.block, kind.block>>>>
               \o [i \in 1..(tlv - kind.base + 2) |-> <<kind.base + i - 1, 1>>]
               \o (IF h.off = tlv + 4 THEN <<<<tlv + 2, 2>>>> ELSE <<>>)
      cached == \A i \in DOMAIN reads : InCache(ctx.cache, reads[i][1], reads[i][2])
  IN /\ kind.type = "T2T" /\ ctx.state # "none"
     /\ \/ /\ (tag.present \/ cached)
           /\ Detected(TRUE, [ctx EXCEPT !.state = StateOf(h.len), !.len = h.len, !.off = h.off,
                                         !.tlv = tlv, !.cache = CachesAfter(@, reads)])
        \/ ~cached /\ Detected(FALSE, [ctx EXCEPT !.state = "INVALID", !.cache = NoCache])
T3TDetect ==
  /\ kind.type = "T3T" /\ ctx.state # "none"
  /\ \/ tag.present /\ Detected(TRUE, [ctx EXCEPT !.state = StateOf(tag.ln), !.len = tag.ln,
                                         !.off = kind.base, !.flag = tag.flag, !.ln = tag.ln])
     \/ Detected(FALSE, [ctx EXCEPT !.state = "INVALID"])
T4TDetect ==
  /\ kind.type = "T4T" /\ ctx.state # "none"
  /\ \/ tag.present /\ Detected(TRUE, [ctx EXCEPT !.state = StateOf(tag.ln), !.len = tag.ln,
                                         !.off = NLenSize])
     \/ Detected(FALSE, [ctx EXCEPT !.state = "INVALID"])
\* A failure after the capability container was read leaves the state INITIALIZED.
T5TDetect ==
  LET tlv == TlvIn(tag.mem)
      h == Header(tag.mem, tlv)
  IN /\ kind.type = "T5T" /\ ctx.state # "none"
     /\ \/ /\ tag.present /\ tlv + 4 <= Size
           /\ Detected(TRUE, [ctx EXCEPT !.state = StateOf(h.len), !.len = h.len,
                                         !.off = h.off, !.tlv = tlv])
        \/ Detected(FALSE, [ctx EXCEPT !.state = "INVALID", !.len = 0, !.off = 0])
        \/ /\ tag.present
           /\ Detected(FALSE, [ctx EXCEPT !.state = "INITIALIZED", !.len = 0, !.off = kind.base])

Reads(ok, bytes, c) ==
  /\ Idle /\ since \in kind.reads /\ UNCHANGED <<kind, tag, op>>
  /\ since' = IF ok THEN since ELSE "failed"
  /\ told' = [call |-> "read", ok |-> ok, msg |-> IF ok THEN Parsed(bytes) ELSE None]
  /\ ctx' = IF ok THEN c ELSE [c EXCEPT !.state = IF kind.type = "T5T" THEN @ ELSE "INVALID"]
HasMessage == ctx.state \in {"READWRITE", "READONLY"}
T3TReadBytes(o, n) == Slice(tag.mem, o, n)
T4TReadBytes(o, n) == Slice(tag.mem, o, n)
T5TReadBytes(o, n) == Slice(tag.mem, o, n)

\* What a read that fails leaves of the cache: a part of a block is read into the cache,
\* which is forgotten; whole blocks go to the application's buffer.
CachesLeft ==
  LET first == ctx.off - (ctx.off % kind.block)
      span == ctx.off + ctx.len - first
      partial == ctx.off # first \/ span < ReadSize
  IN {c \in {NoCache} : partial \/ span % ReadSize # 0}
     \cup {c \in {ctx.cache} : ~partial}
     \cup {c \in {Blocks(first)} : partial /\ span >= 2 * ReadSize}
T2TReadRawMessage ==
  LET cached == InCache(ctx.cache, ctx.off, ctx.len)
      Byte(o) == IF cached THEN Seen(ctx.cache, o) ELSE tag.mem[o]
      bytes == [i \in 1..ctx.len |-> Byte(ctx.off + i - 1)]
  IN /\ kind.type = "T2T" /\ HasMessage
     /\ \/ /\ (tag.present \/ cached)
           /\ Reads(TRUE, bytes, [ctx EXCEPT !.cache = CacheAfter(@, <<ctx.off, ctx.len>>)])
        \/ ~cached /\ \E c \in CachesLeft : Reads(FALSE, <<>>, [ctx EXCEPT !.cache = c])
\* Mutant: the write flag is not looked at.
T3TReadAnyFlag ==
  /\ kind.type = "T3T" /\ HasMessage
  /\ (tag.present /\ Reads(TRUE, T3TReadBytes(ctx.off, ctx.len), ctx)) \/ Reads(FALSE, <<>>, ctx)
T3TReadRawMessage ==
  /\ kind.type = "T3T" /\ HasMessage /\ ~ctx.flag
  /\ (tag.present /\ Reads(TRUE, T3TReadBytes(ctx.off, ctx.len), ctx)) \/ Reads(FALSE, <<>>, ctx)
T4TReadRawMessage ==
  /\ kind.type = "T4T" /\ HasMessage
  /\ (tag.present /\ Reads(TRUE, T4TReadBytes(ctx.off, ctx.len), ctx)) \/ Reads(FALSE, <<>>, ctx)
\* No state is asked for; a length of 0 is answered without a command.
T5TReadRawMessage ==
  /\ kind.type = "T5T"
  /\ \/ (tag.present \/ ctx.len = 0) /\ Reads(TRUE, T5TReadBytes(ctx.off, ctx.len), ctx)
     \/ ctx.len # 0 /\ Reads(FALSE, <<>>, ctx)

\* Only type 2 remembers what it read: block 0.
T2TCheckPresence ==
  /\ kind.type = "T2T" /\ ctx.state # "none"
  /\ \/ tag.present /\ Answers("presence", TRUE, [ctx EXCEPT !.cache = Blocks(0)])
     \/ Answers("presence", FALSE, Fresh(ctx))

(***************************************************************************)
(* Formatting, and the tag that comes and goes.                            *)
(***************************************************************************)
EmptyNdef == <<T, L(0), Term, Null>>
Formatted == [tag EXCEPT !.mem = [i \in DOMAIN tag.mem |->
  IF i \in kind.base..(kind.base + 3) THEN EmptyNdef[i - kind.base + 1] ELSE tag.mem[i]]]
Format(ok, effect, c) ==
  /\ Idle /\ UNCHANGED <<kind, op>>
  /\ Air(ok, effect)
  /\ ctx' = Fresh(c)
  /\ since' = "formatted"
  /\ told' = [call |-> "format", ok |-> ok, msg |-> None]
\* The context is that of the detection before: the tag is to be detected again.
T2TTagFormat ==
  /\ kind.type = "T2T" /\ ctx.state # "none"
  /\ \E ok \in BOOLEAN : Format(ok, Formatted, ctx)
T3TTagFormat ==
  /\ kind.type = "T3T" /\ ctx.state # "none"
  /\ \/ \E ok \in BOOLEAN : Format(ok, [tag EXCEPT !.flag = FALSE, !.ln = 0],
                                   [ctx EXCEPT !.state = "INITIALIZED", !.flag = FALSE, !.ln = 0])
     \/ Format(FALSE, tag, ctx)
T4TTagFormat ==
  /\ kind.type = "T4T" /\ ctx.state # "none"
  /\ \E ok \in BOOLEAN : Format(ok, [tag EXCEPT !.ln = 0], ctx)
T5TTagFormat ==
  LET reset == [ctx EXCEPT !.len = 0, !.off = 0, !.tlv = 0]
  IN /\ kind.type = "T5T" /\ ctx.state # "none"
     /\ \/ Format(TRUE, Formatted, [reset EXCEPT !.tlv = kind.base, !.off = kind.base + 2,
                                              !.state = "INITIALIZED"])
        \/ Format(FALSE, Formatted, [reset EXCEPT !.tlv = kind.base])
        \/ Format(FALSE, tag, reset)

NewContext ==
  [state |-> "INVALID", len |-> 0, off |-> 0, tlv |-> 0, flag |-> FALSE, ln |-> 0, cache |-> NoCache]
\* A tag was activated: a new context, which remembers nothing of the tag before.
ContextInitialization ==
  /\ Idle /\ ctx' = NewContext /\ tag' = [tag EXCEPT !.present = TRUE]
  /\ since' = "nothing" /\ told' = [call |-> "none", ok |-> TRUE, msg |-> None]
  /\ UNCHANGED <<kind, op>>
TagLeaves ==
  /\ tag.present /\ tag' = [tag EXCEPT !.present = FALSE] /\ UNCHANGED <<kind, ctx, op, since, told>>

\* A tag as it is made: an NDEF TLV, after NULLs (type 2) or another TLV (type 5).
FirstMessage(k) == <<CHOOSE t \in Texts : TRUE, k.first>>
FirstHeader(k) ==
  IF HeaderLen(k) = 0 THEN <<>>
  ELSE IF HeaderLen(k) = 4 THEN <<T, Marker, L(k.first \div Radix), L(k.first % Radix)>>
  ELSE <<T, L(k.first)>>
Before(k) == IF k.type = "T5T" /\ k.tlv > 0 THEN <<Proprietary, L(k.tlv - 2)>> ELSE <<>>
CellOf(bytes, at, i) == IF i >= at /\ i < at + Len(bytes) THEN bytes[i - at + 1] ELSE Null
MadeTag(k) ==
  LET start == k.base + k.tlv
      body == FirstHeader(k) \o Data(FirstMessage(k)) \o <<Term>>
  IN [i \in 0..(k.base + k.area - 1) |->
        IF i < start THEN CellOf(Before(k), k.base, i) ELSE CellOf(body, start, i)]

Init ==
  /\ kind \in Setups
  /\ tag = [present |-> FALSE, mem |-> MadeTag(kind), flag |-> FALSE,
            ln |-> IF kind.type \in {"T3T", "T4T"} THEN kind.first ELSE 0]
  /\ ctx = [NewContext EXCEPT !.state = "none"]
  /\ op = [msg |-> None, phase |-> "none", at |-> 0, cut |-> 0, raw |-> TRUE]
  /\ since = "nothing"
  /\ told = [call |-> "none", ok |-> TRUE, msg |-> None]

WriteSteps ==
  \/ T2TBeginWriteMessage \/ T3TBeginWriteMessage \/ T4TBeginWriteMessage \/ T5TBeginWriteMessage
  \/ WriteBytes
  \/ T2TWriteRawMessageLen \/ T3TEndWriteMessage \/ T4TWriteRawMessageLen \/ T5TWriteRawMessageLen
  \/ T2TTerminator \/ T5TTerminator
Detections == T2TDetect \/ T3TDetect \/ T4TDetect \/ T5TDetect
Readings == T2TReadRawMessage \/ T3TReadRawMessage \/ T4TReadRawMessage \/ T5TReadRawMessage
Formats == T2TTagFormat \/ T3TTagFormat \/ T4TTagFormat \/ T5TTagFormat
Calls == \E t \in Texts, n \in kind.lens :
  WriteRawMessage(<<t, n>>) \/ \E cut \in kind.cuts : ndefPollerWriteMessage(<<t, n>>, cut)
Next ==
  \/ ContextInitialization \/ TagLeaves \/ Calls \/ WriteSteps
  \/ Detections \/ Readings \/ T2TCheckPresence \/ Formats
Spec == Init /\ [][Next]_vars

-----------------------------------------------------------------------------
TypeOK ==
  /\ kind \in Setups
  /\ tag.present \in BOOLEAN /\ tag.flag \in BOOLEAN /\ tag.ln \in 0..kind.area
  /\ ctx.state \in {"none", "INVALID", "INITIALIZED", "READWRITE"}
  /\ ctx.off \in 0..Size /\ ctx.tlv \in 0..Size /\ ctx.len \in 0..kind.area
  /\ op.phase \in {"none", "begin", "data", "end", "terminator"}
  /\ Content # Garbled

\* Whatever fails and whenever the tag leaves, it holds the old message, none or the new one.
Store == INSTANCE NdefStore WITH content <- Content, writing <- Writing
ImplementsStore == Store!Spec

\* A context the application relies on agrees with the tag: READWRITE if there is a
\* message (for type 3 the write flag seen is the tag's), INITIALIZED if there is none.
ContextMatchesTag ==
  Idle /\ since \in {"detected", "written"} =>
    /\ ctx.flag = tag.flag
    /\ ~tag.flag => (ctx.state = "READWRITE") = (Content \in Messages)

\* The blocks kept from the last READ are those of the tag.
CacheIsTrue ==
  ctx.cache.addr >= 0 => ctx.cache = Blocks(ctx.cache.addr)

\* Nothing the context remembers is stale when it is used.
ContextIsTrue == ContextMatchesTag /\ CacheIsTrue

\* What a read returns after a detection is what the tag holds.
ReadsWhatIsThere == [][told' # told /\ told'.call = "read" /\ told'.ok => told'.msg = Content]_vars

\* A write that reports success has put the whole message on the tag.
SuccessMeansWritten == [][~Idle /\ Idle' /\ told'.ok => Content' = Writing]_vars

\* What a call reports is so.
ReportsAreTrue == ReadsWhatIsThere /\ SuccessMeansWritten
=============================================================================
