----------------------- MODULE IsoDepActivation_proof -----------------------
(***************************************************************************)
(* Proofs about IsoDepActivation, for any cards and any arguments of the   *)
(* activation: whatever gets lost or damaged, an active reader and its     *)
(* card agree on frame sizes, waiting time and DID, the reader asks for    *)
(* the best bit rates and changes its own only with the card, and the      *)
(* guard time of the card is kept.                                         *)
(*                                                                         *)
(* There is one frame on the way at a time.  What it says follows from the *)
(* step that the reader waits in (Lockstep); what both sides know then     *)
(* follows from what the card was told and has told.                       *)
(***************************************************************************)
EXTENDS IsoDepActivation, TLAPS

\* Who waits for an answer, and who has activated the card.
Asking == {"RATS", "DSL", "PPSRES", "ATTRIB", "BRIND", "BRACK", "PCD_RX"}
Activated == {"PPS", "PPSRES", "active", "tuned", "BRIND", "BRACK",
              "PCD_TX", "PCD_RX", "sent", "refused"}
PcNames == {"idle", "failed", "RATS", "DSL", "ATTRIB"} \cup Activated

Pair == BitRates \X BitRates
Pcd == [pc : PcNames, mode : {"NFC", "EMV", "ISO"}, fsdi : 0..MaxFSxI, did : 0..14,
        maxBR : BitRates, retries : Nat, tx : BitRates, rx : BitRates, fsx : Nat,
        ourFsx : Nat, hdrLen : {1, 2}, sfgt : BOOLEAN, apdu : Nat, pos : Nat,
        inf : Nat \cup Pair]
Dev == [DSI : BitRates, DRI : BitRates, FSx : Nat, FWT : Nat, DID : 0..14,
        supDID : BOOLEAN]
PiccNames == {"selected", "ACT_ATS", "switching", "PICC_RX"}
Picc == [is : CardKind, st : PiccNames, did : 0..14, tx : BitRates, rx : BitRates, next : Pair,
         fsx : Nat, ourFsx : Nat, fwt : Nat, guard : BOOLEAN, got : Nat]

Typed ==
  /\ pcd \in Pcd /\ dev \in Dev /\ card \in Picc /\ card.is \in Cards
  /\ pcd.pc \in {"PCD_TX", "PCD_RX"} => pcd.inf \in Nat /\ pcd.pos <= pcd.apdu
  /\ pcd.pc \in {"PCD_TX", "PCD_RX"} => pcd.pos + pcd.inf <= pcd.apdu
  /\ pcd.pc = "BRACK" => pcd.inf \in Pair

-----------------------------------------------------------------------------
(* The frame on its way.                                                   *)

Damaged == [type |-> "damaged"]
AnnouncedFwi(c) == IF c.make = "library" THEN Min({c.fwi, FwiListenMax("NFC")}) ELSE c.fwi
Ats(c) ==
  [type |-> "ATS", t0 |-> c.t0, ta |-> c.ta, tb |-> c.tb, tc |-> c.tc, br |-> c.br,
   fsci |-> c.fsci, fwi |-> AnnouncedFwi(c), didSupport |-> c.didSupport]
Pps == [type |-> "PPS", did |-> dev.DID, dsi |-> dev.DSI, dri |-> dev.DRI]

\* The request that the reader waits for the answer to.
Request(msg) ==
  \/ pcd.pc = "RATS" /\ msg = Rats(pcd)
  \/ pcd.pc = "DSL" /\ msg = [type |-> "DSL"]
  \/ pcd.pc = "PPSRES" /\ msg = Pps
  \/ pcd.pc = "ATTRIB" /\ msg = Attrib(pcd, <<dev.DSI, dev.DRI>>)
  \/ pcd.pc = "BRIND" /\ msg = [type |-> "BRREQ"]
  \/ pcd.pc = "BRACK" /\ msg = [type |-> "BRACT", tx |-> pcd.inf[1], rx |-> pcd.inf[2]]
  \/ /\ pcd.pc = "PCD_RX"
     /\ msg = [type |-> "I", did |-> dev.DID, len |-> HdrLen + pcd.inf + CrcLen,
               inf |-> pcd.inf]

\* The answer to it.
Response(msg) ==
  \/ pcd.pc = "RATS" /\ msg = Ats(card.is)
  \/ pcd.pc = "PPSRES" /\ msg = [type |-> "PPSRES"]
  \/ pcd.pc = "ATTRIB" /\ msg = [type |-> "ATTRIBRES"]
  \/ pcd.pc = "BRIND" /\ msg = [type |-> "BRIND", tx |-> card.is.sp.tx, rx |-> card.is.sp.rx]
  \/ pcd.pc = "BRACK" /\ msg = [type |-> "BRACK"]
  \/ pcd.pc = "PCD_RX" /\ msg = [type |-> "ACK"]

Lockstep ==
  /\ air.to \in {"none", "card", "pcd"}
  /\ air.to # "none" => pcd.pc \in Asking
  /\ air.to = "card" => air.msg = Damaged \/ Request(air.msg)
  /\ air.to = "pcd" => air.msg = Damaged \/ Response(air.msg)

IInv == Typed /\ Lockstep

-----------------------------------------------------------------------------
(* What is known.                                                          *)

\* What the reader takes from the ATS or SENSB_RES.
Fsci(c) == IF c.tech = "A" /\ ~c.t0 THEN 2 ELSE c.fsci
Fwi(c) == IF c.tech = "A" /\ ~(c.t0 /\ c.tb) THEN 4 ELSE AnnouncedFwi(c)
CommonDid == IF card.is.didSupport THEN pcd.did ELSE 0

\* The card has answered the RATS or ATTRIB.
Answers(types) == air.to = "pcd" /\ air.msg.type \in types
Told ==
  Answers({"ATS", "ATTRIBRES"}) \/ pcd.pc \in Activated =>
    /\ card.did = CommonDid
    /\ card.fsx = CardFSx(pcd.fsdi) /\ card.ourFsx = CardFSx(Fsci(card.is))
    /\ card.fwt = FWI2FWT(Fwi(card.is))

Known ==
  /\ pcd.pc \in Activated \cup {"ATTRIB"} =>
       /\ dev.FSx = FSxI2FSx(pcd.mode, Fsci(card.is)) /\ pcd.fsx = dev.FSx
       /\ dev.FWT = FWI2FWT(Fwi(card.is))
       /\ dev.DID = CommonDid
  /\ pcd.pc \in Activated => pcd.ourFsx \in {KeepFSx, FSxI2FSx(pcd.mode, pcd.fsdi)}

\* Either no DID is used, or the cards tell if they support one: TC is not defaulted.
DidIsAnnounced == DIDs \subseteq {0} \/ \A c \in Cards : c.tech = "A" => c.t0 /\ c.tc

\* A card of NFC-B is only activated with a DID if it supports one.
TechInv ==
  /\ pcd.did \in DIDs \cup {0}
  /\ pcd.pc = "RATS" => card.is.tech = "A"
  /\ pcd.pc = "ATTRIB" => card.is.tech = "B" /\ (pcd.did # 0 => card.is.didSupport)

ParamInv == TechInv /\ Told /\ Known

\* The rates that the card has, or has when its answer is out.
CardRates == IF card.st = "switching" THEN card.next ELSE <<card.tx, card.rx>>
RateInv ==
  /\ Answers({"PPSRES", "ATTRIBRES"}) => CardRates = <<dev.DSI, dev.DRI>>
  /\ Answers({"BRACK"}) => CardRates = <<pcd.inf[2], pcd.inf[1]>>

GuardInv ==
  /\ card.guard => pcd.sfgt \/ pcd.pc \in {"RATS", "ATTRIB", "DSL", "failed"}
  /\ pcd.pc \in {"PPSRES", "PCD_RX"} => ~pcd.sfgt

-----------------------------------------------------------------------------
(* Sizes, waiting times and bit rates.                                     *)

LEMMA MinIs ==
  ASSUME NEW a \in Int, NEW b \in Int
  PROVE  /\ Min({a, b}) \in {a, b} /\ Min({a, b}) <= a /\ Min({a, b}) <= b
         /\ Min({a, b}) \in Int
<1>1. \E x \in {a, b} : \A y \in {a, b} : x <= y
  OBVIOUS
<1> QED BY <1>1 DEF Min

\* Larger codes stand for larger sizes.
LEMMA SizesGrow ==
  ASSUME NEW i \in 0..12, NEW j \in 0..12, i <= j
  PROVE  Sizes[i + 1] \in Nat /\ Sizes[i + 1] >= 16 /\ Sizes[i + 1] <= Sizes[j + 1]
<1>1. /\ Sizes[1] = 16 /\ Sizes[2] = 24 /\ Sizes[3] = 32 /\ Sizes[4] = 40 /\ Sizes[5] = 48
      /\ Sizes[6] = 64 /\ Sizes[7] = 96 /\ Sizes[8] = 128 /\ Sizes[9] = 256
      /\ Sizes[10] = 512 /\ Sizes[11] = 1024 /\ Sizes[12] = 2048 /\ Sizes[13] = 4096
  BY DEF Sizes
<1> DEFINE s(k) == Sizes[k + 1]
<1>2. /\ s(0) = 16 /\ s(1) = 24 /\ s(2) = 32 /\ s(3) = 40 /\ s(4) = 48 /\ s(5) = 64
      /\ s(6) = 96 /\ s(7) = 128 /\ s(8) = 256 /\ s(9) = 512 /\ s(10) = 1024
      /\ s(11) = 2048 /\ s(12) = 4096
  BY <1>1
<1> HIDE DEF s
<1>3. s(i) \in Nat /\ s(i) >= 16 /\ s(i) <= s(j)
  BY <1>2
<1> QED BY <1>3 DEF s

Largest(mode) == IF mode = "EMV" THEN 12 ELSE 8
LEMMA CodeIs ==
  ASSUME NEW mode, NEW i \in Nat
  PROVE  /\ Min({i, Largest(mode)}) \in 0..12
         /\ Min({i, Largest(mode)}) \in {i, Largest(mode)}
         /\ Min({i, Largest(mode)}) <= i /\ Min({i, Largest(mode)}) <= Largest(mode)
         /\ FSxI2FSx(mode, i) = Sizes[Min({i, Largest(mode)}) + 1]
<1>1. Largest(mode) \in {8, 12}
  BY DEF Largest
<1>2. FSxI2FSx(mode, i) = Sizes[Min({i, Largest(mode)}) + 1]
  BY DEF FSxI2FSx, Largest
<1>3. \A c \in {8, 12} : Min({i, c}) \in {i, c} /\ Min({i, c}) <= i /\ Min({i, c}) <= c
  BY MinIs
<1> QED BY <1>1, <1>2, <1>3

LEMMA FSxIs ==
  ASSUME NEW mode, NEW i \in Nat
  PROVE  FSxI2FSx(mode, i) \in Nat /\ FSxI2FSx(mode, i) >= 16
<1> DEFINE k == Min({i, Largest(mode)})
<1>1. k \in 0..12 /\ FSxI2FSx(mode, i) = Sizes[k + 1]
  BY CodeIs
<1> HIDE DEF k
<1> QED BY <1>1, SizesGrow

\* A side that takes no size above the codes of NFC mode takes it for what the
\* other side takes it for; and one that takes all sizes for no less.
LEMMA FSxFits ==
  ASSUME NEW m1, NEW m2, NEW i \in Nat, i <= MaxFSxI \/ m2 = "EMV"
  PROVE  FSxI2FSx(m1, i) <= FSxI2FSx(m2, i)
<1> DEFINE k(m) == Min({i, Largest(m)})
<1>1. \A m : /\ k(m) \in 0..12 /\ k(m) \in {i, Largest(m)} /\ k(m) <= i /\ k(m) <= Largest(m)
             /\ FSxI2FSx(m, i) = Sizes[k(m) + 1]
  BY CodeIs
<1>2. \A m : Largest(m) \in {8, 12} /\ (m = "EMV" => Largest(m) = 12)
  BY DEF Largest
<1> HIDE DEF k
<1>3. k(m1) <= k(m2)
  BY <1>1, <1>2 DEF MaxFSxI
<1>4. Sizes[k(m1) + 1] <= Sizes[k(m2) + 1]
  BY <1>1, <1>3, SizesGrow
<1> QED BY <1>1, <1>4

LEMMA SmallFSx ==
  ASSUME NEW mode, NEW i \in 0..MaxFSxI
  PROVE  FSxI2FSx(mode, i) <= 256
<1>1. i \in 0..8 /\ Largest(mode) \in {8, 12}
  BY DEF MaxFSxI, Largest
<1>2. Min({i, Largest(mode)}) = i
  <2> DEFINE c == Largest(mode)
  <2> HIDE DEF c
  <2>1. c \in {8, 12}
    BY <1>1 DEF c
  <2>4. c \in Int /\ i \in Int
    BY <1>1, <2>1
  <2>2. Min({i, c}) \in {i, c} /\ Min({i, c}) <= i
    BY ONLY <2>4, MinIs
  <2>3. Min({i, c}) = i
    BY <1>1, <2>1, <2>2
  <2> QED BY <2>3 DEF c
<1>3. Sizes[i + 1] <= Sizes[8 + 1] /\ Sizes[8 + 1] = 256
  BY <1>1, SizesGrow DEF Sizes
<1> QED BY <1>1, <1>2, <1>3, CodeIs

LEMMA FwtIs ==
  ASSUME NEW fwi \in Nat
  PROVE  FWI2FWT(fwi) \in Nat
<1> DEFINE e == IF fwi > 14 THEN 16 ELSE fwi + 12
<1>1. /\ 2^12 \in Nat /\ 2^13 \in Nat /\ 2^14 \in Nat /\ 2^15 \in Nat /\ 2^16 \in Nat
      /\ 2^17 \in Nat /\ 2^18 \in Nat /\ 2^19 \in Nat /\ 2^20 \in Nat /\ 2^21 \in Nat
      /\ 2^22 \in Nat /\ 2^23 \in Nat /\ 2^24 \in Nat /\ 2^25 \in Nat /\ 2^26 \in Nat
      /\ MaxFWT \in Nat
  BY DEF MaxFWT
<1>2. \/ e = 12 \/ e = 13 \/ e = 14 \/ e = 15 \/ e = 16 \/ e = 17 \/ e = 18 \/ e = 19
      \/ e = 20 \/ e = 21 \/ e = 22 \/ e = 23 \/ e = 24 \/ e = 25 \/ e = 26
  OBVIOUS
<1> HIDE DEF e
<1>3. 2^e \in Nat
  BY <1>1, <1>2, Zenon
<1>4. Min({2^e, MaxFWT}) \in Nat
  <2> DEFINE p == 2^e
  <2> HIDE DEF p
  <2>1. p \in Nat
    BY <1>3 DEF p
  <2>2. Min({p, MaxFWT}) \in {p, MaxFWT}
    BY <1>1, <2>1, MinIs
  <2>3. Min({p, MaxFWT}) \in Nat
    BY <1>1, <2>1, <2>2
  <2> QED BY <2>3 DEF p
<1> QED BY <1>4 DEF FWI2FWT, e

\* The highest rate within a limit.
Highest(rates, m) == Max({0} \cup {r \in rates : r <= m})

LEMMA HighestIs ==
  ASSUME NEW rates \in SUBSET BitRates, NEW m \in BitRates
  PROVE  /\ Highest(rates, m) \in BitRates /\ Highest(rates, m) <= m
         /\ Highest(rates, m) \in {0} \cup rates
         /\ \A r \in rates : r <= m => r <= Highest(rates, m)
<1> DEFINE S == {0} \cup {r \in rates : r <= m}
<1>1. S \subseteq 0..3
  <2>1. rates \subseteq 0..3
    BY DEF BitRates
  <2> SUFFICES ASSUME NEW x \in S PROVE x \in 0..3
    OBVIOUS
  <2> QED BY <2>1
<1>2. 0 \in S
  OBVIOUS
<1>3. \E x \in S : \A y \in S : x >= y
  <2> HIDE DEF S
  <2>1. CASE 3 \in S
    BY <1>1, <2>1
  <2>2. CASE 3 \notin S /\ 2 \in S
    BY <1>1, <2>2
  <2>3. CASE 3 \notin S /\ 2 \notin S /\ 1 \in S
    BY <1>1, <2>3
  <2>4. CASE 3 \notin S /\ 2 \notin S /\ 1 \notin S
    BY <1>1, <1>2, <2>4
  <2> QED
    BY <2>1, <2>2, <2>3, <2>4
<1>4. Highest(rates, m) \in S /\ \A y \in S : Highest(rates, m) >= y
  BY <1>3 DEF Highest, Max
<1>5. Highest(rates, m) \in 0..3
  BY <1>1, <1>4
<1> QED
  BY <1>4, <1>5 DEF BitRates

\* The pairs of rates that a card has.
PairsOf(br, maxBR) ==
  IF br.rfu THEN {<<0, 0>>}
  ELSE {pair \in ({0} \cup {r \in br.ds : r <= maxBR}) \X ({0} \cup {r \in br.dr : r <= maxBR}) :
          br.same => pair[1] = pair[2]}

\* Counting down (rfalIsoDepCalcBitRate) finds the highest rate of both directions.
CommonRate(br, m) == Highest(br.ds \cap br.dr, m)
Lower(br, m) == Min({Highest(br.ds, m), Highest(br.dr, m)})

LEMMA LowerIs ==
  ASSUME NEW br \in Announced, NEW m \in BitRates
  PROVE  /\ Lower(br, m) \in 0..m
         /\ Lower(br, m) = 0 \/ Lower(br, m) \in br.ds \cap br.dr => CommonRate(br, m) = Lower(br, m)
         /\ ~(Lower(br, m) = 0 \/ Lower(br, m) \in br.ds \cap br.dr) =>
              Lower(br, m) < m /\ CommonRate(br, m) = CommonRate(br, Lower(br, m))
<1> DEFINE ds == Highest(br.ds, m)
           dr == Highest(br.dr, m)
           low == Lower(br, m)
<1>1. br.ds \in SUBSET BitRates /\ br.dr \in SUBSET BitRates
      /\ br.ds \cap br.dr \in SUBSET BitRates /\ m \in 0..3
  BY DEF Announced, BitRates
<1>2. /\ ds \in 0..3 /\ ds <= m /\ ds \in {0} \cup br.ds /\ \A r \in br.ds : r <= m => r <= ds
  BY <1>1, HighestIs DEF BitRates
<1>3. /\ dr \in 0..3 /\ dr <= m /\ dr \in {0} \cup br.dr /\ \A r \in br.dr : r <= m => r <= dr
  BY <1>1, HighestIs DEF BitRates
<1> HIDE DEF ds, dr
<1>4. Min({ds, dr}) \in {ds, dr} /\ Min({ds, dr}) <= ds /\ Min({ds, dr}) <= dr
  <2>1. ds \in Int /\ dr \in Int
    BY <1>2, <1>3
  <2> QED BY ONLY <2>1, MinIs
<1>5. low \in {ds, dr} /\ low <= ds /\ low <= dr
  BY <1>4 DEF Lower, ds, dr
<1> HIDE DEF low
<1>6. low \in 0..m /\ low \in BitRates /\ low \in 0..3
  BY <1>1, <1>2, <1>3, <1>5 DEF BitRates
<1> DEFINE C(k) == CommonRate(br, k)
<1>7. \A k \in BitRates :
        /\ C(k) \in 0..3 /\ C(k) <= k /\ C(k) \in {0} \cup (br.ds \cap br.dr)
        /\ \A r \in br.ds \cap br.dr : r <= k => r <= C(k)
  BY <1>1, HighestIs DEF CommonRate, BitRates
<1> HIDE DEF C
<1>8. C(m) <= low
  <2>1. C(m) = 0 \/ (C(m) <= ds /\ C(m) <= dr)
    BY <1>2, <1>3, <1>7
  <2> QED BY <1>2, <1>3, <1>5, <1>6, <1>7, <2>1
<1>9. CASE low = 0 \/ low \in br.ds \cap br.dr
  <2>1. low <= C(m)
    BY <1>1, <1>6, <1>7, <1>9 DEF BitRates
  <2>2. C(m) = low
    BY <1>1, <1>6, <1>7, <1>8, <2>1 DEF BitRates
  <2> QED BY <1>6, <1>9, <2>2 DEF C, low
<1>10. CASE ~(low = 0 \/ low \in br.ds \cap br.dr)
  <2>1. low # m
    BY <1>2, <1>3, <1>5, <1>10
  <2>2. low < m
    BY <1>1, <1>6, <2>1
  <2>3. C(m) <= C(low)
    BY <1>6, <1>7, <1>8
  <2>4. C(low) <= C(m)
    BY <1>1, <1>6, <1>7, <2>2 DEF BitRates
  <2>5. C(m) = C(low)
    <3>1. C(m) \in Int /\ C(low) \in Int
      BY <1>6, <1>7
    <3> QED BY ONLY <2>3, <2>4, <3>1
  <2> QED BY <1>6, <1>10, <2>2, <2>5 DEF C, low
<1> QED BY <1>9, <1>10

LEMMA CountingDown ==
  ASSUME NEW br \in Announced, NEW maxBR \in BitRates, ~br.rfu, br.same
  PROVE  CalcBitRate(maxBR, br) = <<CommonRate(br, maxBR), CommonRate(br, maxBR)>>
<1> DEFINE Body(f, m) == LET low == Lower(br, m)
                         IN IF low = 0 \/ low \in br.ds \cap br.dr THEN <<low, low>> ELSE f[low]
           F == CHOOSE f : f = [m \in 0..3 |-> Body(f, m)]
           g == [m \in 0..3 |-> <<CommonRate(br, m), CommonRate(br, m)>>]
<1>1. CalcBitRate(maxBR, br) = F[maxBR]
  BY DEF CalcBitRate, Highest, Lower, BitRates
<1>2. \A m \in 0..3 : Lower(br, m) \in 0..m
  BY LowerIs DEF BitRates
<1>3. g = [m \in 0..3 |-> Body(g, m)]
  <2> SUFFICES ASSUME NEW m \in 0..3
               PROVE  <<CommonRate(br, m), CommonRate(br, m)>> = Body(g, m)
    BY Zenon
  <2>1. Lower(br, m) \in 0..3
    BY <1>2
  <2>2. g[Lower(br, m)] = <<CommonRate(br, Lower(br, m)), CommonRate(br, Lower(br, m))>>
    BY <2>1
  <2> QED BY <2>2, LowerIs DEF BitRates
<1>4. F = [m \in 0..3 |-> Body(F, m)]
  <2> HIDE DEF g
  <2>1. \E f : f = [m \in 0..3 |-> Body(f, m)]
    BY <1>3, Zenon
  <2> QED BY <2>1, Zenon
<1> HIDE DEF F
<1>5. \A m \in 0..3 : F[m] = Body(F, m)
  BY <1>4
<1> DEFINE c(m) == <<CommonRate(br, m), CommonRate(br, m)>>
<1>6. \A m \in 0..3 : (\A k \in 0..3 : k < m => F[k] = c(k)) => F[m] = c(m)
  <2> SUFFICES ASSUME NEW m \in 0..3, \A k \in 0..3 : k < m => F[k] = c(k) PROVE F[m] = c(m)
    OBVIOUS
  <2> DEFINE low == Lower(br, m)
  <2> HIDE DEF c
  <2>1. F[m] = IF low = 0 \/ low \in br.ds \cap br.dr THEN <<low, low>> ELSE F[low]
    BY <1>5
  <2>2. CASE low = 0 \/ low \in br.ds \cap br.dr
    BY <2>1, <2>2, LowerIs DEF c, BitRates
  <2>3. CASE ~(low = 0 \/ low \in br.ds \cap br.dr)
    <3>1. low < m /\ low \in 0..3 /\ CommonRate(br, m) = CommonRate(br, low)
      BY <1>2, <2>3, LowerIs DEF BitRates
    <3>2. F[m] = F[low] /\ F[low] = c(low)
      BY <2>1, <2>3, <3>1
    <3> QED BY <3>1, <3>2 DEF c
  <2> QED BY <2>2, <2>3
<1> HIDE DEF c
<1>7. F[0] = c(0)
  BY <1>6
<1>8. F[1] = c(1)
  BY <1>6, <1>7
<1>9. F[2] = c(2)
  BY <1>6, <1>7, <1>8
<1>10. F[3] = c(3)
  BY <1>6, <1>7, <1>8, <1>9
<1> QED BY <1>1, <1>7, <1>8, <1>9, <1>10 DEF c, BitRates

\* The rates asked for are a pair the card has, and the highest of these.
LEMMA CalcBitRateIsBest ==
  ASSUME NEW br \in Announced, NEW maxBR \in BitRates
  PROVE  LET best == CalcBitRate(maxBR, br) IN
         /\ best \in Pair /\ best \in PairsOf(br, maxBR)
         /\ \A pair \in PairsOf(br, maxBR) : pair[1] <= best[1] /\ pair[2] <= best[2]
<1> DEFINE best == CalcBitRate(maxBR, br)
           dsis == {0} \cup {r \in br.ds : r <= maxBR}
           dris == {0} \cup {r \in br.dr : r <= maxBR}
           dsi == Highest(br.ds, maxBR)
           dri == Highest(br.dr, maxBR)
<1>1. br.ds \in SUBSET BitRates /\ br.dr \in SUBSET BitRates
      /\ br.ds \cap br.dr \in SUBSET BitRates /\ br.rfu \in BOOLEAN /\ br.same \in BOOLEAN
  BY DEF Announced
<1>2. maxBR \in 0..3 /\ ~(maxBR > 3) /\ 0 \in BitRates
  BY DEF BitRates
<1>3. CASE br.rfu
  <2>1. best = <<0, 0>> /\ PairsOf(br, maxBR) = {<<0, 0>>}
    BY <1>3 DEF CalcBitRate, PairsOf
  <2> QED BY <1>2, <2>1 DEF Pair
<1>4. CASE ~br.rfu /\ ~br.same
  <2>1. best = <<dsi, dri>>
    BY <1>2, <1>4 DEF CalcBitRate, Highest
  <2>2. /\ dsi \in BitRates /\ dsi \in dsis /\ \A r \in dsis : r <= dsi
        /\ dri \in BitRates /\ dri \in dris /\ \A r \in dris : r <= dri
    BY <1>1, HighestIs DEF BitRates
  <2>3. PairsOf(br, maxBR) = dsis \X dris
    BY <1>4 DEF PairsOf
  <2> HIDE DEF dsis, dris, dsi, dri, best
  <2> QED BY <2>1, <2>2, <2>3 DEF Pair, best
<1>5. CASE ~br.rfu /\ br.same
  <2> DEFINE c == CommonRate(br, maxBR)
  <2>1. best = <<c, c>>
    BY <1>5, CountingDown
  <2>2. /\ c \in BitRates /\ c <= maxBR /\ c \in {0} \cup (br.ds \cap br.dr)
        /\ \A r \in br.ds \cap br.dr : r <= maxBR => r <= c
    BY <1>1, HighestIs DEF CommonRate
  <2>3. PairsOf(br, maxBR) = {pair \in dsis \X dris : pair[1] = pair[2]}
    BY <1>5 DEF PairsOf
  <2>4. c \in dsis /\ c \in dris /\ \A r \in dsis \cap dris : r <= c
    BY <2>2 DEF BitRates
  <2> HIDE DEF dsis, dris, c, best
  <2> QED BY <2>1, <2>2, <2>3, <2>4 DEF Pair, best
<1> QED BY <1>1, <1>3, <1>4, <1>5

-----------------------------------------------------------------------------
(* Types and the frame on its way.                                         *)

LEMMA SilenceIs == Silence.to = "none" /\ Silence.msg = Damaged
  BY DEF Silence, Damaged

LEMMA SentIs ==
  ASSUME NEW to, NEW rate, NEW msg, NEW f \in Sent(to, rate, msg)
  PROVE  f.to = "none" \/ (f.to = to /\ f.msg \in {msg, Damaged})
  BY SilenceIs DEF Sent, Frame, Damaged

LEMMA QuietLockstep == ASSUME air'.to = "none" PROVE Lockstep'
  BY DEF Lockstep

LEMMA TypeFacts ==
  ASSUME Typed
  PROVE  /\ pcd \in Pcd /\ dev \in Dev /\ card \in Picc /\ card.is \in Cards
         /\ card.is \in CardKind
         /\ card.is.make = "library" => card.is.tech = "A" /\ card.is.fsci <= MaxFSxI
  BY CardsAssumption DEF Typed

LEMMA InitPcdType == InitPcd \in Pcd
  BY DEF InitPcd, Pcd, PcNames, BitRates, MaxFSxI

LEMMA InitCardType ==
  ASSUME NEW c \in Cards
  PROVE  InitCard(c) \in Picc /\ InitCard(c).is = c
  BY CardsAssumption DEF InitCard, Picc, PiccNames, BitRates, Pair

LEMMA IInvInit == Init => IInv
<1> SUFFICES ASSUME Init PROVE IInv
  OBVIOUS
<1>1. pcd \in Pcd /\ pcd.pc = "idle" 
  BY InitPcdType DEF Init, InitPcd
<1>2. dev \in Dev
  BY DEF Init, InitDev, Dev, BitRates
<1>3. card \in Picc /\ card.is \in Cards
  BY InitCardType DEF Init
<1>4. Lockstep
  BY SilenceIs DEF Init, Lockstep
<1> QED BY <1>1, <1>2, <1>3, <1>4 DEF IInv, Typed

\* What the reader's fields can become.
LEMMA PcdUpdates ==
  ASSUME NEW p \in Pcd, NEW pc \in PcNames
  PROVE  /\ [p EXCEPT !.pc = pc] \in Pcd
         /\ \A b \in BOOLEAN : [p EXCEPT !.sfgt = b] \in Pcd
         /\ \A n \in Nat : [p EXCEPT !.retries = n] \in Pcd
         /\ \A tx \in BitRates, rx \in BitRates : [p EXCEPT !.pc = pc, !.tx = tx, !.rx = rx] \in Pcd
         /\ \A inf \in Nat \cup Pair : [p EXCEPT !.pc = pc, !.inf = inf] \in Pcd
         /\ \A h \in {1, 2} : [p EXCEPT !.pc = pc, !.hdrLen = h] \in Pcd
         /\ \A br \in BitRates : [p EXCEPT !.pc = pc, !.maxBR = br] \in Pcd
  BY DEF Pcd

\* What the air carries when nothing is asked.
LEMMA NotAsking ==
  ASSUME Lockstep, pcd.pc \notin Asking
  PROVE  air.to = "none"
  BY DEF Lockstep

\* An answer comes from the card in this state of the reader.
LEMMA AnswerIs ==
  ASSUME Lockstep, NEW pc \in PcNames, NEW type \in STRING, Answered(pc, type), type # "damaged"
  PROVE  pcd.pc = pc /\ air.to = "pcd" /\ air.msg.type = type /\ Response(air.msg)
  BY DEF Lockstep, Answered, Waits, Damaged

LEMMA ArgumentTypes ==
  /\ \A mode \in CompModes : mode \in {"NFC", "EMV", "ISO"}
  /\ \A fsdi \in FSDIs : fsdi \in 0..MaxFSxI
  /\ \A did \in DIDs : did \in 0..14
  /\ \A maxBR \in MaxBRs : maxBR \in BitRates
  /\ \A len \in ApduLens : len \in Nat /\ len > 0
  /\ MaxRetriesRATS \in Nat
<1>1. \A len \in ApduLens : len \in Nat \ {0}
  BY ArgumentsAssumption
<1> QED BY <1>1, ArgumentsAssumption

LEMMA PollAInv ==
  ASSUME IInv, NEW mode \in CompModes, NEW fsdi \in FSDIs, NEW did \in DIDs, NEW maxBR \in MaxBRs,
         rfalIsoDepPollAHandleActivation(mode, fsdi, did, maxBR)
  PROVE  IInv'
<1> DEFINE p == [InitPcd EXCEPT !.pc = "RATS", !.mode = mode, !.fsdi = fsdi, !.did = did,
                                !.maxBR = maxBR, !.retries = MaxRetriesRATS]
<1>1. /\ pcd' = p /\ ToCard(Rats(p)) /\ UNCHANGED <<dev, card>>
  BY DEF rfalIsoDepPollAHandleActivation
<1>2. p \in Pcd /\ p.pc = "RATS"
  BY ZenonT(60), ArgumentTypes, InitPcdType DEF Pcd, InitPcd, PcNames
<1> HIDE DEF p
<1>3. air'.to = "none" \/ (air'.to = "card" /\ air'.msg \in {Rats(pcd'), Damaged})
  BY <1>1, SentIs DEF ToCard
<1>4. Lockstep'
  BY <1>1, <1>2, <1>3 DEF Lockstep, Request, Asking
<1> QED BY <1>1, <1>2, <1>4 DEF IInv, Typed

LEMMA PollBInv ==
  ASSUME IInv, NEW mode \in CompModes, NEW fsdi \in FSDIs, NEW did \in DIDs, NEW maxBR \in MaxBRs,
         rfalIsoDepPollBHandleActivation(mode, fsdi, did, maxBR)
  PROVE  IInv'
<1> DEFINE c == card.is
           br == CalcBitRate(maxBR, c.br)
           fsx == FSxI2FSx(mode, c.fsci)
           p == [InitPcd EXCEPT !.pc = "ATTRIB", !.mode = mode, !.fsdi = fsdi, !.did = did,
                                !.maxBR = maxBR, !.fsx = fsx]
           d == [DSI |-> br[1], DRI |-> br[2], FSx |-> fsx, FWT |-> FWI2FWT(c.fwi),
                 DID |-> did, supDID |-> c.didSupport]
<1>1. pcd' = p /\ dev' = d /\ ToCard(Attrib(p, br)) /\ UNCHANGED card
  BY DEF rfalIsoDepPollBHandleActivation
<1>2. c \in CardKind /\ c.br \in Announced /\ c.fsci \in Nat /\ c.fwi \in Nat
      /\ c.didSupport \in BOOLEAN
  BY TypeFacts DEF IInv, CardKind
<1>3. br \in Pair /\ br = <<br[1], br[2]>> /\ br[1] \in BitRates /\ br[2] \in BitRates
  BY <1>2, ArgumentTypes, CalcBitRateIsBest DEF Pair
<1>4. fsx \in Nat /\ FWI2FWT(c.fwi) \in Nat
  BY <1>2, FSxIs, FwtIs
<1> HIDE DEF c, br, fsx
<1>5. p \in Pcd /\ p.pc = "ATTRIB" /\ p.fsx = fsx
  BY ZenonT(60), <1>4, ArgumentTypes, InitPcdType DEF Pcd, InitPcd, PcNames
<1>6. d \in Dev /\ <<d.DSI, d.DRI>> = br
  BY <1>2, <1>3, <1>4, ArgumentTypes DEF Dev
<1> HIDE DEF p, d
<1>7. air'.to = "none" \/ (air'.to = "card" /\ air'.msg \in {Attrib(p, br), Damaged})
  BY <1>1, SentIs DEF ToCard
<1>8. Lockstep'
  BY <1>1, <1>5, <1>6, <1>7 DEF Lockstep, Request, Asking
<1> QED BY <1>1, <1>4, <1>5, <1>6, <1>8 DEF IInv, Typed

LEMMA RatsFailsInv ==
  ASSUME IInv, RatsTimeout \/ RatsError
  PROVE  IInv' /\ UNCHANGED <<dev, card>>
         /\ (pcd'.pc = "RATS" \/ (pcd'.pc \in {"DSL", "failed"} /\ ~(air'.to = "pcd")))
<1>1. /\ pcd.pc = "RATS" /\ UNCHANGED <<dev, card>>
      /\ \/ /\ pcd.retries > 0 /\ pcd' = [pcd EXCEPT !.retries = @ - 1] /\ ToCard(Rats(pcd))
         \/ pcd' = [pcd EXCEPT !.pc = "DSL"] /\ ToCard([type |-> "DSL"])
         \/ pcd' = [pcd EXCEPT !.pc = "failed"] /\ air' = Silence
  BY DEF RatsTimeout, RatsError, RatsFails, Unanswered, BadAnswer, Waits
<1>2. pcd \in Pcd /\ pcd.retries \in Nat
  BY DEF IInv, Typed, Pcd
<1>3. CASE pcd.retries > 0 /\ pcd' = [pcd EXCEPT !.retries = @ - 1] /\ ToCard(Rats(pcd))
  <2>1. pcd.retries - 1 \in Nat
    BY <1>2, <1>3
  <2>2. pcd' \in Pcd /\ pcd'.pc = "RATS" /\ pcd'.fsx = pcd.fsx /\ Rats(pcd') = Rats(pcd)
    BY <1>1, <1>2, <1>3, <2>1 DEF Pcd, Rats
  <2>3. air'.to = "none" \/ (air'.to = "card" /\ air'.msg \in {Rats(pcd'), Damaged})
    BY <1>3, <2>2, SentIs DEF ToCard
  <2>4. Lockstep'
    BY <2>2, <2>3 DEF Lockstep, Request, Asking
  <2> QED BY <1>1, <1>2, <2>2, <2>4 DEF IInv, Typed
<1>4. CASE pcd' = [pcd EXCEPT !.pc = "DSL"] /\ ToCard([type |-> "DSL"])
  <2>1. pcd' \in Pcd /\ pcd'.pc = "DSL" /\ pcd'.fsx = pcd.fsx
    BY <1>2, <1>4 DEF Pcd, PcNames
  <2>2. air'.to = "none" \/ (air'.to = "card" /\ air'.msg \in {[type |-> "DSL"], Damaged})
    BY <1>4, SentIs DEF ToCard
  <2>3. Lockstep'
    BY <2>1, <2>2 DEF Lockstep, Request, Asking
  <2> QED BY <1>1, <1>2, <2>1, <2>2, <2>3 DEF IInv, Typed
<1>5. CASE pcd' = [pcd EXCEPT !.pc = "failed"] /\ air' = Silence
  <2>1. pcd' \in Pcd /\ pcd'.pc = "failed" /\ pcd'.fsx = pcd.fsx
    BY <1>2, <1>5 DEF Pcd, PcNames
  <2>2. Lockstep' /\ air'.to = "none"
    BY <1>5, SilenceIs, QuietLockstep
  <2> QED BY <1>1, <1>2, <2>1, <2>2 DEF IInv, Typed
<1> QED BY <1>1, <1>3, <1>4, <1>5

\* What an ATS is taken for.
AtsRates(c, maxBR) == IF c.t0 /\ c.ta THEN CalcBitRate(maxBR, c.br) ELSE <<0, 0>>
LEMMA ProcessAtsIs ==
  ASSUME IInv, ProcessAts
  PROVE  LET c == card.is
             br == AtsRates(c, pcd.maxBR)
             supDID == IF c.t0 /\ c.tc THEN c.didSupport ELSE dev.supDID
         IN
         /\ pcd.pc = "RATS" /\ air.to = "pcd" /\ air.msg.type = "ATS"
         /\ dev' = [DSI |-> br[1], DRI |-> br[2],
                    FSx |-> FSxI2FSx(pcd.mode, IF c.t0 THEN c.fsci ELSE 2),
                    FWT |-> FWI2FWT(IF c.t0 /\ c.tb THEN AnnouncedFwi(c) ELSE 4),
                    DID |-> IF supDID THEN pcd.did ELSE 0, supDID |-> supDID]
         /\ pcd' = [pcd EXCEPT !.pc = IF br = <<0, 0>> THEN "active" ELSE "PPS", !.sfgt = TRUE,
                               !.fsx = FSxI2FSx(pcd.mode, IF c.t0 THEN c.fsci ELSE 2),
                               !.ourFsx = FSxI2FSx(pcd.mode, pcd.fsdi)]
         /\ air' = Silence /\ UNCHANGED card
<1>1. pcd.pc = "RATS" /\ air.to = "pcd" /\ air.msg.type = "ATS" /\ Response(air.msg)
  BY DEF ProcessAts, Answered, Waits, IInv, Lockstep, Damaged
<1>2. air.msg = Ats(card.is)
  BY <1>1 DEF Response
<1>3. /\ air.msg.t0 = card.is.t0 /\ air.msg.ta = card.is.ta /\ air.msg.tb = card.is.tb
      /\ air.msg.tc = card.is.tc /\ air.msg.br = card.is.br /\ air.msg.fsci = card.is.fsci
      /\ air.msg.fwi = AnnouncedFwi(card.is) /\ air.msg.didSupport = card.is.didSupport
  BY <1>2 DEF Ats
<1> QED BY ZenonT(60), <1>1, <1>3, Zenon DEF ProcessAts, AtsRates

LEMMA ProcessAtsInv ==
  ASSUME IInv, ProcessAts
  PROVE  IInv'
<1> DEFINE c == card.is
           br == AtsRates(c, pcd.maxBR)
           fsx == FSxI2FSx(pcd.mode, IF c.t0 THEN c.fsci ELSE 2)
           fwt == FWI2FWT(IF c.t0 /\ c.tb THEN AnnouncedFwi(c) ELSE 4)
           ourFsx == FSxI2FSx(pcd.mode, pcd.fsdi)
           sup == IF c.t0 /\ c.tc THEN c.didSupport ELSE dev.supDID
           pc == IF br = <<0, 0>> THEN "active" ELSE "PPS"
<1>1. /\ dev' = [DSI |-> br[1], DRI |-> br[2], FSx |-> fsx, FWT |-> fwt,
                 DID |-> IF sup THEN pcd.did ELSE 0, supDID |-> sup]
      /\ pcd' = [pcd EXCEPT !.pc = pc, !.sfgt = TRUE, !.fsx = fsx, !.ourFsx = ourFsx]
      /\ air' = Silence /\ UNCHANGED card
  BY ProcessAtsIs
<1>2. /\ c \in CardKind /\ c.br \in Announced /\ c.fsci \in Nat /\ c.fwi \in Nat
      /\ c.didSupport \in BOOLEAN /\ pcd \in Pcd /\ dev \in Dev
      /\ pcd.maxBR \in BitRates /\ pcd.fsdi \in Nat /\ pcd.did \in 0..14 /\ dev.supDID \in BOOLEAN
  BY TypeFacts DEF IInv, CardKind, Pcd, Dev, MaxFSxI
<1>3. br[1] \in BitRates /\ br[2] \in BitRates
  <2>1. CalcBitRate(pcd.maxBR, c.br) \in Pair
    BY <1>2, CalcBitRateIsBest
  <2>2. <<0, 0>> \in Pair
    BY DEF Pair, BitRates
  <2>3. br \in Pair
    BY <2>1, <2>2 DEF AtsRates
  <2> HIDE DEF br
  <2> QED BY <2>3 DEF Pair
<1>4. AnnouncedFwi(c) \in Nat
  <2>1. FwiListenMax("NFC") = 8
    BY DEF FwiListenMax
  <2>2. \A f \in Nat : Min({f, 8}) \in {f, 8}
    BY MinIs
  <2> QED BY <1>2, <2>1, <2>2 DEF AnnouncedFwi
<1>5. fsx \in Nat /\ fwt \in Nat /\ ourFsx \in Nat
  BY <1>2, <1>4, FSxIs, FwtIs
<1>6. sup \in BOOLEAN /\ pc \in {"active", "PPS"}
  BY <1>2
<1> HIDE DEF c, br, fsx, fwt, ourFsx, sup, pc
<1>7. dev' \in Dev
  BY <1>1, <1>2, <1>3, <1>5, <1>6 DEF Dev
<1>8. pcd' \in Pcd /\ pcd'.pc = pc /\ pcd'.fsx = fsx
  BY <1>1, <1>2, <1>5, <1>6 DEF Pcd, PcNames, Activated
<1>9. Lockstep'
  BY <1>1, SilenceIs, QuietLockstep
<1> QED BY <1>1, <1>5, <1>6, <1>7, <1>8, <1>9 DEF IInv, Typed

\* The steps of the reader that end in silence and leave the card alone.
LEMMA QuietStep ==
  ASSUME IInv, pcd' \in Pcd, dev' \in Dev, UNCHANGED card, air'.to = "none",
         pcd'.pc \notin {"PCD_TX", "PCD_RX", "BRACK"}
  PROVE  IInv'
  BY QuietLockstep DEF IInv, Typed

LEMMA ActivationStepsInv ==
  ASSUME IInv, Deselected \/ PpsAnswered \/ PpsFails \/ AttribAnswered \/ AttribFails
  PROVE  IInv' /\ air'.to = "none" /\ UNCHANGED card
<1>1. air' = Silence /\ air'.to = "none" /\ UNCHANGED card
  BY SilenceIs DEF Deselected, PpsAnswered, PpsFails, AttribAnswered, AttribFails
<1>2. /\ pcd \in Pcd /\ dev \in Dev /\ dev.DSI \in BitRates /\ dev.DRI \in BitRates
      /\ 0 \in BitRates /\ {"active", "failed"} \subseteq PcNames
      /\ FSxI2FSx(pcd.mode, pcd.fsdi) \in Nat
  BY FSxIs DEF IInv, Typed, Pcd, Dev, BitRates, PcNames, Activated, MaxFSxI
<1>3. CASE Deselected
  <2>1. pcd' = [InitPcd EXCEPT !.pc = "failed"] /\ UNCHANGED dev
    BY <1>3 DEF Deselected
  <2>2. pcd' \in Pcd /\ pcd'.pc = "failed"
    BY ZenonT(60), <1>2, <2>1, InitPcdType DEF Pcd, InitPcd
  <2> QED BY <1>1, <1>2, <2>1, <2>2, QuietStep
<1>4. CASE PpsAnswered
  <2>1. pcd' = [pcd EXCEPT !.pc = "active", !.tx = dev.DRI, !.rx = dev.DSI] /\ UNCHANGED dev
    BY <1>4 DEF PpsAnswered
  <2>2. pcd' \in Pcd /\ pcd'.fsx = pcd.fsx /\ pcd'.pc = "active"
    BY <1>2, <2>1 DEF Pcd
  <2> QED BY <1>1, <1>2, <2>1, <2>2, QuietStep
<1>5. CASE PpsFails
  <2>1. pcd' = [pcd EXCEPT !.pc = "active"] /\ dev' = [dev EXCEPT !.DSI = 0, !.DRI = 0]
    BY <1>5 DEF PpsFails
  <2>2. pcd' \in Pcd /\ pcd'.fsx = pcd.fsx /\ pcd'.pc = "active"
    BY <1>2, <2>1 DEF Pcd
  <2>3. dev' \in Dev
    BY <1>2, <2>1 DEF Dev
  <2> QED BY <1>1, <1>2, <2>2, <2>3, QuietStep
<1>6. CASE AttribAnswered
  <2> DEFINE fsx == FSxI2FSx(pcd.mode, pcd.fsdi)
  <2>1. /\ pcd' = [pcd EXCEPT !.pc = "active", !.tx = dev.DRI, !.rx = dev.DSI, !.sfgt = TRUE,
                              !.ourFsx = fsx]
        /\ UNCHANGED dev
    BY <1>6 DEF AttribAnswered
  <2>3. fsx \in Nat
    BY <1>2
  <2> HIDE DEF fsx
  <2>2. pcd' \in Pcd /\ pcd'.fsx = pcd.fsx /\ pcd'.pc = "active"
    BY <1>2, <2>1, <2>3 DEF Pcd
  <2> QED BY <1>1, <1>2, <2>1, <2>2, QuietStep
<1>7. CASE AttribFails
  <2> DEFINE fsx == FSxI2FSx(pcd.mode, pcd.fsdi)
  <2>1. /\ pcd' = [pcd EXCEPT !.pc = "failed", !.ourFsx = fsx]
        /\ dev' = [dev EXCEPT !.DSI = 0, !.DRI = 0]
    BY <1>7 DEF AttribFails
  <2>4. fsx \in Nat
    BY <1>2
  <2> HIDE DEF fsx
  <2>2. pcd' \in Pcd /\ pcd'.fsx = pcd.fsx /\ pcd'.pc = "failed"
    BY <1>2, <2>1, <2>4 DEF Pcd
  <2>3. dev' \in Dev
    BY <1>2, <2>1 DEF Dev
  <2> QED BY <1>1, <1>2, <2>2, <2>3, QuietStep
<1> QED BY <1>1, <1>3, <1>4, <1>5, <1>6, <1>7

LEMMA SfgtExpiresInv ==
  ASSUME IInv, SfgtExpires
  PROVE  IInv'
<1>1. pcd' = [pcd EXCEPT !.sfgt = FALSE] /\ UNCHANGED <<dev, card, air>>
  BY DEF SfgtExpires
<1>2. /\ pcd' \in Pcd /\ pcd'.pc = pcd.pc /\ pcd'.fsx = pcd.fsx /\ pcd'.inf = pcd.inf
      /\ pcd'.pos = pcd.pos /\ pcd'.apdu = pcd.apdu /\ Rats(pcd') = Rats(pcd)
      /\ \A br : Attrib(pcd', br) = Attrib(pcd, br)
  BY <1>1 DEF IInv, Typed, Pcd, Rats, Attrib
<1>3. Typed'
  BY <1>1, <1>2 DEF IInv, Typed
<1>4. Lockstep'
  BY ZenonT(60), <1>1, <1>2 DEF IInv, Lockstep, Request, Response, Pps, HdrLen, Ats, AnnouncedFwi
<1> QED BY <1>3, <1>4 DEF IInv

LEMMA PpsInv ==
  ASSUME IInv, rfalIsoDepPPS
  PROVE  IInv'
<1>1. /\ pcd' = [pcd EXCEPT !.pc = "PPSRES"] /\ UNCHANGED <<dev, card>>
      /\ ToCard(Pps)
  BY DEF rfalIsoDepPPS, Pps
<1>2. pcd' \in Pcd /\ pcd'.pc = "PPSRES" /\ pcd'.fsx = pcd.fsx
  BY <1>1 DEF IInv, Typed, Pcd, PcNames, Activated
<1>3. air'.to = "none" \/ (air'.to = "card" /\ air'.msg \in {Pps, Damaged})
  BY <1>1, SentIs DEF ToCard
<1>4. Lockstep'
  BY <1>1, <1>2, <1>3 DEF Lockstep, Request, Asking, Pps
<1> QED BY <1>1, <1>2, <1>4 DEF IInv, Typed

LEMMA SParametersInv ==
  ASSUME IInv, NEW maxBR \in MaxBRs, rfalIsoDepPollHandleSParameters(maxBR)
  PROVE  IInv'
<1>1. /\ pcd' = [pcd EXCEPT !.pc = "BRIND", !.maxBR = maxBR] /\ UNCHANGED <<dev, card>>
      /\ ToCard([type |-> "BRREQ"])
  BY DEF rfalIsoDepPollHandleSParameters
<1>2. pcd' \in Pcd /\ pcd'.pc = "BRIND" /\ pcd'.fsx = pcd.fsx
  BY <1>1, ArgumentTypes DEF IInv, Typed, Pcd, PcNames, Activated
<1>3. air'.to = "none" \/ (air'.to = "card" /\ air'.msg \in {[type |-> "BRREQ"], Damaged})
  BY <1>1, SentIs DEF ToCard
<1>4. Lockstep'
  BY <1>1, <1>2, <1>3 DEF Lockstep, Request, Asking
<1> QED BY <1>1, <1>2, <1>4 DEF IInv, Typed

LEMMA BrIndAnsweredInv ==
  ASSUME IInv, BrIndAnswered
  PROVE  IInv'
<1> DEFINE tx == Highest(air.msg.tx, pcd.maxBR)
           rx == Highest(air.msg.rx, pcd.maxBR)
<1>1. /\ pcd' = [pcd EXCEPT !.pc = "BRACK", !.inf = <<tx, rx>>] /\ UNCHANGED <<dev, card>>
      /\ ToCard([type |-> "BRACT", tx |-> tx, rx |-> rx])
  BY DEF BrIndAnswered, Highest
<1>2. air.msg = [type |-> "BRIND", tx |-> card.is.sp.tx, rx |-> card.is.sp.rx]
  BY DEF BrIndAnswered, Answered, Waits, IInv, Lockstep, Response, Damaged
<1>3. card.is.sp.tx \in SUBSET BitRates /\ card.is.sp.rx \in SUBSET BitRates
      /\ pcd.maxBR \in BitRates
  BY TypeFacts DEF IInv, Typed, CardKind, Pcd
<1>4. tx \in BitRates /\ rx \in BitRates
  <2>1. air.msg.tx \in SUBSET BitRates /\ air.msg.rx \in SUBSET BitRates
    BY <1>2, <1>3
  <2> QED BY ONLY <1>3, <2>1, HighestIs
<1> HIDE DEF tx, rx
<1>5. <<tx, rx>> \in Pair /\ <<tx, rx>>[1] = tx /\ <<tx, rx>>[2] = rx
  BY <1>4 DEF Pair
<1>6. pcd' \in Pcd /\ pcd'.pc = "BRACK" /\ pcd'.fsx = pcd.fsx /\ pcd'.inf = <<tx, rx>>
  BY <1>1, <1>5 DEF IInv, Typed, Pcd, PcNames, Activated
<1>7. \/ air'.to = "none"
      \/ air'.to = "card" /\ air'.msg \in {[type |-> "BRACT", tx |-> tx, rx |-> rx], Damaged}
  BY <1>1, SentIs DEF ToCard
<1>8. Lockstep'
  BY <1>5, <1>6, <1>7 DEF Lockstep, Request, Asking
<1> QED BY <1>1, <1>5, <1>6, <1>8 DEF IInv, Typed

LEMMA TunedInv ==
  ASSUME IInv, BrAckAnswered \/ SParametersFail
  PROVE  IInv' /\ air'.to = "none" /\ pcd'.pc = "tuned" /\ UNCHANGED card
<1>1. air'.to = "none" /\ UNCHANGED card
  BY SilenceIs DEF BrAckAnswered, SParametersFail
<1>2. pcd \in Pcd /\ dev \in Dev /\ "tuned" \in PcNames /\ 0 \in Nat
  BY DEF IInv, Typed, PcNames, Activated
<1>3. CASE BrAckAnswered
  <2>1. /\ pcd.pc = "BRACK"
        /\ pcd' = [pcd EXCEPT !.pc = "tuned", !.tx = pcd.inf[1], !.rx = pcd.inf[2], !.inf = 0]
        /\ dev' = [dev EXCEPT !.DRI = pcd.inf[1], !.DSI = pcd.inf[2]]
    BY <1>3 DEF BrAckAnswered, Answered, Waits
  <2>2. pcd.inf[1] \in BitRates /\ pcd.inf[2] \in BitRates
    BY <2>1 DEF IInv, Typed, Pair
  <2>3. pcd' \in Pcd /\ pcd'.pc = "tuned" /\ pcd'.fsx = pcd.fsx
    BY <1>2, <2>1, <2>2 DEF Pcd
  <2>4. dev' \in Dev
    BY <1>2, <2>1, <2>2 DEF Dev
  <2> QED BY <1>1, <1>2, <2>3, <2>4, QuietStep
<1>4. CASE SParametersFail
  <2>1. pcd' = [pcd EXCEPT !.pc = "tuned", !.inf = 0] /\ UNCHANGED dev
    BY <1>4 DEF SParametersFail
  <2>2. pcd' \in Pcd /\ pcd'.pc = "tuned" /\ pcd'.fsx = pcd.fsx
    BY <1>2, <2>1 DEF Pcd
  <2> QED BY <1>1, <1>2, <2>1, <2>2, QuietStep
<1> QED BY <1>3, <1>4, <1>1

\* The next block fits in a frame, and is not longer than what is left.
LEMMA NextBlockIs ==
  ASSUME NEW p \in Pcd, NEW pos \in Nat, pos <= p.apdu
  PROVE  LET q == NextBlock(p, pos) IN
         /\ q \in Pcd /\ q.pc = "PCD_TX" /\ q.pos = pos /\ q.inf \in Nat
         /\ q.pos + q.inf <= q.apdu /\ q.pos <= q.apdu
         /\ q.fsx = p.fsx /\ q.ourFsx = p.ourFsx /\ q.apdu = p.apdu
         /\ q.mode = p.mode /\ q.fsdi = p.fsdi /\ q.did = p.did /\ q.sfgt = p.sfgt
         /\ q.tx = p.tx /\ q.rx = p.rx /\ q.maxBR = p.maxBR
<1> DEFINE most == rfalIsoDepGetMaxInfLen(p)
           inf == Min({p.apdu - pos, most})
<1>1. p.apdu \in Nat /\ p.fsx \in Nat /\ p.hdrLen \in {1, 2}
  BY DEF Pcd
<1>2. most \in Nat
  BY <1>1 DEF rfalIsoDepGetMaxInfLen, PcbLen, CrcLen
<1> HIDE DEF most
<1>3. p.apdu - pos \in Nat
  BY <1>1
<1>4. inf \in Nat /\ inf <= p.apdu - pos
  <2> DEFINE left == p.apdu - pos
  <2> HIDE DEF left
  <2>1. left \in Nat /\ left \in Int /\ most \in Int
    BY <1>2, <1>3 DEF left
  <2>2. Min({left, most}) \in {left, most} /\ Min({left, most}) <= left
    BY ONLY <2>1, MinIs
  <2>3. Min({left, most}) \in Nat
    BY <1>2, <2>1, <2>2
  <2> QED BY <2>2, <2>3 DEF left
<1>5. NextBlock(p, pos) = [p EXCEPT !.pc = "PCD_TX", !.pos = pos, !.inf = inf]
  BY DEF NextBlock, most
<1> HIDE DEF inf
<1>6. /\ NextBlock(p, pos) \in Pcd /\ NextBlock(p, pos).pc = "PCD_TX"
      /\ NextBlock(p, pos).pos = pos /\ NextBlock(p, pos).inf = inf
      /\ NextBlock(p, pos).fsx = p.fsx /\ NextBlock(p, pos).ourFsx = p.ourFsx
      /\ NextBlock(p, pos).apdu = p.apdu /\ NextBlock(p, pos).mode = p.mode
      /\ NextBlock(p, pos).fsdi = p.fsdi /\ NextBlock(p, pos).did = p.did
      /\ NextBlock(p, pos).sfgt = p.sfgt /\ NextBlock(p, pos).tx = p.tx
      /\ NextBlock(p, pos).rx = p.rx /\ NextBlock(p, pos).maxBR = p.maxBR
  BY ZenonT(60), <1>4, <1>5 DEF Pcd, PcNames, Activated
<1>7. pos + inf <= p.apdu
  BY <1>1, <1>4
<1> QED BY <1>4, <1>6, <1>7

\* What the first and the next block leave as it is.
StartedFrom(p, q) ==
  /\ q.mode = p.mode /\ q.fsdi = p.fsdi /\ q.did = p.did /\ q.sfgt = p.sfgt
  /\ q.tx = p.tx /\ q.rx = p.rx /\ q.maxBR = p.maxBR

LEMMA StartApduInv ==
  ASSUME IInv, NEW len \in ApduLens, rfalIsoDepStartApduTransceive(len)
  PROVE  /\ IInv' /\ StartedFrom(pcd, pcd') /\ UNCHANGED <<dev, card, air>>
         /\ pcd.pc \in {"active", "tuned"} /\ pcd'.pc = "PCD_TX"
         /\ pcd'.fsx = dev.FSx /\ pcd'.ourFsx \in {KeepFSx, pcd.ourFsx}
<1>1. PICK ourFsx \in {KeepFSx, pcd.ourFsx} :
        pcd' = NextBlock([pcd EXCEPT !.apdu = len, !.fsx = dev.FSx, !.ourFsx = ourFsx], 0)
  BY DEF rfalIsoDepStartApduTransceive
<1> DEFINE p == [pcd EXCEPT !.apdu = len, !.fsx = dev.FSx, !.ourFsx = ourFsx]
<1>2. pcd.pc \in {"active", "tuned"} /\ UNCHANGED <<dev, card, air>>
  BY DEF rfalIsoDepStartApduTransceive
<1>3. len \in Nat /\ dev.FSx \in Nat /\ ourFsx \in Nat
  BY ArgumentTypes DEF IInv, Typed, Pcd, Dev, KeepFSx
<1>4. /\ p \in Pcd /\ p.apdu = len /\ p.fsx = dev.FSx /\ p.ourFsx = ourFsx
      /\ StartedFrom(pcd, p)
  BY <1>3 DEF IInv, Typed, Pcd, StartedFrom
<1> HIDE DEF p
<1>5. /\ pcd' \in Pcd /\ pcd'.pc = "PCD_TX" /\ pcd'.inf \in Nat
      /\ pcd'.pos + pcd'.inf <= pcd'.apdu /\ pcd'.pos <= pcd'.apdu
      /\ pcd'.fsx = p.fsx /\ pcd'.ourFsx = p.ourFsx /\ StartedFrom(p, pcd')
  <2>1. pcd' = NextBlock(p, 0)
    BY <1>1 DEF p
  <2>2. 0 \in Nat /\ 0 <= p.apdu
    BY <1>3, <1>4
  <2> QED BY <1>4, <2>1, <2>2, NextBlockIs DEF StartedFrom
<1>6. air.to = "none"
  BY <1>2, NotAsking DEF IInv, Asking
<1>7. Lockstep'
  BY <1>2, <1>6, QuietLockstep
<1>8. StartedFrom(pcd, pcd')
  BY <1>4, <1>5 DEF StartedFrom
<1> QED BY <1>2, <1>4, <1>5, <1>7, <1>8 DEF IInv, Typed

LEMMA PcdTxInv ==
  ASSUME IInv, PcdTx
  PROVE  /\ IInv' /\ StartedFrom(pcd, pcd') /\ UNCHANGED <<dev, card>> /\ ~pcd.sfgt
         /\ pcd.pc = "PCD_TX" /\ pcd'.pc \in {"refused", "PCD_RX"}
         /\ pcd'.fsx = pcd.fsx /\ pcd'.ourFsx = pcd.ourFsx /\ air'.to # "pcd"
<1>1. pcd.pc = "PCD_TX" /\ ~pcd.sfgt /\ UNCHANGED <<dev, card>>
  BY DEF PcdTx, Waits
<1>2. pcd \in Pcd /\ HdrLen \in {1, 2} /\ {"refused", "PCD_RX"} \subseteq PcNames
  BY DEF IInv, Typed, HdrLen, PcbLen, PcNames, Activated
<1>3. air.to = "none"
  BY <1>1, NotAsking DEF IInv, Asking
<1>4. CASE pcd' = [pcd EXCEPT !.pc = "refused", !.hdrLen = HdrLen] /\ UNCHANGED air
  <2>1. /\ pcd' \in Pcd /\ pcd'.pc = "refused" /\ pcd'.fsx = pcd.fsx
        /\ pcd'.ourFsx = pcd.ourFsx /\ StartedFrom(pcd, pcd')
    BY <1>2, <1>4 DEF Pcd, StartedFrom
  <2> QED BY <1>1, <1>3, <1>4, <2>1, QuietLockstep DEF IInv, Typed
<1>5. CASE /\ pcd' = [pcd EXCEPT !.pc = "PCD_RX", !.hdrLen = HdrLen]
           /\ air' = Frame("card", pcd.tx, [type |-> "I", did |-> dev.DID,
                                            len |-> HdrLen + pcd.inf + CrcLen, inf |-> pcd.inf])
  <2>1. /\ pcd' \in Pcd /\ pcd'.pc = "PCD_RX" /\ pcd'.fsx = pcd.fsx /\ pcd'.inf = pcd.inf
        /\ pcd'.pos = pcd.pos /\ pcd'.apdu = pcd.apdu
        /\ pcd'.ourFsx = pcd.ourFsx /\ StartedFrom(pcd, pcd')
    BY <1>2, <1>5 DEF Pcd, StartedFrom
  <2>2. Lockstep'
    BY <1>1, <1>5, <2>1 DEF Lockstep, Request, Asking, Frame, HdrLen
  <2>3. air'.to # "pcd"
    BY <1>5 DEF Frame
  <2> QED BY <1>1, <2>1, <2>2, <2>3 DEF IInv, Typed
<1>6. \/ pcd' = [pcd EXCEPT !.pc = "refused", !.hdrLen = HdrLen] /\ UNCHANGED air
      \/ /\ pcd' = [pcd EXCEPT !.pc = "PCD_RX", !.hdrLen = HdrLen]
         /\ air' = Frame("card", pcd.tx, [type |-> "I", did |-> dev.DID,
                                          len |-> HdrLen + pcd.inf + CrcLen, inf |-> pcd.inf])
  BY DEF PcdTx
<1> QED BY <1>4, <1>5, <1>6

LEMMA BlockEndsInv ==
  ASSUME IInv, BlockDone \/ BlockFails
  PROVE  /\ IInv' /\ StartedFrom(pcd, pcd') /\ UNCHANGED <<dev, card>>
         /\ pcd.pc = "PCD_RX" /\ pcd'.pc \in {"PCD_TX", "sent", "failed"}
         /\ pcd'.fsx = pcd.fsx /\ pcd'.ourFsx = pcd.ourFsx /\ air'.to = "none"
<1>1. /\ pcd.pc = "PCD_RX" /\ air' = Silence /\ UNCHANGED <<dev, card>>
      /\ \/ pcd.pos + pcd.inf < pcd.apdu /\ pcd' = NextBlock(pcd, pcd.pos + pcd.inf)
         \/ \E pc \in {"sent", "failed"} : pcd' = [pcd EXCEPT !.pc = pc]
  BY DEF BlockDone, BlockFails, Answered, Unanswered, BadAnswer, Waits
<1>2. pcd \in Pcd /\ pcd.inf \in Nat /\ pcd.pos \in Nat /\ pcd.apdu \in Nat
  BY <1>1 DEF IInv, Typed, Pcd
<1>3. air'.to = "none" /\ Lockstep'
  BY <1>1, SilenceIs, QuietLockstep
<1>4. CASE pcd.pos + pcd.inf < pcd.apdu /\ pcd' = NextBlock(pcd, pcd.pos + pcd.inf)
  <2> DEFINE pos == pcd.pos + pcd.inf
  <2>1. pos \in Nat /\ pos <= pcd.apdu
    BY <1>2, <1>4
  <2>2. pcd' = NextBlock(pcd, pos)
    BY <1>4
  <2> HIDE DEF pos
  <2>3. /\ pcd' \in Pcd /\ pcd'.pc = "PCD_TX" /\ pcd'.inf \in Nat
        /\ pcd'.pos + pcd'.inf <= pcd'.apdu /\ pcd'.pos <= pcd'.apdu
        /\ pcd'.fsx = pcd.fsx /\ pcd'.ourFsx = pcd.ourFsx /\ StartedFrom(pcd, pcd')
    BY <1>2, <2>1, <2>2, NextBlockIs DEF StartedFrom
  <2> QED BY <1>1, <1>3, <2>3 DEF IInv, Typed
<1>5. ASSUME NEW pc \in {"sent", "failed"}, pcd' = [pcd EXCEPT !.pc = pc]
      PROVE  /\ pcd' \in Pcd /\ pcd'.pc = pc /\ pcd'.fsx = pcd.fsx /\ pcd'.ourFsx = pcd.ourFsx
             /\ StartedFrom(pcd, pcd')
  BY <1>2, <1>5 DEF Pcd, PcNames, Activated, StartedFrom
<1>6. CASE \E pc \in {"sent", "failed"} : pcd' = [pcd EXCEPT !.pc = pc]
  BY <1>1, <1>3, <1>5, <1>6 DEF IInv, Typed
<1> QED BY <1>1, <1>4, <1>6

LEMMA DeactivateInv ==
  ASSUME IInv, Deactivate
  PROVE  IInv' /\ pcd'.pc = "idle" /\ air'.to = "none" /\ ~card'.guard
<1>1. PICK c \in Cards : card' = InitCard(c)
  BY DEF Deactivate
<1>2. pcd' = [InitPcd EXCEPT !.sfgt = pcd.sfgt] /\ air' = Silence /\ UNCHANGED dev
  BY DEF Deactivate
<1>3. card' \in Picc /\ card'.is \in Cards /\ ~card'.guard
  BY <1>1, InitCardType DEF InitCard
<1>4. pcd' \in Pcd /\ pcd'.pc = "idle"
  BY <1>2, InitPcdType DEF IInv, Typed, Pcd, InitPcd
<1>5. air'.to = "none" /\ Lockstep'
  BY <1>2, SilenceIs, QuietLockstep
<1> QED BY <1>2, <1>3, <1>4, <1>5 DEF IInv, Typed

-----------------------------------------------------------------------------
(* The steps of the card.                                                  *)

\* The card answers the request of the reader, or does nothing.
LEMMA CardStep ==
  ASSUME IInv, UNCHANGED <<pcd, dev>>, card' \in Picc, card'.is = card.is, Lockstep'
  PROVE  IInv'
  BY DEF IInv, Typed

\* What a card that understands a request of this type has been told.
LEMMA RequestIs ==
  ASSUME IInv
  PROVE  /\ Receives("RATS") => pcd.pc = "RATS" /\ air.msg = Rats(pcd)
         /\ Receives("PPS") => pcd.pc = "PPSRES" /\ air.msg = Pps
         /\ Receives("ATTRIB") =>
              pcd.pc = "ATTRIB" /\ air.msg = Attrib(pcd, <<dev.DSI, dev.DRI>>)
         /\ Receives("BRREQ") => pcd.pc = "BRIND"
         /\ Receives("BRACT") =>
              /\ pcd.pc = "BRACK"
              /\ air.msg = [type |-> "BRACT", tx |-> pcd.inf[1], rx |-> pcd.inf[2]]
         /\ Receives("I") => pcd.pc = "PCD_RX" /\ air.msg.inf = pcd.inf
<1>1. air.to = "card" /\ air.msg.type # "damaged" => Request(air.msg)
  BY DEF IInv, Lockstep, Damaged
<1>2. \A type : Receives(type) => air.to = "card" /\ air.msg.type = type
  BY DEF Receives
<1> QED BY <1>1, <1>2 DEF Request, Rats, Pps, Attrib

LEMMA CardFSxIs == ASSUME NEW i \in Nat PROVE CardFSx(i) \in Nat
  BY FSxIs DEF CardFSx

LEMMA AnnouncedFwiIs ==
  ASSUME NEW c \in CardKind
  PROVE  AnnouncedFwi(c) \in Nat
<1>1. FwiListenMax("NFC") = 8 /\ c.fwi \in Nat
  BY DEF FwiListenMax, CardKind
<1>2. \A f \in Nat : Min({f, 8}) \in {f, 8}
  BY MinIs
<1> QED BY <1>1, <1>2 DEF AnnouncedFwi

LEMMA ListenStartActivationInv ==
  ASSUME IInv, ListenStartActivation
  PROVE  /\ IInv' /\ UNCHANGED <<pcd, dev>> /\ pcd.pc = "RATS" /\ air'.to # "card"
         /\ air'.to = "pcd" => air'.msg.type \in {"ATS", "damaged"}
         /\ card'.is = card.is /\ card'.did = CommonDid
         /\ card'.fsx = CardFSx(pcd.fsdi)
         /\ card'.ourFsx = CardFSx(IF card.is.t0 THEN card.is.fsci ELSE 2)
         /\ card'.fwt = FWI2FWT(IF card.is.t0 /\ card.is.tb THEN AnnouncedFwi(card.is) ELSE 4)
<1> DEFINE c == card.is
           fwi == AnnouncedFwi(c)
           did == IF c.didSupport THEN air.msg.did ELSE 0
           fsx == CardFSx(air.msg.fsdi)
           ourFsx == CardFSx(IF c.t0 THEN c.fsci ELSE 2)
           fwt == FWI2FWT(IF c.t0 /\ c.tb THEN fwi ELSE 4)
<1>1. /\ card' = [card EXCEPT !.st = "ACT_ATS", !.guard = TRUE, !.did = did, !.fsx = fsx,
                              !.ourFsx = ourFsx, !.fwt = fwt]
      /\ air' \in Sent("pcd", card.tx, Ats(c))
      /\ UNCHANGED <<pcd, dev>> /\ Receives("RATS")
  BY DEF ListenStartActivation, ToPcd, Ats, AnnouncedFwi, Library
<1>2. pcd.pc = "RATS" /\ air.msg = Rats(pcd)
  BY <1>1, RequestIs
<1>3. air.msg.did = pcd.did /\ air.msg.fsdi = pcd.fsdi
  BY <1>2 DEF Rats
<1>4. /\ pcd.did \in 0..14 /\ pcd.fsdi \in Nat /\ c \in CardKind /\ c.fsci \in Nat
      /\ card \in Picc
  BY TypeFacts DEF IInv, Pcd, CardKind, MaxFSxI
<1>5. did = CommonDid /\ did \in 0..14 /\ fsx = CardFSx(pcd.fsdi) /\ fsx \in Nat /\ ourFsx \in Nat
  BY <1>3, <1>4, CardFSxIs DEF CommonDid
<1>6. fwt \in Nat
  BY <1>4, AnnouncedFwiIs, FwtIs
<1>7. /\ ourFsx = CardFSx(IF card.is.t0 THEN card.is.fsci ELSE 2)
      /\ fwt = FWI2FWT(IF card.is.t0 /\ card.is.tb THEN AnnouncedFwi(card.is) ELSE 4)
  OBVIOUS
<1> HIDE DEF did, fsx, ourFsx, fwt
<1>8. /\ card' \in Picc /\ card'.is = card.is /\ card'.did = did /\ card'.fsx = fsx
      /\ card'.ourFsx = ourFsx /\ card'.fwt = fwt
  BY <1>1, <1>4, <1>5, <1>6 DEF Picc, PiccNames
<1> HIDE DEF c
<1>9. air'.to = "none" \/ (air'.to = "pcd" /\ air'.msg \in {Ats(card.is), Damaged})
  BY <1>1, SentIs DEF c
<1>10. Ats(card'.is) = Ats(card.is)
  BY <1>8
<1>11. Lockstep'
  BY <1>1, <1>2, <1>8, <1>9 DEF Lockstep, Response, Asking
<1>12. air'.to # "card" /\ (air'.to = "pcd" => air'.msg.type \in {"ATS", "damaged"})
  BY <1>9 DEF Ats, Damaged
<1>13. IInv'
  BY <1>1, <1>8, <1>11, CardStep
<1> QED BY <1>1, <1>2, <1>5, <1>7, <1>8, <1>12, <1>13

LEMMA ReceivePpsInv ==
  ASSUME IInv, ReceivePps
  PROVE  /\ IInv' /\ UNCHANGED <<pcd, dev>> /\ pcd.pc = "PPSRES" /\ air'.to # "card"
         /\ air'.to = "pcd" => air'.msg.type \in {"PPSRES", "damaged"}
         /\ \/ air'.to = "none" /\ UNCHANGED card
            \/ /\ card' = [card EXCEPT !.st = "switching", !.next = <<dev.DSI, dev.DRI>>]
               /\ card'.st = "switching" /\ card'.next = <<dev.DSI, dev.DRI>>
         /\ card'.is = card.is /\ card'.guard = card.guard /\ card'.did = card.did
         /\ card'.fsx = card.fsx /\ card'.ourFsx = card.ourFsx /\ card'.fwt = card.fwt
<1>1. pcd.pc = "PPSRES" /\ air.msg = Pps /\ UNCHANGED <<pcd, dev>>
  BY RequestIs DEF ReceivePps
<1>2. air.msg.dsi = dev.DSI /\ air.msg.dri = dev.DRI
  BY <1>1 DEF Pps
<1>3. card \in Picc /\ <<dev.DSI, dev.DRI>> \in Pair
  BY TypeFacts DEF IInv, Dev, Pair
<1>4. CASE air' = Silence /\ UNCHANGED card
  BY <1>1, <1>3, <1>4, SilenceIs, QuietLockstep, CardStep
<1>5. CASE /\ card' = [card EXCEPT !.st = "switching", !.next = <<dev.DSI, dev.DRI>>]
           /\ ToPcd([type |-> "PPSRES"])
  <2> DEFINE next == <<dev.DSI, dev.DRI>>
  <2>1. next \in Pair
    BY <1>3
  <2>2. next = <<dev.DSI, dev.DRI>>
    OBVIOUS
  <2> HIDE DEF next
  <2>3. /\ card' \in Picc /\ card'.is = card.is /\ card'.st = "switching" /\ card'.next = next
        /\ card'.guard = card.guard /\ card'.did = card.did /\ card'.fsx = card.fsx
        /\ card'.ourFsx = card.ourFsx /\ card'.fwt = card.fwt
    BY <1>3, <1>5, <2>1, <2>2 DEF Picc, PiccNames
  <2>4. air'.to = "none" \/ (air'.to = "pcd" /\ air'.msg \in {[type |-> "PPSRES"], Damaged})
    BY <1>5, SentIs DEF ToPcd
  <2>5. Lockstep'
    BY <1>1, <2>4 DEF Lockstep, Response, Asking
  <2>6. IInv'
    BY <1>1, <2>3, <2>5, CardStep
  <2> QED BY <1>1, <1>5, <2>2, <2>3, <2>4, <2>6 DEF Damaged
<1>6. \/ air' = Silence /\ UNCHANGED card
      \/ /\ card' = [card EXCEPT !.st = "switching", !.next = <<dev.DSI, dev.DRI>>]
         /\ ToPcd([type |-> "PPSRES"])
  BY <1>2 DEF ReceivePps
<1> QED BY <1>4, <1>5, <1>6

LEMMA ReceiveAttribInv ==
  ASSUME IInv, ReceiveAttrib
  PROVE  /\ IInv' /\ UNCHANGED <<pcd, dev>> /\ pcd.pc = "ATTRIB" /\ air'.to # "card"
         /\ air'.to = "pcd" => air'.msg.type \in {"ATTRIBRES", "damaged"}
         /\ card'.is = card.is /\ card'.did = pcd.did
         /\ card'.fsx = CardFSx(pcd.fsdi) /\ card'.ourFsx = CardFSx(card.is.fsci)
         /\ card'.fwt = FWI2FWT(card.is.fwi)
         /\ card'.st = "switching" /\ card'.next = <<dev.DSI, dev.DRI>>
<1> DEFINE c == card.is
           next == <<air.msg.dsi, air.msg.dri>>
           fsx == CardFSx(air.msg.fsdi)
           ourFsx == CardFSx(c.fsci)
           fwt == FWI2FWT(c.fwi)
           did == air.msg.did
<1>1. /\ card' = [card EXCEPT !.st = "switching", !.next = next, !.did = did, !.guard = TRUE,
                              !.fsx = fsx, !.ourFsx = ourFsx, !.fwt = fwt]
      /\ ToPcd([type |-> "ATTRIBRES"]) /\ UNCHANGED <<pcd, dev>> /\ Receives("ATTRIB")
  BY DEF ReceiveAttrib
<1>2. pcd.pc = "ATTRIB" /\ air.msg = Attrib(pcd, <<dev.DSI, dev.DRI>>)
  BY <1>1, RequestIs
<1>3. did = pcd.did /\ air.msg.fsdi = pcd.fsdi /\ next = <<dev.DSI, dev.DRI>>
  BY <1>2 DEF Attrib
<1>4. /\ pcd.did \in 0..14 /\ pcd.fsdi \in Nat /\ c.fsci \in Nat /\ c.fwi \in Nat
      /\ card \in Picc /\ <<dev.DSI, dev.DRI>> \in Pair
  BY TypeFacts DEF IInv, Pcd, CardKind, MaxFSxI, Dev, Pair
<1>5. fsx = CardFSx(pcd.fsdi) /\ fsx \in Nat /\ ourFsx \in Nat /\ fwt \in Nat
      /\ ourFsx = CardFSx(card.is.fsci) /\ fwt = FWI2FWT(card.is.fwi) /\ next \in Pair
  BY <1>3, <1>4, CardFSxIs, FwtIs
<1> HIDE DEF did, fsx, ourFsx, fwt, next, c
<1>6. /\ card' \in Picc /\ card'.is = card.is /\ card'.did = did /\ card'.fsx = fsx
      /\ card'.ourFsx = ourFsx /\ card'.fwt = fwt /\ card'.st = "switching"
      /\ card'.next = next
  BY ZenonT(60), <1>1, <1>3, <1>4, <1>5 DEF Picc, PiccNames
<1>7. air'.to = "none" \/ (air'.to = "pcd" /\ air'.msg \in {[type |-> "ATTRIBRES"], Damaged})
  BY <1>1, SentIs DEF ToPcd
<1>8. Lockstep'
  BY <1>1, <1>2, <1>7 DEF Lockstep, Response, Asking
<1>9. IInv'
  BY <1>1, <1>6, <1>8, CardStep
<1> QED BY <1>1, <1>2, <1>3, <1>5, <1>6, <1>7, <1>9 DEF Damaged

LEMMA SwitchInv ==
  ASSUME IInv, Switch
  PROVE  /\ IInv' /\ UNCHANGED <<pcd, dev, air>> /\ card'.is = card.is
         /\ card'.guard = card.guard /\ card'.did = card.did /\ card'.fsx = card.fsx
         /\ card'.ourFsx = card.ourFsx /\ card'.fwt = card.fwt
         /\ card.st = "switching" /\ card'.st = "PICC_RX"
         /\ <<card'.tx, card'.rx>> = card.next
<1>1. /\ card.st = "switching" /\ UNCHANGED <<pcd, dev, air>>
      /\ card' = [card EXCEPT !.st = "PICC_RX", !.tx = card.next[1], !.rx = card.next[2]]
  BY DEF Switch
<1>2. card \in Picc /\ card.next \in Pair
  BY DEF IInv, Typed, Picc
<1>3. card.next[1] \in BitRates /\ card.next[2] \in BitRates
      /\ card.next = <<card.next[1], card.next[2]>>
  BY <1>2 DEF Pair
<1>4. /\ card' \in Picc /\ card'.is = card.is /\ card'.guard = card.guard
      /\ card'.did = card.did /\ card'.fsx = card.fsx /\ card'.ourFsx = card.ourFsx
      /\ card'.fwt = card.fwt /\ card'.st = "PICC_RX"
      /\ card'.tx = card.next[1] /\ card'.rx = card.next[2]
  BY <1>1, <1>2, <1>3 DEF Picc, PiccNames
<1>5. Lockstep'
  BY <1>1, <1>4 DEF IInv, Lockstep, Request, Response, Rats, Attrib, Pps, HdrLen, Ats, AnnouncedFwi
<1> QED BY <1>1, <1>3, <1>4, <1>5, CardStep

\* What is the same for the card after a step that is about none of the parameters.
SameCard ==
  /\ card'.is = card.is /\ card'.did = card.did /\ card'.fsx = card.fsx
  /\ card'.ourFsx = card.ourFsx /\ card'.fwt = card.fwt /\ card'.guard = card.guard

LEMMA ReceiveOtherInv ==
  ASSUME IInv, ReceiveOther \/ Ignores
  PROVE  /\ IInv' /\ UNCHANGED <<pcd, dev>> /\ SameCard
         /\ air.to = "card" /\ air' \in {air, Silence}
<1>1. /\ card' \in {card, [card EXCEPT !.st = "PICC_RX"]} /\ UNCHANGED <<pcd, dev>>
      /\ air' \in {air, Silence} /\ air.to = "card"
  BY DEF ReceiveOther, Ignores
<1>2. card' \in Picc /\ SameCard
  BY <1>1 DEF IInv, Typed, Picc, PiccNames, SameCard
<1>3. CASE air' = Silence
  BY <1>1, <1>2, <1>3, SilenceIs, QuietLockstep, CardStep DEF SameCard
<1>4. CASE air' = air
  <2>1. Lockstep'
    BY <1>1, <1>2, <1>4
       DEF IInv, Lockstep, Request, Response, Rats, Attrib, Pps, HdrLen, Ats, AnnouncedFwi, SameCard
  <2> QED BY <1>1, <1>2, <2>1, CardStep DEF SameCard
<1> QED BY <1>1, <1>3, <1>4

LEMMA ReceiveSParametersInv ==
  ASSUME IInv, ReceiveSParameters
  PROVE  /\ IInv' /\ UNCHANGED <<pcd, dev>> /\ SameCard /\ air'.to # "card"
         /\ \/ pcd.pc = "BRIND" /\ (air'.to = "pcd" => air'.msg.type \in {"BRIND", "damaged"})
            \/ /\ pcd.pc = "BRACK" /\ (air'.to = "pcd" => air'.msg.type \in {"BRACK", "damaged"})
               /\ card'.st = "switching" /\ card'.next = <<pcd.inf[2], pcd.inf[1]>>
<1>1. card \in Picc /\ UNCHANGED <<pcd, dev>>
  BY DEF IInv, Typed, ReceiveSParameters
<1>2. CASE /\ Receives("BRREQ") /\ UNCHANGED card
           /\ ToPcd([type |-> "BRIND", tx |-> card.is.sp.tx, rx |-> card.is.sp.rx])
  <2>1. pcd.pc = "BRIND"
    BY <1>2, RequestIs
  <2>2. \/ air'.to = "none"
        \/ /\ air'.to = "pcd"
           /\ air'.msg \in {[type |-> "BRIND", tx |-> card.is.sp.tx, rx |-> card.is.sp.rx], Damaged}
    BY <1>2, SentIs DEF ToPcd
  <2>3. Lockstep'
    BY <1>1, <1>2, <2>1, <2>2 DEF Lockstep, Response, Asking
  <2>4. SameCard
    BY <1>2 DEF SameCard
  <2>5. IInv'
    BY <1>1, <1>2, <2>3, CardStep
  <2> QED BY <1>1, <2>1, <2>2, <2>4, <2>5 DEF Damaged
<1>3. CASE /\ Receives("BRACT") /\ ToPcd([type |-> "BRACK"])
           /\ card' = [card EXCEPT !.st = "switching", !.next = <<air.msg.rx, air.msg.tx>>]
  <2>1. /\ pcd.pc = "BRACK" /\ air.msg.tx = pcd.inf[1] /\ air.msg.rx = pcd.inf[2]
    BY <1>3, RequestIs
  <2> DEFINE next == <<pcd.inf[2], pcd.inf[1]>>
  <2>2. next \in Pair
    BY <2>1 DEF IInv, Typed, Pair
  <2>3. card' = [card EXCEPT !.st = "switching", !.next = next] /\ next = <<pcd.inf[2], pcd.inf[1]>>
    BY <1>3, <2>1
  <2> HIDE DEF next
  <2>4. card' \in Picc /\ SameCard /\ card'.st = "switching" /\ card'.next = next
    BY <1>1, <2>2, <2>3 DEF Picc, PiccNames, SameCard
  <2>5. air'.to = "none" \/ (air'.to = "pcd" /\ air'.msg \in {[type |-> "BRACK"], Damaged})
    BY <1>3, SentIs DEF ToPcd
  <2>6. Lockstep'
    BY <1>1, <2>1, <2>5 DEF Lockstep, Response, Asking
  <2>7. IInv'
    BY <1>1, <2>4, <2>6, CardStep DEF SameCard
  <2> QED BY <1>1, <2>1, <2>3, <2>4, <2>5, <2>7 DEF Damaged
<1> QED BY <1>2, <1>3 DEF ReceiveSParameters

LEMMA ReceiveBlockInv ==
  ASSUME IInv, ReceiveBlock
  PROVE  /\ IInv' /\ UNCHANGED <<pcd, dev>> /\ SameCard /\ pcd.pc = "PCD_RX"
         /\ air'.to = "none" \/ (air'.to = "pcd" /\ air'.msg.type = "ACK")
<1>1. card \in Picc /\ UNCHANGED <<pcd, dev>> /\ pcd.pc = "PCD_RX" /\ air.msg.inf = pcd.inf
  BY RequestIs DEF IInv, Typed, ReceiveBlock
<1>2. card.got + air.msg.inf \in Nat
  BY <1>1 DEF IInv, Typed, Picc
<1>3. CASE air' = Silence /\ UNCHANGED card
  BY <1>1, <1>3, SilenceIs, QuietLockstep, CardStep DEF SameCard
<1>4. CASE /\ card' = [card EXCEPT !.got = @ + air.msg.inf]
           /\ air' = Frame("pcd", card.tx, [type |-> "ACK"])
  <2>1. card' \in Picc /\ SameCard
    BY <1>1, <1>2, <1>4 DEF Picc, SameCard
  <2>2. air'.to = "pcd" /\ air'.msg = [type |-> "ACK"]
    BY <1>4 DEF Frame
  <2>3. Lockstep'
    BY <1>1, <2>2 DEF Lockstep, Response, Asking
  <2> QED BY <1>1, <2>1, <2>2, <2>3, CardStep DEF SameCard
<1> QED BY <1>3, <1>4 DEF ReceiveBlock

LEMMA GuardTimeEndsInv ==
  ASSUME IInv, GuardTimeEnds
  PROVE  /\ IInv' /\ UNCHANGED <<pcd, dev, air>> /\ ~card'.guard
         /\ card'.is = card.is /\ card'.did = card.did /\ card'.fsx = card.fsx
         /\ card'.ourFsx = card.ourFsx /\ card'.fwt = card.fwt /\ card'.st = card.st
         /\ card'.next = card.next /\ card'.tx = card.tx /\ card'.rx = card.rx
<1>1. card' = [card EXCEPT !.guard = FALSE] /\ UNCHANGED <<pcd, dev, air>>
  BY DEF GuardTimeEnds
<1>2. /\ card' \in Picc /\ ~card'.guard
      /\ card'.is = card.is /\ card'.did = card.did /\ card'.fsx = card.fsx
      /\ card'.ourFsx = card.ourFsx /\ card'.fwt = card.fwt /\ card'.st = card.st
      /\ card'.next = card.next /\ card'.tx = card.tx /\ card'.rx = card.rx
  BY <1>1 DEF IInv, Typed, Picc
<1>3. Lockstep'
  BY <1>1, <1>2 DEF IInv, Lockstep, Request, Response, Rats, Attrib, Pps, HdrLen, Ats, AnnouncedFwi
<1> QED BY <1>1, <1>2, <1>3, CardStep

LEMMA IInvNext == IInv /\ [Next]_vars => IInv'
<1> SUFFICES ASSUME IInv, [Next]_vars PROVE IInv'
  OBVIOUS
<1>1. CASE UNCHANGED vars
  BY <1>1 DEF vars, IInv, Typed, Lockstep, Request, Response, Rats, Attrib, Pps, HdrLen, Ats,
              AnnouncedFwi
<1>2. CASE Reader
  BY <1>2, PollAInv, PollBInv, RatsFailsInv, ProcessAtsInv, ActivationStepsInv, SfgtExpiresInv,
     PpsInv, SParametersInv, BrIndAnsweredInv, TunedInv, StartApduInv, PcdTxInv, BlockEndsInv,
     DeactivateInv
     DEF Reader
<1>3. CASE Card
  BY <1>3, ListenStartActivationInv, ReceivePpsInv, ReceiveAttribInv, SwitchInv, ReceiveOtherInv,
     ReceiveSParametersInv, ReceiveBlockInv, GuardTimeEndsInv
     DEF Card
<1> QED BY <1>1, <1>2, <1>3 DEF Next

-----------------------------------------------------------------------------
(* Types and lockstep always hold.                                         *)

\* There is never more than one frame on the way, and it is the request that the
\* reader waits for the answer to, or this answer.
THEOREM OneFrame == Spec => []IInv
<1> QED BY IInvInit, IInvNext, PTL DEF Spec

-----------------------------------------------------------------------------
(* The guard time.                                                         *)

\* The reader's part in it: where it goes, and what becomes of the timer.
LEMMA ReaderGuard ==
  ASSUME IInv, GuardInv, Reader
  PROVE  GuardInv'
<1> USE DEF GuardInv
<1>0. pcd \in Pcd
  BY DEF IInv, Typed
<1>1. CASE \/ \E mode \in CompModes, fsdi \in FSDIs, did \in DIDs, maxBR \in MaxBRs :
                \/ rfalIsoDepPollAHandleActivation(mode, fsdi, did, maxBR)
                \/ rfalIsoDepPollBHandleActivation(mode, fsdi, did, maxBR)
  <2>1. ASSUME NEW mode \in CompModes, NEW fsdi \in FSDIs, NEW did \in DIDs, NEW maxBR \in MaxBRs,
               rfalIsoDepPollAHandleActivation(mode, fsdi, did, maxBR)
        PROVE  pcd'.pc = "RATS"
    BY <2>1 DEF rfalIsoDepPollAHandleActivation, InitPcd
  <2>2. ASSUME NEW mode \in CompModes, NEW fsdi \in FSDIs, NEW did \in DIDs, NEW maxBR \in MaxBRs,
               rfalIsoDepPollBHandleActivation(mode, fsdi, did, maxBR)
        PROVE  pcd'.pc = "ATTRIB"
    BY <2>2 DEF rfalIsoDepPollBHandleActivation, InitPcd
  <2>3. pcd'.pc \in {"RATS", "ATTRIB"}
    BY <1>1, <2>1, <2>2
  <2> QED BY <2>3
<1>2. CASE RatsTimeout \/ RatsError
  BY <1>2, RatsFailsInv
<1>3. CASE ProcessAts
  <2>1. pcd'.sfgt /\ pcd'.pc \in {"active", "PPS"}
    BY <1>0, <1>3 DEF ProcessAts, Pcd
  <2> QED BY <2>1
<1>4. CASE Deselected
  <2>1. pcd'.pc = "failed"
    BY <1>4, InitPcdType DEF Deselected, Pcd
  <2> QED BY <2>1
<1>5. CASE SfgtExpires
  <2>1. ~card'.guard /\ ~pcd'.sfgt
    BY <1>0, <1>5 DEF SfgtExpires, Pcd
  <2> QED BY <2>1
<1>6. CASE rfalIsoDepPPS
  <2>1. ~pcd.sfgt /\ pcd.pc = "PPS" /\ card' = card /\ ~pcd'.sfgt
    BY <1>0, <1>6 DEF rfalIsoDepPPS, Waits, Pcd
  <2> QED BY <2>1
<1>7. CASE PpsAnswered \/ PpsFails
  <2>1. pcd.pc = "PPSRES" /\ card' = card /\ pcd'.pc = "active"
    BY <1>0, <1>7 DEF PpsAnswered, PpsFails, Answered, Unanswered, BadAnswer, Waits, Pcd
  <2> QED BY <2>1
<1>8. CASE AttribAnswered
  <2>1. pcd'.sfgt /\ pcd'.pc = "active"
    BY <1>0, <1>8 DEF AttribAnswered, Pcd
  <2> QED BY <2>1
<1>9. CASE AttribFails
  <2>1. pcd'.pc = "failed"
    BY <1>0, <1>9 DEF AttribFails, Pcd
  <2> QED BY <2>1
<1>10. CASE \E maxBR \in MaxBRs : rfalIsoDepPollHandleSParameters(maxBR)
  <2>1. pcd.pc = "active" /\ pcd'.pc = "BRIND" /\ pcd'.sfgt = pcd.sfgt /\ card' = card
    BY <1>0, <1>10 DEF rfalIsoDepPollHandleSParameters, Waits, Pcd
  <2> QED BY <2>1
<1>11. CASE BrIndAnswered
  <2>1. pcd.pc = "BRIND" /\ pcd'.pc = "BRACK" /\ pcd'.sfgt = pcd.sfgt /\ card' = card
    BY <1>0, <1>11 DEF BrIndAnswered, Answered, Waits, Pcd
  <2> QED BY <2>1
<1>12. CASE BrAckAnswered \/ SParametersFail
  <2>1. pcd.pc \in {"BRIND", "BRACK"} /\ pcd'.pc = "tuned" /\ pcd'.sfgt = pcd.sfgt /\ card' = card
    BY ZenonT(60), <1>0, <1>12
       DEF BrAckAnswered, SParametersFail, Answered, Unanswered, BadAnswer, Waits, Pcd
  <2> QED BY <2>1
<1>13. CASE \E len \in ApduLens : rfalIsoDepStartApduTransceive(len)
  BY <1>13, StartApduInv DEF StartedFrom
<1>14. CASE PcdTx
  BY <1>14, PcdTxInv DEF StartedFrom
<1>15. CASE BlockDone \/ BlockFails
  BY <1>15, BlockEndsInv DEF StartedFrom
<1>16. CASE Deactivate
  BY <1>16, DeactivateInv
<1> QED BY <1>1, <1>2, <1>3, <1>4, <1>5, <1>6, <1>7, <1>8, <1>9, <1>10, <1>11, <1>12, <1>13, <1>14,
           <1>15, <1>16 DEF Reader

LEMMA CardGuard ==
  ASSUME IInv, GuardInv, Card
  PROVE  GuardInv'
<1> USE DEF GuardInv
<1>1. CASE ListenStartActivation
  BY <1>1, ListenStartActivationInv
<1>2. CASE ReceivePps
  BY <1>2, ReceivePpsInv
<1>3. CASE Switch
  BY <1>3, SwitchInv
<1>4. CASE ReceiveOther \/ Ignores
  BY <1>4, ReceiveOtherInv DEF SameCard
<1>5. CASE ReceiveAttrib
  BY <1>5, ReceiveAttribInv
<1>6. CASE ReceiveSParameters
  BY <1>6, ReceiveSParametersInv DEF SameCard
<1>7. CASE ReceiveBlock
  BY <1>7, ReceiveBlockInv DEF SameCard
<1>8. CASE GuardTimeEnds
  BY <1>8, GuardTimeEndsInv
<1> QED BY <1>1, <1>2, <1>3, <1>4, <1>5, <1>6, <1>7, <1>8 DEF Card

LEMMA GuardNext == IInv /\ GuardInv /\ [Next]_vars => GuardInv'
  BY ReaderGuard, CardGuard DEF Next, vars, GuardInv

LEMMA GuardInit == Init => GuardInv
  BY DEF Init, GuardInv, InitPcd, InitCard

\* The card is left alone for its guard time, by PPS and by the first block: while it
\* runs, either the reader's timer does, or the reader has not got the answer yet, or the
\* activation has failed; and the timer is over where PPS or a block is sent.
THEOREM GuardTimeAlwaysKept == Spec => []GuardTimeKept
<1>1. IInv /\ GuardInv => GuardTimeKept
  <2> SUFFICES ASSUME IInv, GuardInv, air.to = "card", air.msg.type \in {"PPS", "I"}
               PROVE  ~card.guard
    BY DEF GuardTimeKept
  <2>1. Request(air.msg)
    BY DEF IInv, Lockstep, Damaged
  <2>2. pcd.pc \in {"PPSRES", "PCD_RX"}
    BY <2>1 DEF Request, Rats, Pps, Attrib
  <2> QED BY <2>2 DEF GuardInv
<1> QED BY <1>1, GuardInit, GuardNext, OneFrame, PTL DEF Spec

-----------------------------------------------------------------------------
(* What an activation keeps.                                               *)

SameActivation ==
  /\ pcd'.mode = pcd.mode /\ pcd'.fsdi = pcd.fsdi /\ pcd'.did = pcd.did
  /\ UNCHANGED card /\ (pcd'.pc \in {"RATS", "ATTRIB"} => pcd.pc = pcd'.pc)

LEMMA ActivationKept ==
  ASSUME IInv, Reader,
         ~ \E mode \in CompModes, fsdi \in FSDIs, did \in DIDs, maxBR \in MaxBRs :
             \/ rfalIsoDepPollAHandleActivation(mode, fsdi, did, maxBR)
             \/ rfalIsoDepPollBHandleActivation(mode, fsdi, did, maxBR),
         ~Deselected, ~Deactivate
  PROVE  SameActivation
<1> USE DEF SameActivation
<1>0. pcd \in Pcd
  BY DEF IInv, Typed
<1>2. CASE RatsTimeout \/ RatsError
  <2>1. /\ pcd.pc = "RATS" /\ UNCHANGED card
        /\ \/ pcd' = [pcd EXCEPT !.retries = @ - 1]
           \/ pcd' = [pcd EXCEPT !.pc = "DSL"]
           \/ pcd' = [pcd EXCEPT !.pc = "failed"]
    BY <1>2 DEF RatsTimeout, RatsError, RatsFails, Unanswered, BadAnswer, Waits
  <2> QED BY ONLY <1>0, <2>1 DEF Pcd
<1>3. CASE ProcessAts
  <2> DEFINE br == AtsRates(card.is, pcd.maxBR)
             pc == IF br = <<0, 0>> THEN "active" ELSE "PPS"
             fsx == FSxI2FSx(pcd.mode, IF card.is.t0 THEN card.is.fsci ELSE 2)
             our == FSxI2FSx(pcd.mode, pcd.fsdi)
  <2>1. /\ pcd' = [pcd EXCEPT !.pc = pc, !.sfgt = TRUE, !.fsx = fsx, !.ourFsx = our]
        /\ UNCHANGED card /\ pc \in {"active", "PPS"}
    BY <1>3, ProcessAtsIs
  <2> HIDE DEF br, pc, fsx, our
  <2> QED BY ONLY <1>0, <2>1 DEF Pcd
<1>5. CASE SfgtExpires
  BY <1>0, <1>5 DEF SfgtExpires, Pcd
<1>6. CASE rfalIsoDepPPS
  BY <1>0, <1>6 DEF rfalIsoDepPPS, Pcd
<1>7. CASE PpsAnswered \/ PpsFails
  BY ZenonT(60), <1>0, <1>7 DEF PpsAnswered, PpsFails, Pcd
<1>8. CASE AttribAnswered \/ AttribFails
  <2> DEFINE our == FSxI2FSx(pcd.mode, pcd.fsdi)
  <2>1. /\ \/ pcd' = [pcd EXCEPT !.pc = "active", !.tx = dev.DRI, !.rx = dev.DSI, !.sfgt = TRUE,
                                 !.ourFsx = our]
           \/ pcd' = [pcd EXCEPT !.pc = "failed", !.ourFsx = our]
        /\ UNCHANGED card
    BY <1>8 DEF AttribAnswered, AttribFails
  <2> HIDE DEF our
  <2> QED BY ONLY ZenonT(60), <1>0, <2>1 DEF Pcd
<1>10. CASE \E maxBR \in MaxBRs : rfalIsoDepPollHandleSParameters(maxBR)
  BY <1>0, <1>10 DEF rfalIsoDepPollHandleSParameters, Pcd
<1>11. CASE BrIndAnswered
  <2> DEFINE tx == Highest(air.msg.tx, pcd.maxBR)
             rx == Highest(air.msg.rx, pcd.maxBR)
  <2>1. pcd' = [pcd EXCEPT !.pc = "BRACK", !.inf = <<tx, rx>>] /\ UNCHANGED card
    BY <1>11 DEF BrIndAnswered, Highest
  <2> HIDE DEF tx, rx
  <2> QED BY ONLY <1>0, <2>1 DEF Pcd
<1>12. CASE BrAckAnswered \/ SParametersFail
  BY ZenonT(60), <1>0, <1>12 DEF BrAckAnswered, SParametersFail, Pcd
<1>13. CASE \E len \in ApduLens : rfalIsoDepStartApduTransceive(len)
  BY <1>13, StartApduInv DEF StartedFrom
<1>14. CASE PcdTx
  BY <1>14, PcdTxInv DEF StartedFrom
<1>15. CASE BlockDone \/ BlockFails
  BY <1>15, BlockEndsInv DEF StartedFrom
<1> QED BY <1>2, <1>3, <1>5, <1>6, <1>7, <1>8, <1>10, <1>11, <1>12, <1>13, <1>14, <1>15 DEF Reader

\* The card stays the same until the reader deactivates.
LEMMA SameCardIs ==
  ASSUME IInv, Card
  PROVE  UNCHANGED <<pcd, dev>> /\ card'.is = card.is
<1>1. CASE ListenStartActivation
  BY <1>1, ListenStartActivationInv
<1>2. CASE ReceivePps
  BY <1>2, ReceivePpsInv
<1>3. CASE Switch
  BY <1>3, SwitchInv
<1>4. CASE ReceiveOther \/ Ignores
  BY <1>4, ReceiveOtherInv DEF SameCard
<1>5. CASE ReceiveAttrib
  BY <1>5, ReceiveAttribInv
<1>6. CASE ReceiveSParameters
  BY <1>6, ReceiveSParametersInv DEF SameCard
<1>7. CASE ReceiveBlock
  BY <1>7, ReceiveBlockInv DEF SameCard
<1>8. CASE GuardTimeEnds
  BY <1>8, GuardTimeEndsInv
<1> QED BY <1>1, <1>2, <1>3, <1>4, <1>5, <1>6, <1>7, <1>8 DEF Card

LEMMA TechInit == Init => TechInv
<1>1. Init => pcd.pc = "idle" /\ pcd.did = 0
  BY DEF Init, InitPcd
<1> QED BY <1>1 DEF TechInv

LEMMA TechNext == IInv /\ TechInv /\ [Next]_vars => TechInv'
<1> SUFFICES ASSUME IInv, TechInv, [Next]_vars PROVE TechInv'
  OBVIOUS
<1>1. CASE UNCHANGED vars
  BY <1>1 DEF vars, TechInv
<1>2. CASE Card
  BY <1>2, SameCardIs DEF TechInv
<1>3. ASSUME NEW mode \in CompModes, NEW fsdi \in FSDIs, NEW did \in DIDs, NEW maxBR \in MaxBRs,
             rfalIsoDepPollAHandleActivation(mode, fsdi, did, maxBR)
      PROVE  TechInv'
  <2>1. pcd'.pc = "RATS" /\ pcd'.did = did /\ card' = card /\ card.is.tech = "A"
    BY <1>3 DEF rfalIsoDepPollAHandleActivation, InitPcd
  <2> QED BY <2>1 DEF TechInv
<1>4. ASSUME NEW mode \in CompModes, NEW fsdi \in FSDIs, NEW did \in DIDs, NEW maxBR \in MaxBRs,
             rfalIsoDepPollBHandleActivation(mode, fsdi, did, maxBR)
      PROVE  TechInv'
  <2>1. /\ pcd'.pc = "ATTRIB" /\ pcd'.did = did /\ card' = card /\ card.is.tech = "B"
        /\ did # 0 => card.is.didSupport
    BY <1>4 DEF rfalIsoDepPollBHandleActivation, InitPcd
  <2> QED BY <2>1 DEF TechInv
<1>5. CASE Deselected \/ Deactivate
  <2>1. pcd'.pc \in {"idle", "failed"} /\ pcd'.did = 0
    BY <1>5 DEF Deselected, Deactivate, InitPcd
  <2> QED BY <2>1 DEF TechInv
<1>6. CASE SameActivation
  BY <1>6 DEF TechInv, SameActivation
<1> QED BY <1>1, <1>2, <1>3, <1>4, <1>5, <1>6, ActivationKept DEF Next

-----------------------------------------------------------------------------
(* The bit rates that the reader asks for.                                 *)

RatesAre(c, maxBR, rates) ==
  LET possible == Possible(c, maxBR) IN
  /\ rates \in possible
  /\ \A pair \in possible : pair[1] <= rates[1] /\ pair[2] <= rates[2]

\* With what an NFC-A card does not announce at 106 kbit/s, with the others as computed.
LEMMA RatesArePossible ==
  ASSUME NEW c \in CardKind, NEW maxBR \in BitRates
  PROVE  RatesAre(c, maxBR, IF c.tech = "A" THEN AtsRates(c, maxBR) ELSE CalcBitRate(maxBR, c.br))
<1> DEFINE none == c.tech = "A" /\ ~(c.t0 /\ c.ta)
           best == CalcBitRate(maxBR, c.br)
<1>1. CASE none
  <2>1. Possible(c, maxBR) = {<<0, 0>>} /\ AtsRates(c, maxBR) = <<0, 0>> /\ c.tech = "A"
    BY <1>1 DEF Possible, AtsRates
  <2> QED BY <2>1 DEF RatesAre
<1>2. CASE ~none
  <2>1. Possible(c, maxBR) = PairsOf(c.br, maxBR)
    <3>1. CASE c.br.rfu
      BY <1>2, <3>1 DEF Possible, PairsOf
    <3>2. CASE ~c.br.rfu
      BY <1>2, <3>2 DEF Possible, PairsOf
    <3> QED BY <3>1, <3>2
  <2>2. c.br \in Announced
    BY DEF CardKind
  <2>3. RatesAre(c, maxBR, best)
    BY <2>1, <2>2, CalcBitRateIsBest DEF RatesAre
  <2>4. (IF c.tech = "A" THEN AtsRates(c, maxBR) ELSE best) = best
    BY <1>2 DEF AtsRates
  <2> QED BY <2>3, <2>4
<1> QED BY <1>1, <1>2

LEMMA BestRatesIs ==
  BestRates <=> ((pcd.pc \in {"PPS", "PPSRES", "ATTRIB"} \/ (pcd.pc = "active" /\ pcd.sfgt)) =>
                   RatesAre(card.is, pcd.maxBR, <<dev.DSI, dev.DRI>>))
  BY DEF BestRates, RatesAre

\* The conclusion does not change.
LEMMA RatesStay ==
  ASSUME RatesAre(card.is, pcd.maxBR, <<dev.DSI, dev.DRI>>), card'.is = card.is,
         pcd'.maxBR = pcd.maxBR, dev' = dev
  PROVE  RatesAre(card'.is, pcd'.maxBR, <<dev'.DSI, dev'.DRI>>)
  OBVIOUS

LEMMA BestRatesNext ==
  ASSUME IInv, GuardInv, TechInv, BestRates, [Next]_vars
  PROVE  BestRates'
<1> DEFINE Asked == pcd.pc \in {"PPS", "PPSRES", "ATTRIB"} \/ (pcd.pc = "active" /\ pcd.sfgt)
           Right == RatesAre(card.is, pcd.maxBR, <<dev.DSI, dev.DRI>>)
<1> SUFFICES ASSUME Asked' PROVE Right'
  BY BestRatesIs, PTL
<1>0. /\ pcd \in Pcd /\ dev \in Dev /\ card.is \in CardKind /\ pcd.maxBR \in BitRates
      /\ Asked => Right
  BY TypeFacts, BestRatesIs DEF IInv, Pcd
<1>a. ASSUME Asked, card'.is = card.is, pcd'.maxBR = pcd.maxBR, dev' = dev PROVE Right'
  BY <1>0, <1>a
<1> HIDE DEF Right
<1>1. CASE UNCHANGED vars
  BY <1>1, <1>a DEF vars
<1>2. CASE Card
  BY <1>2, <1>a, SameCardIs
<1>3. ASSUME NEW mode \in CompModes, NEW fsdi \in FSDIs, NEW did \in DIDs, NEW maxBR \in MaxBRs,
             rfalIsoDepPollAHandleActivation(mode, fsdi, did, maxBR)
      PROVE  FALSE
  <2>1. pcd'.pc = "RATS"
    BY <1>3 DEF rfalIsoDepPollAHandleActivation, InitPcd
  <2> QED BY <2>1
<1>4. ASSUME NEW mode \in CompModes, NEW fsdi \in FSDIs, NEW did \in DIDs, NEW maxBR \in MaxBRs,
             rfalIsoDepPollBHandleActivation(mode, fsdi, did, maxBR)
      PROVE  Right'
  <2> DEFINE br == CalcBitRate(maxBR, card.is.br)
  <2>1. /\ pcd'.maxBR = maxBR /\ card' = card /\ card.is.tech = "B"
        /\ dev'.DSI = br[1] /\ dev'.DRI = br[2]
    BY <1>4 DEF rfalIsoDepPollBHandleActivation, InitPcd
  <2>2. maxBR \in BitRates /\ card.is.br \in Announced
    BY <1>0, ArgumentTypes DEF CardKind
  <2>3. br = <<br[1], br[2]>>
    BY <2>2, CalcBitRateIsBest DEF Pair
  <2>4. RatesAre(card.is, maxBR, br)
    BY <1>0, <2>1, <2>2, RatesArePossible
  <2> HIDE DEF br
  <2> QED BY <2>1, <2>3, <2>4 DEF Right
<1>5. CASE ProcessAts
  <2> DEFINE br == AtsRates(card.is, pcd.maxBR)
             pc == IF br = <<0, 0>> THEN "active" ELSE "PPS"
             fsx == FSxI2FSx(pcd.mode, IF card.is.t0 THEN card.is.fsci ELSE 2)
             our == FSxI2FSx(pcd.mode, pcd.fsdi)
  <2>1. /\ pcd.pc = "RATS" /\ card' = card /\ dev'.DSI = br[1] /\ dev'.DRI = br[2]
        /\ pcd' = [pcd EXCEPT !.pc = pc, !.sfgt = TRUE, !.fsx = fsx, !.ourFsx = our]
    BY <1>5, ProcessAtsIs
  <2> HIDE DEF pc, fsx, our
  <2>2. pcd'.maxBR = pcd.maxBR
    BY ONLY <1>0, <2>1 DEF Pcd
  <2>3. card.is.tech = "A"
    BY <2>1 DEF TechInv
  <2>4. br = <<br[1], br[2]>>
    <3>1. card.is.br \in Announced
      BY <1>0 DEF CardKind
    <3> QED BY <1>0, <3>1, CalcBitRateIsBest DEF AtsRates, Pair
  <2>5. RatesAre(card.is, pcd.maxBR, br)
    BY <1>0, <2>3, RatesArePossible
  <2> HIDE DEF br
  <2> QED BY <2>1, <2>2, <2>4, <2>5 DEF Right
<1>6. CASE RatsTimeout \/ RatsError
  BY <1>6, RatsFailsInv
<1>7. CASE Deselected \/ Deactivate
  <2>1. pcd'.pc \in {"idle", "failed"}
    BY <1>7 DEF Deselected, Deactivate, InitPcd
  <2> QED BY <2>1
<1>8. CASE SfgtExpires
  <2>1. pcd'.pc = pcd.pc /\ pcd'.maxBR = pcd.maxBR /\ ~pcd'.sfgt /\ UNCHANGED <<dev, card>>
    BY <1>0, <1>8 DEF SfgtExpires, Pcd
  <2> QED BY <1>a, <2>1
<1>9. CASE rfalIsoDepPPS
  <2>1. pcd.pc = "PPS" /\ pcd'.maxBR = pcd.maxBR /\ UNCHANGED <<dev, card>>
    BY <1>0, <1>9 DEF rfalIsoDepPPS, Waits, Pcd
  <2> QED BY <1>a, <2>1
<1>10. CASE PpsAnswered \/ PpsFails
  <2>1. pcd.pc = "PPSRES" /\ pcd'.pc = "active" /\ pcd'.sfgt = pcd.sfgt
    BY <1>0, <1>10 DEF PpsAnswered, PpsFails, Answered, Unanswered, BadAnswer, Waits, Pcd
  <2> QED BY <2>1 DEF GuardInv
<1>11. CASE AttribAnswered
  <2> DEFINE our == FSxI2FSx(pcd.mode, pcd.fsdi)
  <2>1. /\ pcd.pc = "ATTRIB" /\ UNCHANGED <<dev, card>>
        /\ pcd' = [pcd EXCEPT !.pc = "active", !.tx = dev.DRI, !.rx = dev.DSI, !.sfgt = TRUE,
                              !.ourFsx = our]
    BY <1>11 DEF AttribAnswered, Answered, Waits
  <2> HIDE DEF our
  <2>2. pcd'.maxBR = pcd.maxBR
    BY ONLY <1>0, <2>1 DEF Pcd
  <2> QED BY <1>a, <2>1, <2>2
<1>12. CASE AttribFails
  <2>1. pcd'.pc = "failed"
    BY <1>0, <1>12 DEF AttribFails, Pcd
  <2> QED BY <2>1
<1>13. CASE \E maxBR \in MaxBRs : rfalIsoDepPollHandleSParameters(maxBR)
  <2>1. pcd'.pc = "BRIND"
    BY <1>0, <1>13 DEF rfalIsoDepPollHandleSParameters, Pcd
  <2> QED BY <2>1
<1>14. CASE BrIndAnswered \/ BrAckAnswered \/ SParametersFail
  <2>1. pcd'.pc \in {"BRACK", "tuned"}
    BY <1>0, <1>14 DEF BrIndAnswered, BrAckAnswered, SParametersFail, Pcd
  <2> QED BY <2>1
<1>15. CASE \E len \in ApduLens : rfalIsoDepStartApduTransceive(len)
  BY <1>15, StartApduInv
<1>16. CASE PcdTx
  BY <1>16, PcdTxInv
<1>17. CASE BlockDone \/ BlockFails
  BY <1>17, BlockEndsInv
<1> QED BY <1>1, <1>2, <1>3, <1>4, <1>5, <1>6, <1>7, <1>8, <1>9, <1>10, <1>11, <1>12, <1>13, <1>14,
           <1>15, <1>16, <1>17 DEF Next, Reader

\* Whatever the card announces and however the limit is chosen, the rates asked for are
\* a pair the card has, and no pair it has within the limit is faster in either
\* direction (rfalIsoDepCalcBitRate, which counts down).
THEOREM BestRatesAsked == Spec => []BestRates
<1>1. Init => BestRates
  <2>1. Init => pcd.pc = "idle"
    BY DEF Init, InitPcd
  <2> QED BY <2>1 DEF BestRates
<1>2. IInv /\ GuardInv /\ TechInv /\ BestRates /\ [Next]_vars => BestRates'
  BY BestRatesNext
<1> QED BY <1>1, <1>2, GuardInit, GuardNext, TechInit, TechNext, OneFrame, PTL DEF Spec

-----------------------------------------------------------------------------
(* What both sides know of each other.                                     *)

\* The steps of the reader between an activation and the next.
SameParameters ==
  /\ dev'.FSx = dev.FSx /\ dev'.FWT = dev.FWT /\ dev'.DID = dev.DID
  /\ pcd'.fsx = pcd.fsx \/ pcd'.fsx = dev.FSx
  /\ \/ pcd'.ourFsx = pcd.ourFsx \/ pcd'.ourFsx = KeepFSx
     \/ pcd.pc = "ATTRIB" /\ pcd'.ourFsx = FSxI2FSx(pcd.mode, pcd.fsdi)
  /\ pcd'.pc \in Activated =>
       pcd.pc \in Activated \/ (pcd.pc = "ATTRIB" /\ Answers({"ATTRIBRES"})
                                /\ pcd'.ourFsx = FSxI2FSx(pcd.mode, pcd.fsdi))
  /\ \/ air'.to # "pcd"
     \/ UNCHANGED <<air, dev>> /\ pcd'.pc = pcd.pc /\ pcd'.inf = pcd.inf

LEMMA ParametersKept ==
  ASSUME IInv, Reader,
         ~ \E mode \in CompModes, fsdi \in FSDIs, did \in DIDs, maxBR \in MaxBRs :
             \/ rfalIsoDepPollAHandleActivation(mode, fsdi, did, maxBR)
             \/ rfalIsoDepPollBHandleActivation(mode, fsdi, did, maxBR),
         ~Deselected, ~Deactivate, ~ProcessAts
  PROVE  SameParameters
<1> USE DEF SameParameters
<1>0. pcd \in Pcd /\ dev \in Dev
  BY DEF IInv, Typed
<1>2. CASE RatsTimeout \/ RatsError
  <2>1. /\ dev' = dev
        /\ \/ pcd' = [pcd EXCEPT !.retries = @ - 1]
           \/ pcd' = [pcd EXCEPT !.pc = "DSL"]
           \/ pcd' = [pcd EXCEPT !.pc = "failed"]
    BY <1>2 DEF RatsTimeout, RatsError, RatsFails
  <2>2. pcd'.fsx = pcd.fsx /\ pcd'.ourFsx = pcd.ourFsx /\ pcd'.pc \in {pcd.pc, "DSL", "failed"}
    BY ONLY <1>0, <2>1 DEF Pcd
  <2>3. /\ pcd.pc = "RATS"
        /\ air' \in Sent("card", pcd.tx, Rats(pcd)) \cup Sent("card", pcd.tx, [type |-> "DSL"])
                    \cup {Silence}
    BY <1>2 DEF RatsTimeout, RatsError, RatsFails, ToCard, Unanswered, BadAnswer, Waits
  <2>4. air'.to # "pcd"
    BY <2>3, SentIs, SilenceIs
  <2>5. pcd'.pc \notin Activated
    BY <2>2, <2>3 DEF Activated
  <2> QED BY ONLY <2>1, <2>2, <2>4, <2>5 DEF SameParameters
<1>5. CASE SfgtExpires
  BY <1>0, <1>5 DEF SfgtExpires, Pcd
<1>6. CASE rfalIsoDepPPS
  <2>1. pcd.pc = "PPS" /\ air' \in Sent("card", pcd.tx, Pps)
    BY <1>6 DEF rfalIsoDepPPS, Waits, ToCard, Pps
  <2>2. air'.to # "pcd"
    BY <2>1, SentIs
  <2> QED BY <1>0, <1>6, <2>1, <2>2 DEF rfalIsoDepPPS, Pcd, Activated
<1>7. CASE PpsAnswered \/ PpsFails
  <2>1. pcd.pc = "PPSRES" /\ air'.to # "pcd"
    BY <1>7, SilenceIs DEF PpsAnswered, PpsFails, Answered, Unanswered, BadAnswer, Waits
  <2>2. /\ pcd'.fsx = pcd.fsx /\ pcd'.ourFsx = pcd.ourFsx
        /\ dev'.FSx = dev.FSx /\ dev'.FWT = dev.FWT /\ dev'.DID = dev.DID
    BY ZenonT(60), <1>0, <1>7 DEF PpsAnswered, PpsFails, Pcd, Dev
  <2> QED BY <2>1, <2>2 DEF Activated
<1>8. CASE AttribAnswered
  <2> DEFINE our == FSxI2FSx(pcd.mode, pcd.fsdi)
  <2>1. /\ pcd' = [pcd EXCEPT !.pc = "active", !.tx = dev.DRI, !.rx = dev.DSI, !.sfgt = TRUE,
                              !.ourFsx = our]
        /\ dev' = dev /\ pcd.pc = "ATTRIB" /\ Answers({"ATTRIBRES"}) /\ air' = Silence
    BY <1>8 DEF AttribAnswered, Answered, Answers, Waits
  <2>2. our = FSxI2FSx(pcd.mode, pcd.fsdi)
    OBVIOUS
  <2> HIDE DEF our
  <2>3. pcd'.fsx = pcd.fsx /\ pcd'.ourFsx = our
    BY ONLY <1>0, <2>1 DEF Pcd
  <2> QED BY ONLY <2>1, <2>2, <2>3, SilenceIs DEF SameParameters
<1>9. CASE AttribFails
  <2> DEFINE our == FSxI2FSx(pcd.mode, pcd.fsdi)
  <2>1. /\ pcd' = [pcd EXCEPT !.pc = "failed", !.ourFsx = our]
        /\ dev' = [dev EXCEPT !.DSI = 0, !.DRI = 0] /\ pcd.pc = "ATTRIB" /\ air' = Silence
    BY <1>9 DEF AttribFails, Unanswered, BadAnswer, Waits
  <2>2. our = FSxI2FSx(pcd.mode, pcd.fsdi)
    OBVIOUS
  <2> HIDE DEF our
  <2>3. /\ pcd'.fsx = pcd.fsx /\ pcd'.ourFsx = our /\ pcd'.pc = "failed"
        /\ dev'.FSx = dev.FSx /\ dev'.FWT = dev.FWT /\ dev'.DID = dev.DID
    BY ONLY <1>0, <2>1 DEF Pcd, Dev
  <2> QED BY ONLY <2>1, <2>2, <2>3, SilenceIs DEF SameParameters, Activated
<1>10. CASE \E maxBR \in MaxBRs : rfalIsoDepPollHandleSParameters(maxBR)
  <2>1. /\ pcd.pc = "active" /\ dev' = dev /\ air' \in Sent("card", pcd.tx, [type |-> "BRREQ"])
        /\ \E maxBR \in MaxBRs : pcd' = [pcd EXCEPT !.pc = "BRIND", !.maxBR = maxBR]
    BY <1>10 DEF rfalIsoDepPollHandleSParameters, Waits, ToCard
  <2>2. air'.to # "pcd"
    BY <2>1, SentIs
  <2>3. pcd'.fsx = pcd.fsx /\ pcd'.ourFsx = pcd.ourFsx
    BY ONLY <1>0, <2>1 DEF Pcd
  <2> QED BY ONLY <2>1, <2>2, <2>3 DEF Activated, SameParameters
<1>11. CASE BrIndAnswered
  <2> DEFINE tx == Highest(air.msg.tx, pcd.maxBR)
             rx == Highest(air.msg.rx, pcd.maxBR)
  <2>1. /\ pcd' = [pcd EXCEPT !.pc = "BRACK", !.inf = <<tx, rx>>] /\ dev' = dev
        /\ pcd.pc = "BRIND"
        /\ air' \in Sent("card", pcd.tx, [type |-> "BRACT", tx |-> tx, rx |-> rx])
    BY <1>11 DEF BrIndAnswered, Highest, Answered, Waits, ToCard
  <2> HIDE DEF tx, rx
  <2>2. air'.to # "pcd"
    BY <2>1, SentIs
  <2>3. pcd'.fsx = pcd.fsx /\ pcd'.ourFsx = pcd.ourFsx
    BY ONLY <1>0, <2>1 DEF Pcd
  <2> QED BY ONLY <2>1, <2>2, <2>3 DEF Activated, SameParameters
<1>12. CASE BrAckAnswered \/ SParametersFail
  <2>1. pcd.pc \in {"BRIND", "BRACK"} /\ air'.to # "pcd"
    BY <1>12, SilenceIs
       DEF BrAckAnswered, SParametersFail, Answered, Unanswered, BadAnswer, Waits
  <2>2. /\ pcd'.fsx = pcd.fsx /\ pcd'.ourFsx = pcd.ourFsx
        /\ dev'.FSx = dev.FSx /\ dev'.FWT = dev.FWT /\ dev'.DID = dev.DID
    BY ZenonT(60), <1>0, <1>12 DEF BrAckAnswered, SParametersFail, Pcd, Dev
  <2> QED BY <2>1, <2>2 DEF Activated
<1>13. CASE \E len \in ApduLens : rfalIsoDepStartApduTransceive(len)
  <2>1. /\ pcd.pc \in {"active", "tuned"} /\ UNCHANGED <<dev, air>> /\ air.to = "none"
        /\ pcd'.fsx = dev.FSx /\ pcd'.ourFsx \in {KeepFSx, pcd.ourFsx}
    BY <1>13, StartApduInv, NotAsking DEF Asking, IInv
  <2> QED BY ONLY <2>1 DEF Activated, SameParameters
<1>14. CASE PcdTx
  <2>1. /\ pcd.pc = "PCD_TX" /\ UNCHANGED dev /\ air'.to # "pcd"
        /\ pcd'.fsx = pcd.fsx /\ pcd'.ourFsx = pcd.ourFsx
    BY <1>14, PcdTxInv
  <2> QED BY ONLY <2>1 DEF Activated, SameParameters
<1>15. CASE BlockDone \/ BlockFails
  <2>1. /\ pcd.pc = "PCD_RX" /\ UNCHANGED dev /\ air'.to # "pcd"
        /\ pcd'.fsx = pcd.fsx /\ pcd'.ourFsx = pcd.ourFsx
    BY <1>15, BlockEndsInv
  <2> QED BY ONLY <2>1 DEF Activated, SameParameters
<1> QED BY <1>2, <1>5, <1>6, <1>7, <1>8, <1>9, <1>10, <1>11, <1>12, <1>13, <1>14, <1>15 DEF Reader

\* What the card takes for its part, and what it announces of it.
CardKnows(c, did, fsdi, picc) ==
  /\ picc.did = did /\ picc.fsx = CardFSx(fsdi) /\ picc.ourFsx = CardFSx(Fsci(c))
  /\ picc.fwt = FWI2FWT(Fwi(c))

LEMMA CardTold ==
  ASSUME IInv, TechInv, Told, Card
  PROVE  Told'
<1>0. card.is \in CardKind /\ (card.is.make = "library" => card.is.tech = "A")
  BY TypeFacts DEF IInv
<1>1. UNCHANGED <<pcd, dev>> /\ card'.is = card.is
  BY SameCardIs
<1>2. CommonDid' = CommonDid /\ (Library' <=> Library)
  BY <1>1 DEF CommonDid, Library
<1>3. \A i : CardFSx(i)' = CardFSx(i)
  BY <1>1, <1>2 DEF CardFSx
<1>4. ASSUME CardKnows(card.is, CommonDid, pcd.fsdi, card') PROVE Told'
  <2>1. /\ card'.did = CommonDid' /\ card'.fsx = CardFSx(pcd.fsdi)
        /\ card'.ourFsx = CardFSx(Fsci(card.is)) /\ card'.fwt = FWI2FWT(Fwi(card.is))
    BY <1>2, <1>4 DEF CardKnows
  <2>2. CardFSx(pcd.fsdi)' = CardFSx(pcd.fsdi) /\ CardFSx(Fsci(card.is))' = CardFSx(Fsci(card.is))
    BY <1>1, <1>2 DEF CardFSx
  <2>3. FWI2FWT(Fwi(card'.is)) = FWI2FWT(Fwi(card.is))
    BY <1>1
  <2> QED BY <2>1, <2>2, <2>3 DEF Told
<1>5. ASSUME Answers({"ATS", "ATTRIBRES"})' => Answers({"ATS", "ATTRIBRES"}),
             card'.did = card.did, card'.fsx = card.fsx, card'.ourFsx = card.ourFsx,
             card'.fwt = card.fwt
      PROVE  Told'
  <2>1. CASE Answers({"ATS", "ATTRIBRES"}) \/ pcd.pc \in Activated
    <3>1. CardKnows(card.is, CommonDid, pcd.fsdi, card')
      BY <1>5, <2>1 DEF Told, CardKnows
    <3> QED BY <1>4, <3>1
  <2>2. CASE ~(Answers({"ATS", "ATTRIBRES"}) \/ pcd.pc \in Activated)
    BY <1>1, <1>5, <2>2 DEF Told
  <2> QED BY <2>1, <2>2
<1>6. CASE ListenStartActivation
  <2>1. /\ pcd.pc = "RATS" /\ card'.did = CommonDid /\ card'.fsx = CardFSx(pcd.fsdi)
        /\ card'.ourFsx = CardFSx(IF card.is.t0 THEN card.is.fsci ELSE 2)
        /\ card'.fwt = FWI2FWT(IF card.is.t0 /\ card.is.tb THEN AnnouncedFwi(card.is) ELSE 4)
    BY <1>6, ListenStartActivationInv
  <2>2. card.is.tech = "A"
    BY <2>1 DEF TechInv
  <2>3. /\ Fsci(card.is) = (IF card.is.t0 THEN card.is.fsci ELSE 2)
        /\ Fwi(card.is) = (IF card.is.t0 /\ card.is.tb THEN AnnouncedFwi(card.is) ELSE 4)
    BY <2>2 DEF Fsci, Fwi
  <2>4. CardKnows(card.is, CommonDid, pcd.fsdi, card')
    BY <2>1, <2>3 DEF CardKnows
  <2> QED BY <1>4, <2>4
<1>7. CASE ReceiveAttrib
  <2>1. /\ pcd.pc = "ATTRIB" /\ card'.did = pcd.did /\ card'.fsx = CardFSx(pcd.fsdi)
        /\ card'.ourFsx = CardFSx(card.is.fsci) /\ card'.fwt = FWI2FWT(card.is.fwi)
    BY <1>7, ReceiveAttribInv
  <2>2. card.is.tech = "B" /\ pcd.did = CommonDid
    BY <2>1 DEF TechInv, CommonDid
  <2>3. Fsci(card.is) = card.is.fsci /\ Fwi(card.is) = card.is.fwi
    BY <1>0, <2>2 DEF Fsci, Fwi, AnnouncedFwi
  <2>4. CardKnows(card.is, CommonDid, pcd.fsdi, card')
    BY <2>1, <2>2, <2>3 DEF CardKnows
  <2> QED BY <1>4, <2>4
<1>8. CASE ReceivePps
  BY <1>5, <1>8, ReceivePpsInv DEF Answers
<1>9. CASE Switch
  BY <1>5, <1>9, SwitchInv DEF Answers
<1>10. CASE ReceiveOther \/ Ignores
  <2>1. air'.to # "pcd"
    BY <1>10, ReceiveOtherInv, SilenceIs
  <2> QED BY <1>5, <1>10, <2>1, ReceiveOtherInv DEF Answers, SameCard
<1>11. CASE ReceiveSParameters
  BY <1>5, <1>11, ReceiveSParametersInv DEF Answers, SameCard
<1>12. CASE ReceiveBlock
  BY <1>5, <1>12, ReceiveBlockInv DEF Answers, SameCard
<1>13. CASE GuardTimeEnds
  BY <1>5, <1>13, GuardTimeEndsInv DEF Answers
<1> QED BY <1>6, <1>7, <1>8, <1>9, <1>10, <1>11, <1>12, <1>13 DEF Card

LEMMA CardKnown ==
  ASSUME IInv, Known, Card
  PROVE  Known'
<1>1. UNCHANGED <<pcd, dev>> /\ card'.is = card.is
  BY SameCardIs
<1>2. CommonDid' = CommonDid
  BY <1>1 DEF CommonDid
<1> QED BY <1>1, <1>2 DEF Known

\* Between two activations the reader changes nothing of what is known.
LEMMA ReaderKeepsParameters ==
  ASSUME IInv, Told, Known, SameActivation, SameParameters
  PROVE  Told' /\ Known'
<1>1. /\ card' = card /\ CommonDid' = CommonDid /\ pcd'.fsdi = pcd.fsdi /\ pcd'.mode = pcd.mode
      /\ (Library' <=> Library)
  BY DEF SameActivation, CommonDid, Library
<1>2. Told'
  <2>1. Answers({"ATS", "ATTRIBRES"})' \/ pcd'.pc \in Activated =>
          Answers({"ATS", "ATTRIBRES"}) \/ pcd.pc \in Activated
    BY DEF SameParameters, Answers
  <2>2. CardFSx(pcd.fsdi)' = CardFSx(pcd.fsdi) /\ CardFSx(Fsci(card.is))' = CardFSx(Fsci(card.is))
    BY <1>1 DEF CardFSx
  <2> QED BY <1>1, <2>1, <2>2 DEF Told
<1>3. Known'
  <2>1. pcd'.pc \in Activated \cup {"ATTRIB"} => pcd.pc \in Activated \cup {"ATTRIB"}
    BY DEF SameActivation, SameParameters
  <2>2. pcd'.pc \in Activated \cup {"ATTRIB"} =>
          /\ dev'.FSx = FSxI2FSx(pcd'.mode, Fsci(card'.is)) /\ pcd'.fsx = dev'.FSx
          /\ dev'.FWT = FWI2FWT(Fwi(card'.is))
          /\ dev'.DID = CommonDid'
    BY <1>1, <2>1 DEF SameParameters, Known
  <2>3. pcd'.pc \in Activated => pcd'.ourFsx \in {KeepFSx, FSxI2FSx(pcd'.mode, pcd'.fsdi)}
    BY <1>1 DEF SameParameters, Known
  <2> QED BY <2>2, <2>3 DEF Known
<1> QED BY <1>2, <1>3

LEMMA ReaderKnows ==
  ASSUME IInv, ParamInv, Reader, DidIsAnnounced
  PROVE  Told' /\ Known'
<1>0. /\ pcd \in Pcd /\ dev \in Dev /\ card.is \in CardKind /\ card.is \in Cards
      /\ card.is.make = "library" => card.is.tech = "A"
      /\ TechInv /\ Told /\ Known
  BY TypeFacts DEF IInv, ParamInv
<1>1. ASSUME NEW mode \in CompModes, NEW fsdi \in FSDIs, NEW did \in DIDs, NEW maxBR \in MaxBRs,
             rfalIsoDepPollAHandleActivation(mode, fsdi, did, maxBR)
      PROVE  Told' /\ Known'
  <2>1. pcd'.pc = "RATS" /\ air' \in Sent("card", pcd.tx, Rats(pcd'))
    BY <1>1 DEF rfalIsoDepPollAHandleActivation, InitPcd, ToCard
  <2>2. air'.to # "pcd"
    BY <2>1, SentIs
  <2> QED BY <2>1, <2>2 DEF Told, Known, Answers, Activated
<1>2. ASSUME NEW mode \in CompModes, NEW fsdi \in FSDIs, NEW did \in DIDs, NEW maxBR \in MaxBRs,
             rfalIsoDepPollBHandleActivation(mode, fsdi, did, maxBR)
      PROVE  Told' /\ Known'
  <2> DEFINE br == CalcBitRate(maxBR, card.is.br)
             fsx == FSxI2FSx(mode, card.is.fsci)
             p == [InitPcd EXCEPT !.pc = "ATTRIB", !.mode = mode, !.fsdi = fsdi, !.did = did,
                                  !.maxBR = maxBR, !.fsx = fsx]
  <2>1. /\ pcd' = p /\ card' = card /\ card.is.tech = "B" /\ (did # 0 => card.is.didSupport)
        /\ dev' = [DSI |-> br[1], DRI |-> br[2], FSx |-> fsx, FWT |-> FWI2FWT(card.is.fwi),
                   DID |-> did, supDID |-> card.is.didSupport]
        /\ air' \in Sent("card", pcd.tx, Attrib(p, br))
    BY <1>2 DEF rfalIsoDepPollBHandleActivation, ToCard
  <2>2. fsx = FSxI2FSx(mode, card.is.fsci)
    OBVIOUS
  <2>3. air'.to # "pcd"
    BY <2>1, SentIs
  <2> HIDE DEF br, fsx
  <2>4. p.pc = "ATTRIB" /\ p.mode = mode /\ p.did = did /\ p.fsx = fsx
    BY DEF InitPcd
  <2> HIDE DEF p
  <2>5. Fsci(card.is) = card.is.fsci /\ Fwi(card.is) = card.is.fwi
    BY <1>0, <2>1 DEF Fsci, Fwi, AnnouncedFwi
  <2>6. CommonDid' = did
    BY <2>1, <2>4 DEF CommonDid
  <2>7. "ATTRIB" \notin Activated
    BY DEF Activated
  <2>8. /\ dev'.FSx = fsx /\ dev'.FWT = FWI2FWT(card.is.fwi) /\ dev'.DID = did
    BY ONLY <2>1
  <2>9. Known'
    BY ONLY <2>1, <2>2, <2>4, <2>5, <2>6, <2>7, <2>8 DEF Known
  <2>10. Told'
    BY ONLY <2>1, <2>3, <2>4, <2>7 DEF Told, Answers
  <2> QED BY <2>9, <2>10
<1>3. CASE Deselected \/ Deactivate
  <2>1. pcd'.pc \in {"idle", "failed"} /\ air'.to = "none"
    BY <1>3, SilenceIs DEF Deselected, Deactivate, InitPcd
  <2> QED BY <2>1 DEF Told, Known, Answers, Activated
<1>4. CASE ProcessAts
  <2> DEFINE c == card.is
             br == AtsRates(c, pcd.maxBR)
             pc == IF br = <<0, 0>> THEN "active" ELSE "PPS"
             fsx == FSxI2FSx(pcd.mode, IF c.t0 THEN c.fsci ELSE 2)
             our == FSxI2FSx(pcd.mode, pcd.fsdi)
             fwt == FWI2FWT(IF c.t0 /\ c.tb THEN AnnouncedFwi(c) ELSE 4)
             sup == IF c.t0 /\ c.tc THEN c.didSupport ELSE dev.supDID
             did == IF sup THEN pcd.did ELSE 0
  <2>1. /\ pcd.pc = "RATS" /\ air.to = "pcd" /\ air.msg.type = "ATS" /\ card' = card
        /\ dev' = [DSI |-> br[1], DRI |-> br[2], FSx |-> fsx, FWT |-> fwt, DID |-> did,
                   supDID |-> sup]
        /\ pcd' = [pcd EXCEPT !.pc = pc, !.sfgt = TRUE, !.fsx = fsx, !.ourFsx = our]
        /\ air' = Silence
    BY <1>4, ProcessAtsIs
  <2>2. c.tech = "A"
    BY <1>0, <2>1 DEF TechInv
  <2>3. fsx = FSxI2FSx(pcd.mode, Fsci(c)) /\ fwt = FWI2FWT(Fwi(c)) /\ our = FSxI2FSx(pcd.mode, pcd.fsdi)
    BY <2>2 DEF Fsci, Fwi
  <2>4. did = CommonDid
    <3>1. CASE pcd.did = 0
      BY <3>1 DEF CommonDid
    <3>2. CASE pcd.did # 0
      <4>1. c.t0 /\ c.tc
        BY <1>0, <2>2, <3>2 DEF TechInv, DidIsAnnounced
      <4> QED BY <4>1 DEF CommonDid
    <3> QED BY <3>1, <3>2
  <2>5. c = card.is
    OBVIOUS
  <2> HIDE DEF c, br, pc, fsx, our, fwt, sup, did
  <2>6. pcd'.mode = pcd.mode /\ pcd'.fsx = fsx /\ pcd'.ourFsx = our /\ pcd'.did = pcd.did
        /\ pcd'.fsdi = pcd.fsdi
    BY ONLY <1>0, <2>1 DEF Pcd
  <2>7. dev'.FSx = fsx /\ dev'.FWT = fwt /\ dev'.DID = did
    BY ONLY <2>1
  <2>8. CommonDid' = CommonDid
    BY <2>1, <2>6 DEF CommonDid
  <2>9. Known'
    BY ONLY <2>1, <2>3, <2>4, <2>5, <2>6, <2>7, <2>8 DEF Known
  <2>10. Told'
    <3>1. Answers({"ATS", "ATTRIBRES"})
      BY <2>1 DEF Answers
    <3>2. /\ card.did = CommonDid /\ card.fsx = CardFSx(pcd.fsdi)
          /\ card.ourFsx = CardFSx(Fsci(card.is)) /\ card.fwt = FWI2FWT(Fwi(card.is))
      BY <1>0, <3>1 DEF Told
    <3>3. CardFSx(pcd.fsdi)' = CardFSx(pcd.fsdi) /\ CardFSx(Fsci(card.is))' = CardFSx(Fsci(card.is))
      BY <2>1, <2>6 DEF CardFSx, Library
    <3> QED BY <2>1, <2>8, <3>2, <3>3 DEF Told
  <2> QED BY <2>9, <2>10
<1>5. CASE SameActivation /\ SameParameters
  BY <1>0, <1>5, ReaderKeepsParameters
<1> QED BY <1>1, <1>2, <1>3, <1>4, <1>5, ActivationKept, ParametersKept

LEMMA ParamInit == Init => ParamInv
<1> SUFFICES ASSUME Init PROVE ParamInv
  OBVIOUS
<1>1. pcd.pc = "idle" /\ air.to = "none"
  BY SilenceIs DEF Init, InitPcd
<1> QED BY <1>1, TechInit DEF ParamInv, Told, Known, Answers, Activated

LEMMA ParamNext == DidIsAnnounced => (IInv /\ ParamInv /\ [Next]_vars => ParamInv')
<1> SUFFICES ASSUME DidIsAnnounced, IInv, ParamInv, [Next]_vars PROVE ParamInv'
  OBVIOUS
<1>1. TechInv'
  BY TechNext DEF ParamInv
<1>2. CASE UNCHANGED vars
  <2>1. CommonDid' = CommonDid /\ \A i : CardFSx(i)' = CardFSx(i)
    BY <1>2 DEF vars, CommonDid, CardFSx, Library
  <2>2. CardFSx(pcd.fsdi)' = CardFSx(pcd.fsdi) /\ CardFSx(Fsci(card.is))' = CardFSx(Fsci(card.is))
    BY <1>2 DEF vars, CardFSx, Library
  <2> QED BY <1>1, <1>2, <2>1, <2>2 DEF vars, ParamInv, Told, Known, Answers
<1>3. CASE Reader
  BY <1>1, <1>3, ReaderKnows DEF ParamInv
<1>4. CASE Card
  BY <1>1, <1>4, CardTold, CardKnown DEF ParamInv
<1> QED BY <1>2, <1>3, <1>4 DEF Next

\* What is known agrees: each side sends what the other takes.
LEMMA KnownAgrees == IInv /\ ParamInv => ParametersAgree
<1> SUFFICES ASSUME IInv, ParamInv, pcd.pc \in {"PCD_TX", "PCD_RX", "sent"}
             PROVE  /\ pcd.fsx <= card.ourFsx /\ card.fsx - CrcLen < pcd.ourFsx
                    /\ dev.FWT >= card.fwt
                    /\ dev.DID = card.did
  BY DEF ParametersAgree
<1> DEFINE i == Fsci(card.is)
           m == IF Library THEN "NFC" ELSE "EMV"
<1>1. /\ card.did = CommonDid /\ card.fsx = FSxI2FSx(m, pcd.fsdi)
      /\ card.ourFsx = FSxI2FSx(m, i) /\ card.fwt = FWI2FWT(Fwi(card.is))
      /\ dev.FSx = FSxI2FSx(pcd.mode, i) /\ pcd.fsx = dev.FSx
      /\ dev.FWT = FWI2FWT(Fwi(card.is)) /\ dev.DID = CommonDid
      /\ pcd.ourFsx \in {KeepFSx, FSxI2FSx(pcd.mode, pcd.fsdi)}
  BY DEF ParamInv, Told, Known, Activated, CardFSx
<1>2. /\ card.is \in CardKind /\ pcd.fsdi \in 0..MaxFSxI /\ pcd.fsdi \in Nat
      /\ card.is.make = "library" => card.is.fsci <= MaxFSxI
      /\ card.is.fsci \in Nat /\ dev.FWT \in Nat
  BY TypeFacts DEF IInv, Pcd, CardKind, Dev, MaxFSxI
<1>3. i \in Nat /\ (i <= MaxFSxI \/ m = "EMV")
  BY <1>2 DEF Fsci, Library, MaxFSxI
<1>4. pcd.fsx <= card.ourFsx
  BY <1>1, <1>3, FSxFits
<1>5. card.fsx \in Nat /\ card.fsx <= 256
  BY <1>1, <1>2, FSxIs, SmallFSx
<1>6. card.fsx <= FSxI2FSx(pcd.mode, pcd.fsdi) /\ FSxI2FSx(pcd.mode, pcd.fsdi) \in Nat
  <2>1. pcd.fsdi <= MaxFSxI
    BY <1>2 DEF MaxFSxI
  <2> QED BY <1>1, <1>2, <2>1, FSxFits, FSxIs
<1>7. card.fsx - CrcLen < pcd.ourFsx
  BY <1>1, <1>5, <1>6 DEF KeepFSx, CrcLen
<1> QED BY <1>1, <1>2, <1>4, <1>7

\* When the first APDU is sent, neither side sends longer frames than the other receives,
\* the reader waits as long as the card may take and both use the same DID: provided the
\* reader uses none, or the cards tell whether they support one, for the flag is not
\* reset where an ATS does not tell.
THEOREM AlwaysAgreed == DidIsAnnounced => (Spec => []ParametersAgree)
<1> SUFFICES ASSUME DidIsAnnounced PROVE Spec => []ParametersAgree
  OBVIOUS
<1>1. IInv /\ ParamInv /\ [Next]_vars => ParamInv'
  BY ParamNext
<1> QED BY <1>1, ParamInit, KnownAgrees, OneFrame, PTL DEF Spec

-----------------------------------------------------------------------------
(* The reader follows the card to other bit rates.                         *)

LEMMA CardRateInv ==
  ASSUME IInv, RateInv, Card
  PROVE  RateInv'
<1>1. UNCHANGED <<pcd, dev>>
  BY SameCardIs
<1>2. ASSUME ~Answers({"PPSRES", "ATTRIBRES"})', ~Answers({"BRACK"})'
      PROVE  RateInv'
  BY <1>2 DEF RateInv
<1>3. ASSUME UNCHANGED air, CardRates' = CardRates
      PROVE  RateInv'
  BY <1>1, <1>3 DEF RateInv, Answers
<1>4. CASE ListenStartActivation
  BY <1>2, <1>4, ListenStartActivationInv DEF Answers
<1>5. CASE ReceivePps
  <2>1. air'.to = "pcd" => air'.msg.type \in {"PPSRES", "damaged"}
    BY <1>5, ReceivePpsInv
  <2>2. air'.to = "pcd" => CardRates' = <<dev'.DSI, dev'.DRI>>
    BY <1>1, <1>5, ReceivePpsInv DEF CardRates
  <2> QED BY <2>1, <2>2 DEF RateInv, Answers
<1>6. CASE ReceiveAttrib
  <2>1. air'.to = "pcd" => air'.msg.type \in {"ATTRIBRES", "damaged"}
    BY <1>6, ReceiveAttribInv
  <2>2. CardRates' = <<dev'.DSI, dev'.DRI>>
    BY <1>1, <1>6, ReceiveAttribInv DEF CardRates
  <2> QED BY <2>1, <2>2 DEF RateInv, Answers
<1>7. CASE Switch
  BY <1>3, <1>7, SwitchInv DEF CardRates
<1>8. CASE ReceiveOther \/ Ignores
  <2>1. air'.to # "pcd"
    BY <1>8, ReceiveOtherInv, SilenceIs
  <2> QED BY <1>2, <2>1 DEF Answers
<1>9. CASE ReceiveSParameters
  <2>1. CASE pcd.pc = "BRIND" /\ (air'.to = "pcd" => air'.msg.type \in {"BRIND", "damaged"})
    BY <1>2, <2>1 DEF Answers
  <2>2. CASE /\ air'.to = "pcd" => air'.msg.type \in {"BRACK", "damaged"}
             /\ card'.st = "switching" /\ card'.next = <<pcd.inf[2], pcd.inf[1]>>
    <3>1. CardRates' = <<pcd'.inf[2], pcd'.inf[1]>>
      BY <1>1, <2>2 DEF CardRates
    <3> QED BY <2>2, <3>1 DEF RateInv, Answers
  <2> QED BY <1>9, <2>1, <2>2, ReceiveSParametersInv
<1>10. CASE ReceiveBlock
  BY <1>2, <1>10, ReceiveBlockInv DEF Answers
<1>11. CASE GuardTimeEnds
  BY <1>3, <1>11, GuardTimeEndsInv DEF CardRates
<1> QED BY <1>4, <1>5, <1>6, <1>7, <1>8, <1>9, <1>10, <1>11 DEF Card

LEMMA ReaderRateInv ==
  ASSUME IInv, RateInv, Reader
  PROVE  RateInv'
<1>1. ASSUME air'.to # "pcd"
      PROVE  RateInv'
  BY <1>1 DEF RateInv, Answers
<1>2. ASSUME NEW mode \in CompModes, NEW fsdi \in FSDIs, NEW did \in DIDs, NEW maxBR \in MaxBRs,
             \/ rfalIsoDepPollAHandleActivation(mode, fsdi, did, maxBR)
             \/ rfalIsoDepPollBHandleActivation(mode, fsdi, did, maxBR)
      PROVE  RateInv'
  <2>1. \E msg : air' \in Sent("card", pcd.tx, msg)
    BY <1>2 DEF rfalIsoDepPollAHandleActivation, rfalIsoDepPollBHandleActivation, ToCard
  <2>2. air'.to # "pcd"
    BY <2>1, SentIs
  <2> QED BY <1>1, <2>2
<1>3. CASE Deselected \/ Deactivate \/ ProcessAts
  BY <1>1, <1>3, SilenceIs DEF Deselected, Deactivate, ProcessAts
<1>4. CASE SameActivation /\ SameParameters
  BY <1>1, <1>4 DEF SameActivation, SameParameters, RateInv, Answers, CardRates
<1> QED BY <1>2, <1>3, <1>4, ActivationKept, ParametersKept

LEMMA RateNext == IInv /\ RateInv /\ [Next]_vars => RateInv'
<1>1. ASSUME RateInv, UNCHANGED vars PROVE RateInv'
  BY <1>1 DEF vars, RateInv, Answers, CardRates
<1> QED BY <1>1, CardRateInv, ReaderRateInv DEF Next

\* When the reader gets an answer, it takes the rates that the card goes to.
LEMMA ReaderFollows ==
  ASSUME IInv, RateInv, [Next]_vars, pcd'.pc \in {"active", "tuned"}
  PROVE  <<pcd'.rx, pcd'.tx>> \in {<<pcd.rx, pcd.tx>>, CardRates}
<1> DEFINE Goal == <<pcd'.rx, pcd'.tx>> \in {<<pcd.rx, pcd.tx>>, CardRates}
<1>0. pcd \in Pcd
  BY DEF IInv, Typed
<1>a. ASSUME pcd'.rx = pcd.rx, pcd'.tx = pcd.tx PROVE Goal
  BY <1>a
<1> HIDE DEF Goal
<1> SUFFICES Goal
  BY DEF Goal
<1>1. CASE UNCHANGED vars
  BY <1>1, <1>a DEF vars
<1>2. CASE Card
  BY <1>2, <1>a, SameCardIs
<1>3. ASSUME NEW mode \in CompModes, NEW fsdi \in FSDIs, NEW did \in DIDs, NEW maxBR \in MaxBRs,
             rfalIsoDepPollAHandleActivation(mode, fsdi, did, maxBR)
      PROVE  FALSE
  <2>1. pcd'.pc = "RATS"
    BY <1>3 DEF rfalIsoDepPollAHandleActivation, InitPcd
  <2> QED BY <2>1
<1>4. ASSUME NEW mode \in CompModes, NEW fsdi \in FSDIs, NEW did \in DIDs, NEW maxBR \in MaxBRs,
             rfalIsoDepPollBHandleActivation(mode, fsdi, did, maxBR)
      PROVE  FALSE
  <2>1. pcd'.pc = "ATTRIB"
    BY <1>4 DEF rfalIsoDepPollBHandleActivation, InitPcd
  <2> QED BY <2>1
<1>5. CASE RatsTimeout \/ RatsError
  BY <1>5, RatsFailsInv
<1>6. CASE Deselected \/ Deactivate
  <2>1. pcd'.pc \in {"idle", "failed"}
    BY <1>6 DEF Deselected, Deactivate, InitPcd
  <2> QED BY <2>1
<1>7. CASE ProcessAts
  <2> DEFINE br == AtsRates(card.is, pcd.maxBR)
             pc == IF br = <<0, 0>> THEN "active" ELSE "PPS"
             fsx == FSxI2FSx(pcd.mode, IF card.is.t0 THEN card.is.fsci ELSE 2)
             our == FSxI2FSx(pcd.mode, pcd.fsdi)
  <2>1. pcd' = [pcd EXCEPT !.pc = pc, !.sfgt = TRUE, !.fsx = fsx, !.ourFsx = our]
    BY <1>7, ProcessAtsIs
  <2> HIDE DEF br, pc, fsx, our
  <2>2. pcd'.rx = pcd.rx /\ pcd'.tx = pcd.tx
    BY ONLY <1>0, <2>1 DEF Pcd
  <2> QED BY <1>a, <2>2
<1>8. CASE SfgtExpires
  BY <1>0, <1>8, <1>a DEF SfgtExpires, Pcd
<1>9. CASE rfalIsoDepPPS
  BY <1>0, <1>9, <1>a DEF rfalIsoDepPPS, Pcd
<1>10. CASE PpsFails
  BY <1>0, <1>10, <1>a DEF PpsFails, Pcd
<1>11. CASE PpsAnswered
  <2>1. Answers({"PPSRES", "ATTRIBRES"})
    BY <1>11 DEF PpsAnswered, Answered, Answers
  <2>2. pcd'.tx = dev.DRI /\ pcd'.rx = dev.DSI
    BY <1>0, <1>11 DEF PpsAnswered, Pcd
  <2> QED BY <2>1, <2>2 DEF RateInv, Goal
<1>12. CASE AttribAnswered
  <2> DEFINE our == FSxI2FSx(pcd.mode, pcd.fsdi)
  <2>1. /\ pcd' = [pcd EXCEPT !.pc = "active", !.tx = dev.DRI, !.rx = dev.DSI, !.sfgt = TRUE,
                              !.ourFsx = our]
        /\ Answers({"PPSRES", "ATTRIBRES"})
    BY <1>12 DEF AttribAnswered, Answered, Answers
  <2> HIDE DEF our
  <2>2. pcd'.tx = dev.DRI /\ pcd'.rx = dev.DSI
    BY ONLY <1>0, <2>1 DEF Pcd
  <2> QED BY <2>1, <2>2 DEF RateInv, Goal
<1>13. CASE AttribFails
  <2>1. pcd'.pc = "failed"
    BY <1>0, <1>13 DEF AttribFails, Pcd
  <2> QED BY <2>1
<1>14. CASE \E maxBR \in MaxBRs : rfalIsoDepPollHandleSParameters(maxBR)
  <2>1. pcd'.pc = "BRIND"
    BY <1>0, <1>14 DEF rfalIsoDepPollHandleSParameters, Pcd
  <2> QED BY <2>1
<1>15. CASE BrIndAnswered
  <2>1. pcd'.pc = "BRACK"
    BY <1>0, <1>15 DEF BrIndAnswered, Pcd
  <2> QED BY <2>1
<1>16. CASE BrAckAnswered
  <2>1. Answers({"BRACK"})
    BY <1>16 DEF BrAckAnswered, Answered, Answers
  <2>2. pcd'.tx = pcd.inf[1] /\ pcd'.rx = pcd.inf[2]
    BY <1>0, <1>16 DEF BrAckAnswered, Pcd
  <2> QED BY <2>1, <2>2 DEF RateInv, Goal
<1>17. CASE SParametersFail
  BY <1>0, <1>17, <1>a DEF SParametersFail, Pcd
<1>18. CASE \E len \in ApduLens : rfalIsoDepStartApduTransceive(len)
  BY <1>18, StartApduInv
<1>19. CASE PcdTx
  BY <1>19, PcdTxInv
<1>20. CASE BlockDone \/ BlockFails
  BY <1>20, BlockEndsInv
<1> QED BY <1>1, <1>2, <1>3, <1>4, <1>5, <1>6, <1>7, <1>8, <1>9, <1>10, <1>11, <1>12, <1>13, <1>14,
           <1>15, <1>16, <1>17, <1>18, <1>19, <1>20 DEF Next, Reader

\* The reader changes its bit rates only to those that the card has changed to or does
\* after its answer, each in its direction: after PPS and ATTRIB as after S(PARAMETERS).
THEOREM AlwaysFollowsCard == Spec => RatesFollowCard
<1>1. Init => RateInv
  <2>1. Init => air.to = "none"
    BY SilenceIs DEF Init
  <2> QED BY <2>1 DEF RateInv, Answers
<1>2. IInv /\ RateInv /\ [Next]_vars =>
        [pcd'.pc \in {"active", "tuned"} /\ <<pcd'.rx, pcd'.tx>> # <<pcd.rx, pcd.tx>> =>
           <<pcd'.rx, pcd'.tx>> =
             (IF card.st = "switching" THEN card.next ELSE <<card.tx, card.rx>>)]_vars
  BY ReaderFollows DEF CardRates
<1> QED BY <1>1, <1>2, RateNext, OneFrame, PTL DEF Spec, RatesFollowCard
=============================================================================
