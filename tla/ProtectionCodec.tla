-------------------------- MODULE ProtectionCodec --------------------------
(***************************************************************************)
(* Grid-protection parameters on the wire (codec, internal/gridprofile     *)
(* encode and capability, the page buffer of internal/ingest).  A value in *)
(* native units is scaled, truncated and put into a frame; the inverter    *)
(* keeps the register; pages of registers come back in any order, and the  *)
(* decoded values are compared with what was asked for.                    *)
(*                                                                         *)
(* Native values are counted in hundredths (of a volt, hertz, second or    *)
(* watt, of a percent per hertz; a mode counts as its number).  The code   *)
(* computes in floating point: where the exact product is an integer,      *)
(* truncation may yield the integer or one less.                           *)
(*                                                                         *)
(* The tables hold every code the encoders accept, and of the codes that   *)
(* are only read DC, which shares a page and a SunSpec point with the      *)
(* slope and the mode.  The other read-only codes (AS, BN, BO; AT..AX, AZ, *)
(* BA, BF, BG, BL, BM of a QS1) are left out: nothing is asked of them.    *)
(***************************************************************************)
EXTENDS Integers, Sequences, FiniteSets

CONSTANTS
    Samples,    \* native values to write, by unit
    MaxWrites,  \* bound on commands
    Unset       \* no register value, no reading

ASSUME CodecAssumption == Unset \notin Int /\ MaxWrites \in Nat

Families == {"DS3", "QS1"}

-----------------------------------------------------------------------------
(* Write tables: sub-byte (or command), scale and builder of every code.   *)

WField(sub, scale, via) == [sub |-> sub, scale |-> scale, via |-> via]

ds3ProtParams ==
    [ CB |-> WField(43, "hz100", "ds3"), CC |-> WField(42, "hz100", "ds3"), DH |-> WField(86, "hz100", "ds3"),
      DI |-> WField(85, "hz100", "ds3"), AG |-> WField(37, "s50", "ds3"),
      AI |-> WField(1, "v268", "ds3"), AH |-> WField(2, "v268", "ds3"), AD |-> WField(3, "v268", "ds3"),
      AQ |-> WField(4, "v268", "ds3"), AY |-> WField(5, "v268", "ds3"), AC |-> WField(6, "v268", "ds3"),
      AK |-> WField(9, "hz100", "ds3"), AJ |-> WField(10, "hz100", "ds3"), AF |-> WField(11, "hz100", "ds3"),
      AE |-> WField(12, "hz100", "ds3"), BC |-> WField(15, "s100", "ds3"), BB |-> WField(16, "s100", "ds3"),
      BE |-> WField(17, "s100", "ds3"), BD |-> WField(18, "s100", "ds3"), BI |-> WField(21, "s100", "ds3"),
      BH |-> WField(22, "s100", "ds3"), BK |-> WField(23, "s100", "ds3"), BJ |-> WField(24, "s100", "ds3"),
      AB |-> WField(66, "v268", "ds3"), BQ |-> WField(35, "hz100", "ds3"), BP |-> WField(36, "hz100", "ds3"),
      DD |-> WField(45, "slope", "ds3"), CG |-> WField(46, "s1", "ds3"), CV |-> WField(40, "mode", "ds3"),
      DA |-> WField(39, "w6027", "power") ]

qs1Params ==
    [ CB |-> WField(104, "hzInv", "new3"), CC |-> WField(101, "hzInv", "new3"), DH |-> WField(161, "hzInv", "new3"),
      DI |-> WField(164, "hzInv", "new3"), BQ |-> WField(78, "hzInv", "new3"), BP |-> WField(81, "hzInv", "new3"),
      AI |-> WField(144, "v5328", "new2"), AH |-> WField(142, "v5328", "new2"),
      AQ |-> WField(17, "v5328", "yc2"), AD |-> WField(18, "v5328", "yc2"), AC |-> WField(19, "v5328", "yc2"),
      AY |-> WField(20, "v5328", "yc2"), AJ |-> WField(88, "hzInv", "yc3"), AK |-> WField(87, "hzInv", "yc3"),
      AE |-> WField(90, "hzInv", "yc3"), AF |-> WField(89, "hzInv", "yc3"),
      BB |-> WField(54, "s100", "new2"), BC |-> WField(56, "s100", "new2"), BD |-> WField(58, "s100", "new2"),
      BE |-> WField(60, "s100", "new2"), BH |-> WField(62, "s100", "new2"), BI |-> WField(64, "s100", "new2"),
      BJ |-> WField(66, "s100", "new2"), BK |-> WField(68, "s100", "new2"),
      AB |-> WField(125, "v31968", "new3"), AG |-> WField(93, "s100", "yc2"), DA |-> WField(140, "w7395", "power"),
      CA |-> WField(98, "hzInv", "new3"), CV |-> WField(95, "mode", "modes") ]

WriteTable(f) == IF f = "DS3" THEN ds3ProtParams ELSE qs1Params
UnitOf(c) ==
    CASE c \in {"AI", "AH", "AD", "AQ", "AY", "AC", "AB"} -> "V"
      [] c \in {"CB", "CC", "DH", "DI", "AK", "AJ", "AF", "AE", "BQ", "BP", "CA", "DC"} -> "Hz"
      [] c = "DA" -> "W" [] c = "DD" -> "slope" [] c = "CV" -> "mode"
      [] OTHER -> "s"

(* Read tables: page, offset in it, width and scale.                       *)
RField(page, off, width, scale) == [page |-> page, off |-> off, width |-> width, scale |-> scale]

ds3ReadPages ==
    [ AI |-> RField("A", 1, 2, "volt"), AH |-> RField("A", 3, 2, "volt"), AD |-> RField("A", 5, 2, "volt"),
      AQ |-> RField("A", 7, 2, "volt"), AY |-> RField("A", 9, 2, "volt"), AC |-> RField("A", 11, 2, "volt"),
      AK |-> RField("A", 17, 2, "freq"), AJ |-> RField("A", 19, 2, "freq"), AF |-> RField("A", 21, 2, "freq"),
      AE |-> RField("A", 23, 2, "freq"), BC |-> RField("A", 29, 2, "sec"), BB |-> RField("A", 31, 2, "sec"),
      BE |-> RField("A", 33, 2, "sec"), BD |-> RField("A", 35, 2, "sec"), BI |-> RField("A", 41, 3, "sec"),
      BH |-> RField("A", 44, 3, "sec"), BK |-> RField("A", 76, 3, "sec"), BJ |-> RField("A", 79, 3, "sec"),
      BQ |-> RField("A", 65, 2, "freq"), BP |-> RField("A", 67, 2, "freq"), AG |-> RField("A", 69, 2, "cycles"),
      CV |-> RField("B", 5, 1, "mode"), DC |-> RField("B", 6, 2, "freq"), DD |-> RField("B", 12, 2, "droop"),
      DA |-> RField("B", 3, 2, "watt"), CC |-> RField("B", 8, 2, "freq"), CB |-> RField("B", 10, 2, "freq"),
      AB |-> RField("B", 49, 2, "voltAvg"), DI |-> RField("B", 63, 2, "freq"), DH |-> RField("B", 65, 2, "freq") ]

qs1ReadPages ==
    [ AQ |-> RField("A", 5, 2, "volt"), AD |-> RField("A", 7, 2, "volt"), AC |-> RField("A", 9, 2, "volt"),
      AY |-> RField("A", 11, 2, "volt"), AJ |-> RField("A", 17, 3, "freq"), AK |-> RField("A", 20, 3, "freq"),
      AE |-> RField("A", 23, 3, "freq"), AF |-> RField("A", 26, 3, "freq"), BB |-> RField("A", 29, 2, "sec"),
      BC |-> RField("A", 31, 2, "sec"), BD |-> RField("A", 33, 2, "sec"), BE |-> RField("A", 35, 2, "sec"),
      BH |-> RField("A", 41, 2, "sec"), BI |-> RField("A", 43, 2, "sec"), BJ |-> RField("A", 45, 2, "sec"),
      BK |-> RField("A", 47, 2, "sec"), AG |-> RField("A", 49, 2, "sec"), AH |-> RField("A", 53, 2, "volt"),
      AI |-> RField("A", 55, 2, "volt"), BP |-> RField("B", 5, 3, "freq"), BQ |-> RField("B", 8, 3, "freq"),
      AB |-> RField("B", 25, 3, "voltAvg"), DA |-> RField("B", 71, 2, "watt"), CC |-> RField("B", 37, 3, "freq"),
      CB |-> RField("B", 40, 3, "freq"), DH |-> RField("C", 12, 3, "freq"), DI |-> RField("C", 15, 3, "freq"),
      DC |-> RField("C", 1, 3, "freq"), DD |-> RField("B", 69, 2, "droop"), CV |-> RField("B", 63, 1, "nibble") ]

ReadTable(f) == IF f = "DS3" THEN ds3ReadPages ELSE qs1ReadPages

PageNames == {"A", "B", "C"}
PageFields == [f \in Families |-> [p \in PageNames |-> {c \in DOMAIN ReadTable(f) : ReadTable(f)[c].page = p}]]
InPage(f, p) == PageFields[f][p]

(* Every code.  A family writes some and reads some: a DS3 reads no CG, a  *)
(* QS1 no CA, a QS1 writes no DD, and none writes DC (capability.go).      *)
ProtCodes == (DOMAIN ds3ProtParams \cup DOMAIN qs1Params) \cup (DOMAIN ds3ReadPages \cup DOMAIN qs1ReadPages)

-----------------------------------------------------------------------------
(* Encoding.                                                               *)

(* validateProtectionEnvelope and checkPanelWatts, after value > 0.        *)
NativeEnvelope(unit) ==
    CASE unit = "V" -> 10000 .. 60000 [] unit = "Hz" -> 4000 .. 7000
      [] unit = "s" -> 1 .. 100000 [] unit = "W" -> 2000 .. 50000
      [] unit = "slope" -> 1 .. 20000 [] unit = "mode" -> Nat \ {0}

Trunc(num, den) == LET n == num \div den IN IF num % den = 0 /\ n > 0 THEN {n - 1, n} ELSE {n}

(* 5 * 10^9 / d without leaving 32 bits: 50 MHz over d hundredths of Hz.   *)
Period(d) == 5 * (1000000000 \div d) + (5 * (1000000000 % d)) \div d

(* The mode of a native value: 15 is off, 13 the Australian curve.         *)
ModeOf(v) == v \div 100
ds3ModeEnum(m) == CASE m = 15 -> 0 [] m \in {3, 4, 13} -> 1 [] OTHER -> 2

(* The registers a native value can be scaled to.                          *)
ToWire(scale, v) ==
    CASE scale = "hz100" -> Trunc(v, 1)
      [] scale = "s100" -> Trunc(v, 1)
      [] scale = "s50" -> Trunc(v, 2)
      [] scale = "s1" -> {(v + 50) \div 100}
      [] scale = "slope" -> Trunc(v * 1023, 625)
      [] scale = "mode" -> {ds3ModeEnum(ModeOf(v))}
      [] scale = "v268" -> Trunc(v * 10, 268)
      [] scale = "v5328" -> Trunc(v * 333, 6250)
      [] scale = "v31968" -> Trunc(v * 3996, 125)
      [] scale = "hzInv" -> {Period(v), Period(v) - 1}
      [] scale = "w6027" -> {(v * 2000 + 6027) \div 12054}
      [] scale = "w7395" -> {((v \div 100) * 7395) \div 256}

Width(via) == IF via \in {"new3", "yc3"} THEN 3 ELSE 2
FitsWidth(wire, width) == wire \in Nat /\ wire <= (IF width = 2 THEN 65535 ELSE 16777215)
Bytes(wire, width) ==
    CASE width = 1 -> << wire % 256 >>
      [] width = 2 -> << (wire \div 256) % 256, wire % 256 >>
      [] OTHER -> << (wire \div 65536) % 256, (wire \div 256) % 256, wire % 256 >>

(* BuildL2Frame without its sentinels and checksum: command and body.      *)
L2Frame(f, c, wire, cast) ==
    LET w == WriteTable(f)[c]
        b == Bytes(wire, Width(w.via))
        op == IF f = "DS3" THEN (IF cast THEN 171 ELSE 170) ELSE (IF cast THEN 44 ELSE 28)
    IN  CASE w.via = "ds3" \/ (w.via = "power" /\ f = "DS3") -> <<op, w.sub, 0, 0, b[1], b[2]>>
          [] w.via = "new2" \/ (w.via = "power" /\ f = "QS1") -> <<op, w.sub, 2, b[1], b[2], 0>>
          [] w.via = "new3" -> <<op, w.sub, 3, b[1], b[2], b[3]>>
          [] w.via = "yc2" -> <<w.sub, b[1], b[2], 0, 0, 0>>
          [] w.via = "yc3" -> <<w.sub, b[1], b[2], b[3], 0, 0>>

(* The mode of a QS1 takes two or three frames: its class, itself, and a   *)
(* second register unless the class is the last.                           *)
ModeFrame(sub, v) == <<28, sub, 1, v, 0, 0>>
qs1ModeFrames(m) ==
    CASE m = 15 -> << ModeFrame(95, 48), ModeFrame(95, 15), ModeFrame(153, 0) >>
      [] m \in {3, 4, 13} -> << ModeFrame(95, 16), ModeFrame(95, IF m = 13 THEN 4 ELSE m), ModeFrame(153, 1) >>
      [] OTHER -> << ModeFrame(95, 32), ModeFrame(95, IF m = 14 THEN 1 ELSE m) >>

(* EncodeSetProtectionBroadcast refuses what has no opcode to swap, and    *)
(* what takes several frames.                                              *)
Castable(f, c) == WriteTable(f)[c].via \notin {"yc2", "yc3", "modes"}

(* EncodeSetProtection and EncodeSetPower: the sequences of frames a       *)
(* command can become; none when it is refused.  A profile's point is      *)
(* refused for CA of a QS1 too (familyHardRejects); a SunSpec write is not.*)
EncodeSetProtection(f, c, v, cast) ==
    LET w == WriteTable(f)[c] IN
    IF v \notin NativeEnvelope(UnitOf(c)) \/ (cast /\ ~Castable(f, c)) THEN {}
    ELSE IF w.via = "modes" THEN IF ModeOf(v) <= 255 THEN {qs1ModeFrames(ModeOf(v))} ELSE {}
    ELSE {<<L2Frame(f, c, wire, cast)>> : wire \in {x \in ToWire(w.scale, v) : FitsWidth(x, Width(w.via))}}

(* What the daemon recognises in a frame it routes, by its command and the *)
(* byte after it.                                                          *)
QS1YC600ProtCmds == {17, 18, 19, 20, 87, 88, 89, 90, 93}
IsSetPower(fr) == \/ fr[1] = 170 /\ fr[2] = 39
                  \/ fr[1] = 28 /\ fr[2] = 140
                  \/ fr[1] = 195

(* What ecu-zb lets through to the radio, by its command (onoff.go and the *)
(* queries are on the list too): the bytes of a frame's shape are those of *)
(* BuildL2Frame, and no frame is shorter than minL2Len.                    *)
allowedL2Cmds == {28, 44, 170, 171, 195, 163, 193, 194, 93, 17, 18, 19, 20, 87, 88, 89, 90, 221, 222, 217, 220, 187}
DispatchFrame(fr, cast) == fr[1] \in allowedL2Cmds /\ (cast => fr[1] \notin QS1YC600ProtCmds)

(* Faulty variant: the frames that carry the parameter as their command    *)
(* are forgotten.                                                          *)
IsProtectionWriteOpcode(fr) == \/ fr[1] = 170 /\ fr[2] # 39
                               \/ fr[1] = 28 /\ fr[2] # 140

IsProtectionWrite(fr) == \/ fr[1] = 170 /\ fr[2] # 39
                         \/ fr[1] = 28 /\ fr[2] # 140
                         \/ fr[1] \in QS1YC600ProtCmds

-----------------------------------------------------------------------------
(* Decoding.                                                               *)

BigEndian(bytes) == CASE Len(bytes) = 1 -> bytes[1]
                      [] Len(bytes) = 2 -> bytes[1] * 256 + bytes[2]
                      [] OTHER -> bytes[1] * 65536 + bytes[2] * 256 + bytes[3]

(* readBE: two bytes are signed, one and three are not.                    *)
readBE(bytes) == LET v == BigEndian(bytes)
                 IN  IF Len(bytes) = 2 /\ v >= 32768 THEN v - 65536 ELSE v

(* dsFreq and qsFreq, dsDroop and qsDroop, dsMaxPower and qsMaxPower.      *)
Frequency(f, wire) == IF f = "DS3" THEN wire ELSE IF wire = 0 THEN 0 ELSE Period(wire)
Droop(f, wire) == IF f = "DS3" THEN wire * 27 + (wire * 179877) \div 1104449 ELSE (wire * 169) \div 10
MaxPower(f, wire) == IF f = "DS3" THEN (wire * 6027) \div 1000 ELSE (wire * 25600) \div 7395

(* dsMode: the enumeration back to 13, 14, and 15 for anything else.       *)
dsMode(wire) == CASE wire = 1 -> 1300 [] wire = 2 -> 1400 [] OTHER -> 1500

(* Faulty variant: the truncating scale of AB for every voltage.           *)
FromWireTruncated(f, scale, wire) ==
    CASE scale = "freq" -> Frequency(f, wire)
      [] scale = "sec" -> wire
      [] scale = "cycles" -> wire * 2
      [] scale \in {"volt", "voltAvg"} -> IF f = "DS3" THEN 100 * ((wire * 268) \div 1000)
                                                     ELSE 100 * ((wire * 250) \div 1332)
      [] scale = "watt" -> MaxPower(f, wire) [] scale = "droop" -> Droop(f, wire) [] scale = "mode" -> dsMode(wire)

FromWire(f, scale, wire) ==
    CASE scale = "freq" -> Frequency(f, wire)
      [] scale = "sec" -> wire
      [] scale = "cycles" -> wire * 2
      [] scale = "volt" -> IF f = "DS3" THEN 100 * ((wire * 268 + 500) \div 1000)
                                        ELSE 100 * ((wire * 250 + 666) \div 1332)
      [] scale = "voltAvg" -> IF f = "DS3" THEN 100 * ((wire * 268) \div 1000)
                                           ELSE 100 * (((wire \div 600) * 20000 + 53260) \div 106520)
      [] scale = "watt" -> MaxPower(f, wire) [] scale = "droop" -> Droop(f, wire) [] scale = "mode" -> dsMode(wire)

(* qsModeFromPageB: half of a byte, by the page's variant.  A field of it  *)
(* is that byte and the variant (offset 74).                               *)
Variants == {0, 102, 1}
qsModeFromPageB(bytes) ==
    CASE bytes[2] = 102 -> 100 * (((bytes[1] \div 16) % 4) + 12)
      [] bytes[2] = 0 -> 100 * (bytes[1] % 16)
      [] OTHER -> Unset

ReadSaneMax == 200000

-----------------------------------------------------------------------------
VARIABLES
    fam,        \* the inverter's family
    regs,       \* the registers it holds, by code
    asked,      \* the native value last written to each, if the inverter took all of it
    sentFrame,  \* the frames of the last command and what they were encoded for
    pages,      \* protPages: the page buffered last, as bytes by code
    protValues, \* what is published, by code
    fresh,      \* codes whose page was read after the last write; not in the program
    writes      \* what MaxWrites bounds

codecVars == <<fam, regs, asked, sentFrame, pages, protValues, fresh, writes>>

NoFrame == [frames |-> <<>>, code |-> "none", cast |-> FALSE]

MaxRegister == 16777215
RegisterValues == 0 .. MaxRegister

\* The types, a part of WriteReadsBack.
CodecTypeOK ==
    /\ fam \in Families /\ writes \in 0 .. MaxWrites /\ fresh \subseteq ProtCodes
    /\ regs \in [ProtCodes -> RegisterValues]
    /\ \A c \in ProtCodes : asked[c] = Unset \/ asked[c] \in NativeEnvelope(UnitOf(c))
    /\ \A c \in ProtCodes : protValues[c] = Unset \/ protValues[c] \in 0 .. ReadSaneMax
    /\ DOMAIN pages \subseteq PageNames
    /\ \A i \in DOMAIN sentFrame.frames : Len(sentFrame.frames[i]) = 6

CodecInit ==
    /\ fam \in Families
    /\ regs = [c \in ProtCodes |-> 0]
    /\ asked = [c \in ProtCodes |-> Unset] /\ protValues = [c \in ProtCodes |-> Unset]
    /\ sentFrame = NoFrame /\ pages = <<>> /\ fresh = {} /\ writes = 0

(* Outside the program: the register an inverter takes from a frame, by    *)
(* the builder's layout.                                                   *)
Register(f, c, fr) ==
    LET w == WriteTable(f)[c]
        from == IF f = "DS3" THEN 5 ELSE IF w.via \in {"yc2", "yc3"} THEN 2 ELSE 4
    IN  BigEndian(IF Width(w.via) = 2 THEN <<fr[from], fr[from + 1]>> ELSE <<fr[from], fr[from + 1], fr[from + 2]>>)

(* The byte a QS1 shows for its mode, after the frames it took: the class  *)
(* above, the mode below; the register of the third is never shown.        *)
ModeByte(old, frames, taken) ==
    (IF 1 \in taken THEN frames[1][4] ELSE 16 * (old \div 16))
  + (IF 2 \in taken THEN frames[2][4] % 16 ELSE old % 16)

(* A DS3 keeps its slope in units of its own: 16.7 was sent as 2733 and    *)
(* shown as 61 (reconcile.go:88, protection_read_test.go:72), up or down.  *)
SlopeRegisters(wire) == LET k == (wire * 50) \div 2223 IN {k, k + 1}

RegistersTaken(f, c, old, frames, taken) ==
    IF WriteTable(f)[c].via = "modes" THEN {ModeByte(old, frames, taken)}
    ELSE IF WriteTable(f)[c].scale = "slope" THEN SlopeRegisters(Register(f, c, frames[1]))
    ELSE {Register(f, c, frames[1])}

(* The frames are sent one by one, and any of them may be lost on the air  *)
(* or not sent because the one before failed.                              *)
WriteParam(c, v, cast) ==
    /\ c \in DOMAIN WriteTable(fam)
    /\ writes' = writes + 1
    /\ \E frames \in EncodeSetProtection(fam, c, v, cast) : \E taken \in SUBSET DOMAIN frames :
          /\ sentFrame' = [frames |-> frames, code |-> c, cast |-> cast]
          /\ \/ taken = {} /\ UNCHANGED <<regs, asked, fresh>>
             \/ /\ taken # {}
                /\ \E r \in RegistersTaken(fam, c, regs[c], frames, taken) : regs' = [regs EXCEPT ![c] = r]
                /\ asked' = [asked EXCEPT ![c] = IF taken = DOMAIN frames THEN v ELSE Unset]
                /\ fresh' = fresh \ {c}
    /\ UNCHANGED <<fam, pages, protValues>>

(* Only page B of a QS1 has a variant.                                     *)
VariantsOf(f, p) == IF f = "QS1" /\ p = "B" THEN Variants ELSE {0}

(* A page reply: the bytes of every field of the page, and the variant of  *)
(* page B.  No two fields of a page share a byte, so they can be kept apart*)
FieldBytes(field, r, variant) == IF field.scale = "nibble" THEN <<r, variant>> ELSE Bytes(r, field.width)
PageReply(f, p, variant) == [c \in InPage(f, p) |-> FieldBytes(ReadTable(f)[c], regs[c], variant)]

Span(f, c) == ReadTable(f)[c].off .. ReadTable(f)[c].off + ReadTable(f)[c].width - 1
ASSUME FieldsApart ==
    /\ \A f \in Families : \A p \in PageNames : \A c, d \in InPage(f, p) :
          c # d => Span(f, c) \cap Span(f, d) = {}
    /\ \A c \in InPage("QS1", "B") : 74 \notin Span("QS1", c)

(* DecodeProtectionReply for one field of the buffered pages.              *)
DecodedField(f, field, bytes) ==
    IF field.scale = "nibble" THEN qsModeFromPageB(bytes)
    ELSE LET v == FromWire(f, field.scale, readBE(bytes)) IN IF v < 0 \/ v > ReadSaneMax THEN Unset ELSE v
Decoded(f, c, buffer) ==
    IF c \notin DOMAIN ReadTable(f) THEN Unset
    ELSE LET field == ReadTable(f)[c]
         IN  IF field.page \in DOMAIN buffer THEN DecodedField(f, field, buffer[field.page][c]) ELSE Unset

(* handleProtectionPage and cacheProtectionValues: the page joins the      *)
(* buffer, everything buffered is decoded again, and what decodes is merged*)
(* into the published set.                                                 *)
HandleProtectionPage(p, variant) ==
    /\ InPage(fam, p) # {}
    /\ pages' = [q \in DOMAIN pages \cup {p} |-> IF q = p THEN PageReply(fam, p, variant) ELSE pages[q]]
    /\ protValues' = [c \in ProtCodes |-> LET v == Decoded(fam, c, pages') IN IF v = Unset THEN protValues[c] ELSE v]
    /\ fresh' = fresh \cup InPage(fam, p)
    /\ UNCHANGED <<fam, regs, asked, sentFrame, writes>>

CodecNext ==
    \/ /\ writes < MaxWrites
       /\ \E c \in ProtCodes, cast \in BOOLEAN : \E v \in Samples[UnitOf(c)] : WriteParam(c, v, cast)
    \/ \E p \in PageNames : \E variant \in VariantsOf(fam, p) : HandleProtectionPage(p, variant)

CodecSpec == CodecInit /\ [][CodecNext]_codecVars

-----------------------------------------------------------------------------
(* codeTolerance of the reconciler, and the drift the cap check tolerates. *)
CodeTolerance(c) ==
    CASE c \in {"AH", "AI", "CG", "CV"} -> 10 [] UnitOf(c) = "V" -> 50 [] UnitOf(c) = "W" -> 200
      [] c = "DD" -> 20 [] OTHER -> 6

(* What the resolution of the register cannot give back: volts are read as *)
(* whole volts, AB of a DS3 is read rounded down (ds3.go:154), two bytes   *)
(* are read signed, and slopes and modes have promises of their own.       *)
Readable(c) ==
    /\ UnitOf(c) \notin {"slope", "mode"}
    /\ UnitOf(c) = "V" => asked[c] % 100 = 0 /\ ~(fam = "DS3" /\ c = "AB")
    /\ ReadTable(fam)[c].width = 2 => regs[c] < 32768

(* The curve a mode selects, and the number of one that a QS1 keeps.       *)
ModeClass(m) == IF m = 15 THEN 15 ELSE IF m \in {3, 4, 13} THEN 13 ELSE 14
ModeNumber(m) == CASE m = 13 -> 4 [] m = 14 -> 1 [] OTHER -> m

(* What a mode reads back as.  On a DS3 and on a QS1 whose page B is of the*)
(* variant 102, the curve: 13, 14 and 15 as they were written.  On variant *)
(* 0, the number: 3, 4 and 15 as they were written.                        *)
ModeReadsBack(c) ==
    LET m == ModeOf(asked[c])
        variant == IF fam = "DS3" THEN 102 ELSE pages["B"][c][2]
    IN  /\ variant = 102 => protValues[c] = 100 * ModeClass(m)
        /\ variant = 0 /\ m \in {3, 4, 13, 14, 15} => protValues[c] = 100 * ModeNumber(m)

(* A value that was written and taken reads back within the tolerance the  *)
(* reconciler compares with, through whatever scale, frame layout, page    *)
(* and buffer it went: else a profile is never confirmed and the reconciler*)
(* writes it again and again.  It holds of the codes with one linear scale *)
(* or a period.  The others: volts that are not whole are off by at most   *)
(* what rounding costs; AB of a QS1 is written with 1.332 and read with    *)
(* 1.3315 (qs1a.go:66,166-177), which shows at high voltages; a slope of a *)
(* DS3 is off by up to one unit of the inverter, 0.27, more than the 0.20  *)
(* tolerated, if the inverter keeps it as the capture shows; a mode reads  *)
(* as its curve or its number.  CG of a DS3 and CA of a QS1 are written but*)
(* no page has them: nothing is ever published under those codes.          *)
WriteReadsBack ==
    /\ CodecTypeOK
    /\ \A c \in ProtCodes \ DOMAIN ReadTable(fam) : protValues[c] = Unset
    /\ \A c \in fresh : asked[c] # Unset =>
          /\ Readable(c) => /\ protValues[c] # Unset
                            /\ protValues[c] - asked[c] \in -CodeTolerance(c) .. CodeTolerance(c)
          /\ UnitOf(c) = "V" => /\ protValues[c] # Unset
                                /\ protValues[c] - asked[c] \in -126 .. (IF c = "AB" THEN 72 ELSE 50)
          /\ UnitOf(c) = "slope" => protValues[c] # Unset /\ protValues[c] - asked[c] \in -28 .. 27
          /\ UnitOf(c) = "mode" => ModeReadsBack(c)

(* Every protection or power command sent to one inverter is recognised as *)
(* exactly what it is when it is routed (maybeReadAfterWrite), frame by    *)
(* frame, else its read-back is never scheduled; and whatever the encoders *)
(* make passes ecu-zb's list of commands and its broadcast gate            *)
(* (client.go:33-75), which another process keeps and which drops a frame  *)
(* without an answer.                                                      *)
FrameRecognised ==
    \A i \in DOMAIN sentFrame.frames :
        /\ ~sentFrame.cast => /\ IsSetPower(sentFrame.frames[i]) = (sentFrame.code = "DA")
                              /\ IsProtectionWrite(sentFrame.frames[i]) = (sentFrame.code # "DA")
        /\ DispatchFrame(sentFrame.frames[i], sentFrame.cast)
=============================================================================
