---------------------------- MODULE CardRegisters ----------------------------
(***************************************************************************)
(* How the 128-bit registers of a card reach the driver: the controller    *)
(* keeps bits 8 to 127 of the answer, sdhci_cmd_complete moves them back,  *)
(* mmc_sdhci.c unpacks the fields of CID and CSD and works out the         *)
(* capacity and the write protect group.  A word is the set of its bits    *)
(* that are one.                                                           *)
(***************************************************************************)
EXTENDS Integers, FiniteSets, FiniteSetsExt

CONSTANTS Answers,   \* what a card's registers may hold: sets of bits
          SecCounts  \* ext_csd[212..215] of a card above 2 GB: four bytes, each a set of bits

VARIABLES chip,  \* the card in the slot: its kind, its registers, its extended CSD
          resp,  \* the controller's response registers
          read   \* what the driver knows of the card, and which register it asks for next
regVars == <<chip, resp, read>>

Kinds == {"sdV1", "sdV2", "mmc", "mmcHc"}
W == 32
Word == 0..(W - 1)
Shl(w, n) == {b + n : b \in w} \cap Word
Shr(w, n) == {b - n : b \in w} \cap Word
Num(bits) == MapThenSumSet(LAMBDA b : 2^b, bits)

(* The controller drops the CRC; sdhci_cmd_complete puts the rest back. *)
LongResponse(register) == [i \in 0..3 |-> {b \in Word : W * i + 8 + b \in register}]
NoCarryMutant(r) == [i \in 0..3 |-> Shl(r[i], 8)]
ReadResponse(r) == [i \in 0..3 |-> Shl(r[i], 8) \cup (IF i = 0 THEN {} ELSE Shr(r[i - 1], 24))]

(* UNPACK_BITS: a field may lie across two words and may be a whole one. *)
UnpackBits(array, start, len) ==
    LET indx == start \div W
        offset == start % W
        indx2 == (start + len - 1) \div W
        mask == IF len < W THEN 0..(len - 1) ELSE Word
    IN  (Shr(array[indx], offset) \cup (IF indx2 > indx THEN Shl(array[indx2], W - offset) ELSE {})) \cap mask

(* Two tables of fields, the second for what the first does not name.      *)
Joined(f, g) == [x \in DOMAIN f \cup DOMAIN g |-> IF x \in DOMAIN f THEN f[x] ELSE g[x]]

(* Where mmc_decode_and_save_csd and mmc_decode_and_save_cid look. *)
CsdCommon == [structure |-> <<126, 2>>, card_cmd_class |-> <<84, 12>>, perm_wp |-> <<13, 1>>, temp_wp |-> <<12, 1>>, nsac |-> <<104, 8>>, taac_unit |-> <<112, 3>>, taac_value |-> <<115, 4>>]
CsdV1 == [r2w_factor |-> <<26, 3>>, c_size_mult |-> <<47, 3>>, c_size |-> <<62, 12>>, read_blk_len |-> <<80, 4>>, write_blk_len |-> <<22, 4>>, wp_grp_enable |-> <<31, 1>>, misalign |-> <<77, 3>>]
CsdSd == [speed_unit |-> <<96, 3>>, speed_value |-> <<99, 4>>]
CsdFields(layout) ==
    CASE layout = "sdV2" -> Joined([c_size |-> <<48, 22>>], Joined(CsdSd, CsdCommon))
      [] layout = "sdV1" -> Joined([sector_size |-> <<39, 7>>, erase_blk_len |-> <<46, 1>>, wp_grp_size |-> <<32, 7>>], Joined(CsdSd, Joined(CsdV1, CsdCommon)))
      [] OTHER -> Joined([spec_vers |-> <<122, 4>>, erase_grp_size |-> <<42, 5>>, erase_grp_mult |-> <<37, 5>>, wp_grp_size |-> <<32, 5>>], Joined(CsdV1, CsdCommon))
CidFields(kind) ==
    LET sd == kind \in {"sdV1", "sdV2"}
    IN  [mid |-> <<120, 8>>, oid |-> <<104, 16>>,
         pnm |-> [i \in 0..(IF sd THEN 4 ELSE 5) |-> <<104 - 8 * (i + 1), 8>>],
         prv |-> IF sd THEN <<56, 8>> ELSE <<48, 8>>, psn |-> IF sd THEN <<24, 32>> ELSE <<16, 32>>]
Unpacked(raw, at) == UnpackBits(raw, at[1], at[2])

(* On an SD card CSD_STRUCTURE tells the layout: one is version 2.0.       *)
Layout(kind, raw) ==
    IF kind \in {"sdV1", "sdV2"} THEN IF Unpacked(raw, CsdCommon.structure) = {0} THEN "sdV2" ELSE "sdV1"
    ELSE kind
DecodeCsd(layout, raw) == [f \in DOMAIN CsdFields(layout) |-> Unpacked(raw, CsdFields(layout)[f])]
DecodeCid(kind, raw) ==
    LET at == CidFields(kind)
    IN  [mid |-> Unpacked(raw, at.mid), oid |-> Unpacked(raw, at.oid), prv |-> Unpacked(raw, at.prv),
         psn |-> Unpacked(raw, at.psn), pnm |-> [i \in DOMAIN at.pnm |-> Unpacked(raw, at.pnm[i])]]

(***************************************************************************)
(* The capacity, as a number of units of 2^shift bytes.  The four bytes of *)
(* SEC_COUNT are put together as an int: a one in bit 31 spreads over the  *)
(* upper half of the 64 bits.                                              *)
(***************************************************************************)
SecCount(bytes) ==
    LET int == UNION {Shl(bytes[i], 8 * (i - 1)) : i \in 1..4}
    IN  int \cup (IF 31 \in int THEN 32..63 ELSE {})
Blocks(csd) == 2^(Num(csd.c_size_mult) + 2) * (Num(csd.c_size) + 1)
Capacity(layout, csd, bytes) ==
    CASE layout = "sdV2" -> [n |-> {Num(csd.c_size) + 1}, shift |-> 19]
      [] layout = "sdV1" -> [n |-> {Blocks(csd)}, shift |-> IF Num(csd.read_blk_len) \in 9..11 THEN Num(csd.read_blk_len) ELSE 9]
      [] OTHER -> IF csd.c_size # 0..11 THEN [n |-> {Blocks(csd)}, shift |-> Num(csd.read_blk_len)]
                                        ELSE [n |-> SecCount(bytes), shift |-> 9]
WpGroup(csd, ext) ==
    IF ext.grpDef THEN 1024 * ext.hcErase
    ELSE (Num(csd.wp_grp_size) + 1) * (Num(csd.erase_grp_size) + 1) * (Num(csd.erase_grp_mult) + 1)

(***************************************************************************)
(* The registers of the card in the slot; a card above 2 GB has ones all   *)
(* over C_SIZE, an SD card the version of its CSD in CSD_STRUCTURE.  CMD2  *)
(* and CMD9 fetch them; the CSD is only decoded when the extended CSD is   *)
(* there.                                                                  *)
(***************************************************************************)
OwnCsd(kind, bits) ==
    CASE kind = "sdV1" -> bits \ {126, 127} [] kind = "sdV2" -> (bits \ {127}) \cup {126}
      [] kind = "mmcHc" -> bits \cup (62..73) [] OTHER -> bits
Nothing == [i \in 0..3 |-> {}]
RegInit ==
    /\ \E kind \in Kinds, bits \in Answers, bytes \in SecCounts, grpDef \in BOOLEAN, hcErase \in {1, 8} :
          /\ bytes = <<{}, {}, {}, {}>> \/ kind = "mmcHc"
          /\ (~grpDef /\ hcErase = 1) \/ kind \in {"mmc", "mmcHc"}
          /\ chip = [kind |-> kind, cid |-> bits, csd |-> OwnCsd(kind, bits),
                     ext |-> [sec |-> bytes, grpDef |-> grpDef, hcErase |-> hcErase]]
    /\ resp = Nothing
    /\ read = [next |-> "cid", cid |-> <<>>, raw |-> Nothing, csd |-> <<>>, capacity |-> <<>>, wpGroup |-> 0]
AllSendCid ==
    /\ read.next = "cid" /\ resp' = LongResponse(chip.cid)
    /\ read' = [read EXCEPT !.next = "csd", !.cid = DecodeCid(chip.kind, ReadResponse(resp'))]
    /\ UNCHANGED chip
GetCsd ==
    /\ read.next = "csd" /\ resp' = LongResponse(chip.csd)
    /\ read' = [read EXCEPT !.next = "decode", !.raw = ReadResponse(resp')]
    /\ UNCHANGED chip
DecodeAndSaveCsd ==
    /\ read.next = "decode"
    /\ LET layout == Layout(chip.kind, read.raw)
           csd == DecodeCsd(layout, read.raw)
       IN  read' = [read EXCEPT !.next = "done", !.csd = csd, !.capacity = Capacity(layout, csd, chip.ext.sec),
                                !.wpGroup = IF chip.kind \in {"mmc", "mmcHc"} THEN WpGroup(csd, chip.ext) ELSE 0]
    /\ UNCHANGED <<chip, resp>>
RegNext == AllSendCid \/ GetCsd \/ DecodeAndSaveCsd
RegSpec == RegInit /\ [][RegNext]_regVars

----------------------------------------------------------------------------
(* The bits [high:low] of the card's own register, as the standards write it. *)
Bits(register, high, low) == {b - low : b \in register \cap (low..high)}
Card(high, low) == Bits(chip.csd, high, low)
SizeOf(c_size, mult) == 2^(Num(mult) + 2) * (Num(c_size) + 1)

(* What the driver decodes is what the card's registers say, for fields    *)
(* across a word and for one that is a word: the identity, the capacity    *)
(* (below 2^31 sectors, where the sign of SEC_COUNT starts to matter), the *)
(* write protect bits and the write protect group.                         *)
RegistersRead ==
    /\ read.next # "cid" =>
          /\ read.cid.mid = Bits(chip.cid, 127, 120)
          /\ read.cid.psn = IF chip.kind \in {"sdV1", "sdV2"} THEN Bits(chip.cid, 55, 24) ELSE Bits(chip.cid, 47, 16)
          /\ \A i \in DOMAIN read.cid.pnm : read.cid.pnm[i] = Bits(chip.cid, 103 - 8 * i, 96 - 8 * i)
    /\ read.next = "done" =>
          /\ read.csd.perm_wp = Card(13, 13) /\ read.csd.temp_wp = Card(12, 12) /\ read.csd.card_cmd_class = Card(95, 84)
          /\ chip.kind = "sdV2" => read.capacity = [n |-> {Num(Card(69, 48)) + 1}, shift |-> 19]
          /\ chip.kind = "sdV1" => read.capacity.n = {SizeOf(Card(73, 62), Card(49, 47))}
          /\ (chip.kind = "mmc" /\ Card(73, 62) # 0..11) =>
                read.capacity = [n |-> {SizeOf(Card(73, 62), Card(49, 47))}, shift |-> Num(Card(83, 80))]
          /\ (chip.kind = "mmcHc" /\ 7 \notin chip.ext.sec[4]) => read.capacity.n = UNION {{8 * (i - 1) + b : b \in chip.ext.sec[i]} : i \in 1..4}
          /\ (chip.kind \in {"mmc", "mmcHc"} /\ ~chip.ext.grpDef) =>
                read.wpGroup = (Num(Card(36, 32)) + 1) * (Num(Card(46, 42)) + 1) * (Num(Card(41, 37)) + 1)
=============================================================================
