----------------------------- MODULE AdmaTable ------------------------------
(***************************************************************************)
(* The ADMA descriptor table sdhci_prep_desc_table (sdhci.c) builds for a  *)
(* transfer of len bytes at address data.  A descriptor moves at most      *)
(* LineSz bytes, and its 16-bit length field holds 0 for LineSz.           *)
(***************************************************************************)
EXTENDS Integers

CONSTANTS
  LineSz,         \* SDHCI_ADMA_DESC_LINE_SZ, 65536: also what the field wraps at
  MaxLen,         \* bound on the length of a transfer
  Addresses       \* buffer addresses tried

ASSUME LineSzAssumption == LineSz \in Nat \ {0}
ASSUME BoundsAssumption == MaxLen \in Nat /\ Addresses \subseteq Nat

\* The remainder adds an entry; a transfer of one line or less has one anyway.
SgLenMutant(len) == len \div LineSz + 1
SgLen(len) == IF len <= LineSz THEN 1
              ELSE len \div LineSz + (IF len % LineSz # 0 THEN 1 ELSE 0)

\* A full line's length does not fit its field and is written as 0.
Field(n) == IF n < LineSz THEN n ELSE 0

\* The lines before the last are full, the last has what is left and END.
PrepDescTable(data, len) ==
  [i \in 1..SgLen(len) |->
     [addr |-> data + (i - 1) * LineSz,
      len  |-> Field(IF i < SgLen(len) THEN LineSz ELSE len - (SgLen(len) - 1) * LineSz),
      end  |-> i = SgLen(len)]]

\* What the controller moves for a descriptor (SD host specification 3.0).
MovedBy(d) == IF d.len = 0 THEN LineSz ELSE d.len

\* The table covers the buffer from its first byte to its last, line after
\* line with no gap and no overlap, and only the last line ends the walk.
Tiles(data, len) ==
  LET t == PrepDescTable(data, len)
      n == SgLen(len)
  IN /\ t[1].addr = data
     /\ \A i \in 1..n :
          /\ t[i].end <=> i = n
          /\ t[i].addr + MovedBy(t[i]) = IF i = n THEN data + len ELSE t[i + 1].addr

\* Every transfer of at least one byte is described exactly.  (A length of 0
\* would be described as a whole line; no caller in src/ asks for it.)
TableTiles == \A data \in Addresses, len \in 1..MaxLen : Tiles(data, len)
=============================================================================
