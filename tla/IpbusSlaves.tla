----------------------------- MODULE IpbusSlaves -----------------------------
(***************************************************************************)
(* The IPbus slaves of axi_dma_prj1 (slaves.vhd) as a device: which slave  *)
(* answers an address, what it shows there and what a write does to it.    *)
(* The contents of all slaves are one function from the cells that store a *)
(* word to words; a cell is named by the first address that reaches it.    *)
(* Words have WORD_BITS bits instead of 32, the RAM RAM_WORDS words        *)
(* instead of 4096; the address map is the real one.                       *)
(***************************************************************************)
EXTENDS Integers, FiniteSets

CONSTANTS
  WORD_BITS,  \* width of a word
  RAM_WORDS,  \* words in the RAM
  FIXED,      \* the status word of the control register (abcdfedc)
  Taps        \* Taps[s]: bits of poly within width, for the LFSRs s = 2, 3

Word == 0..2^WORD_BITS - 1
RAM == 4096

ASSUME WordAssumption ==
  /\ WORD_BITS \in Nat \ {0} /\ FIXED \in Word
  /\ 2^WORD_BITS \in Nat \ {0, 1}   \* arithmetic, for the provers
ASSUME RamAssumption == RAM_WORDS \in 1..4096
ASSUME TapsAssumption == Taps \in [{2, 3} -> SUBSET (0..WORD_BITS - 1)]

Slots == 0..4
NoSlot == 99
Lfsrs == {2, 3}
\* Slaves that register their data and their acknowledge; an LFSR answers at once.
Registered == {0, 1, 4}

\* ipbus_addr_sel: the slave of a word address.
Sel(a) == IF (a \div RAM) % 2 = 1 THEN 4
          ELSE CASE a % 16 \in 0..1 -> 0
                 [] a % 16 \in 2..3 -> 1
                 [] a % 16 \in 4..7 -> 2
                 [] a % 16 \in 8..11 -> 3
                 [] OTHER -> NoSlot

Base(s) == 4 * (s - 1)      \* first address of an LFSR
Cells == {0, 2} \cup {Base(s) + i : s \in Lfsrs, i \in 0..2}
           \cup {RAM + i : i \in 0..RAM_WORDS - 1}

\* Contents after the reset line: registers 0, shift registers 1.
Cleared(ram) ==
  [c \in Cells |-> IF c >= RAM THEN ram[c]
                   ELSE IF c \in {Base(s) + 2 : s \in Lfsrs} THEN 1 ELSE 0]

\* What slave s shows while the bus carries address a.
SlotData(dev, s, a) ==
  CASE s = 0 -> IF a % 2 = 0 THEN dev[0] ELSE FIXED
    [] s = 1 -> dev[2]
    [] s \in Lfsrs -> IF a % 4 = 3 THEN 0 ELSE dev[Base(s) + (a % 4)]
    [] s = 4 -> dev[RAM + (a % RAM_WORDS)]

Bit(v, i) == (v \div 2^i) % 2

\* One shift of LFSR s: the XOR of the tapped bits enters at the right.
FaultyShifted(s, v) ==
  2 * v + (Cardinality({i \in Taps[s] : Bit(v, i) = 1}) % 2)
Shifted(s, v) ==
  (2 * v + (Cardinality({i \in Taps[s] : Bit(v, i) = 1}) % 2)) % 2^WORD_BITS

\* One clock with a write of d strobed at address a.
Written(dev, a, d) ==
  LET s == Sel(a) IN
  CASE s = 0 -> [dev EXCEPT ![0] = d]
    [] s = 1 -> [dev EXCEPT ![2] = d]
    [] s \in Lfsrs /\ a % 4 = 0 -> [dev EXCEPT ![Base(s)] = d, ![Base(s) + 2] = d]
    [] s \in Lfsrs /\ a % 4 = 1 ->
         [dev EXCEPT ![Base(s) + 1] = d, ![Base(s) + 2] = Shifted(s, @)]
    [] s = 4 -> [dev EXCEPT ![RAM + (a % RAM_WORDS)] = d]
    [] OTHER -> dev

\* What a read of address a returns when nothing else happens.
Peek(dev, a) == IF Sel(a) = NoSlot THEN 0 ELSE SlotData(dev, Sel(a), a)
=============================================================================
