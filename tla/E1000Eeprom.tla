----------------------------- MODULE E1000Eeprom -----------------------------
(***************************************************************************)
(* The serial EEPROM behind EECD, which the guest drives bit by bit, and   *)
(* the EERD register that reads it a word at a time.                       *)
(*                                                                         *)
(* The driver is the Microwire protocol: select the chip, clock in the     *)
(* read opcode and the address, clock out a word.  Before it starts,       *)
(* anything may have been written to EECD (firmware, a driver that was     *)
(* reset half way): e1000_reset leaves eecd_state alone.                   *)
(***************************************************************************)
EXTENDS Integers, Sequences, SequencesExt

CONSTANTS
    A,          \* address bits (6)
    WordBits,   \* bits in a word (16)
    W,          \* width of the bit counters (16)
    Template,   \* e1000_eeprom_template: a word for each address
    Mac,        \* the words of the MAC address, at addresses 0..2
    EEPROM_SUM

ASSUME EepromAssumption ==
    /\ A \in Nat \ {0} /\ WordBits \in Nat \ {0}
    /\ W \in Nat /\ 2 ^ W > 3 + A + WordBits /\ 2 ^ W % (2 ^ A * WordBits) = 0

READ_OPCODE == 6
Words == 0..(2 ^ A - 1)
EEPROM_CHECKSUM_REG == 2 ^ A - 1

Plus(a, b) == a + b

(* What pci_e1000_init puts in the EEPROM: the template, the MAC address   *)
(* and the checksum of the words before it.                                *)
eeprom_data ==
    LET data == [i \in Words |-> IF i < 3 THEN Mac[i + 1] ELSE Template[i]]
        sum  == FoldLeft(Plus, 0, [i \in 1..EEPROM_CHECKSUM_REG |-> data[i - 1]])
    IN  [data EXCEPT ![EEPROM_CHECKSUM_REG] = (EEPROM_SUM - sum) % 2 ^ WordBits]

Bit(n, i) == (n \div 2 ^ i) % 2

-----------------------------------------------------------------------------
VARIABLES
    eecd,       \* eecd_state; old_eecd is the set of its 1 bits
    phase,      \* driver: "idle", "select", "command", "data", "done"
    addr,       \* driver: the word it reads
    count,      \* driver: clock edges given in this phase
    word        \* driver: bits read so far, or the word

vars == <<eecd, phase, addr, count, word>>
driver == <<phase, addr, count, word>>

(* The DO bit that get_eecd returns.                                       *)
get_eecd(e) ==
    IF ~e.reading THEN 1
    ELSE Bit(eeprom_data[(e.bitnum_out \div WordBits) % 2 ^ A],
             WordBits - 1 - (e.bitnum_out % WordBits))

(* The rising clock edge of set_eecd.  Of val_in only the bits of an       *)
(* opcode and an address are ever looked at.                               *)
ClockIn(e, di) ==
    LET v == (2 * e.val_in + di) % 2 ^ (3 + A)
        n == (e.bitnum_in + 1) % 2 ^ W
        t == [e EXCEPT !.val_in = v, !.bitnum_in = n]
    IN  IF n = 3 + A /\ ~e.reading
        THEN [t EXCEPT !.bitnum_out = ((v % 2 ^ A) * WordBits - 1) % 2 ^ W,
                       !.reading = (v \div 2 ^ A = READ_OPCODE)]
        ELSE t

(* Mutant: selecting the chip does not start a new command.                *)
Mutant_no_select(e, val) ==
    LET t == [e EXCEPT !.old_eecd = val]
    IN  IF "CS" \notin val \/ ("SK" \in val <=> "SK" \in e.old_eecd) THEN t
        ELSE IF "SK" \notin val THEN [t EXCEPT !.bitnum_out = (@ + 1) % 2 ^ W]
        ELSE ClockIn(t, IF "DI" \in val THEN 1 ELSE 0)

set_eecd(e, val) ==
    LET t == [e EXCEPT !.old_eecd = val]
        r == IF "CS" \notin e.old_eecd
             THEN [t EXCEPT !.val_in = 0, !.bitnum_in = 0, !.bitnum_out = 0, !.reading = FALSE]
             ELSE t
    IN  IF "CS" \notin val THEN t
        ELSE IF "SK" \in val <=> "SK" \in e.old_eecd THEN r
        ELSE IF "SK" \notin val THEN [r EXCEPT !.bitnum_out = (@ + 1) % 2 ^ W]
        ELSE ClockIn(r, IF "DI" \in val THEN 1 ELSE 0)

(* What a guest may have written to EERD, which is kept as it is: the      *)
(* START and DONE bits and the address of a word, one past the last        *)
(* included.  The data bits above the address are not written.             *)
EERD == [start : BOOLEAN, done : BOOLEAN, index : 0..2 ^ A, data : {0}]

(* What a read of EERD returns: itself without START, and with it the word *)
(* asked for, or none past the last, and DONE.                             *)
flash_eerd_read(eerd) ==
    LET r == [eerd EXCEPT !.start = FALSE]
    IN  IF ~eerd.start THEN eerd
        ELSE IF r.index > EEPROM_CHECKSUM_REG THEN [r EXCEPT !.done = TRUE]
        ELSE [r EXCEPT !.done = TRUE, !.data = eeprom_data[r.index]]

Init ==
    /\ eecd = [val_in |-> 0, bitnum_in |-> 0, bitnum_out |-> 0, reading |-> FALSE,
               old_eecd |-> {}]
    /\ phase = "idle" /\ addr = 0 /\ count = 0 /\ word = 0

(* Anything that happens before a driver uses the EEPROM.                  *)
Scribble ==
    /\ phase = "idle"
    /\ \E val \in SUBSET {"CS", "SK", "DI"} : eecd' = set_eecd(eecd, val)
    /\ UNCHANGED driver

(* The driver starts: everything low, then the chip is selected.           *)
Deselect ==
    /\ phase = "idle"
    /\ eecd' = set_eecd(eecd, {})
    /\ phase' = "select" /\ addr' \in Words /\ count' = 0 /\ word' = 0

Select ==
    /\ phase = "select"
    /\ eecd' = set_eecd(eecd, {"CS"})
    /\ phase' = "command" /\ UNCHANGED <<addr, count, word>>

(* The command, most significant bit first: rising and falling edges.      *)
CommandBit == Bit(READ_OPCODE * 2 ^ A + addr, 2 + A - (count \div 2))

ShiftOut ==
    /\ phase = "command"
    /\ LET di == IF CommandBit = 1 THEN {"DI"} ELSE {}
       IN  eecd' = set_eecd(eecd, {"CS"} \cup di \cup IF count % 2 = 0 THEN {"SK"} ELSE {})
    /\ IF count + 1 = 2 * (3 + A) THEN phase' = "data" /\ count' = 0
       ELSE phase' = phase /\ count' = count + 1
    /\ UNCHANGED <<addr, word>>

(* Raise the clock and read DO, then lower it.                             *)
ShiftIn ==
    /\ phase = "data"
    /\ eecd' = set_eecd(eecd, {"CS"} \cup IF count % 2 = 0 THEN {"SK"} ELSE {})
    /\ word' = IF count % 2 = 0 THEN 2 * word + get_eecd(eecd') ELSE word
    /\ IF count + 1 = 2 * WordBits THEN phase' = "done" /\ count' = 0
       ELSE phase' = phase /\ count' = count + 1
    /\ UNCHANGED addr

(* The driver is through, or a reset of the machine ends it anywhere.      *)
Finish == phase = "done" /\ phase' = "idle" /\ addr' = 0 /\ word' = 0 /\ UNCHANGED <<eecd, count>>
Reset  == phase' = "idle" /\ addr' = 0 /\ count' = 0 /\ word' = 0 /\ UNCHANGED eecd

Next == Scribble \/ Deselect \/ Select \/ ShiftOut \/ ShiftIn \/ Finish \/ Reset

Spec == Init /\ [][Next]_vars

-----------------------------------------------------------------------------
(* Whatever happened to the interface before, a driver that selects the    *)
(* chip afresh reads the word it asked for, the first and the last         *)
(* included (e1000.c:498 subtracts 1 from the address of word 0).  A read  *)
(* of EERD gives the same word with DONE if the guest set START, and no    *)
(* data if it did not.                                                     *)
ReadsWord ==
    phase = "done" =>
        /\ word = eeprom_data[addr]
        /\ \A eerd \in EERD : eerd.index = addr =>
               LET val == flash_eerd_read(eerd)
               IN  IF eerd.start THEN val.done /\ val.data = word ELSE val.data = 0
=============================================================================
