---------------------------- MODULE PayloadEeprom ----------------------------
(***************************************************************************)
(* The descriptor of a payload: generated, validated and programmed by     *)
(* sdk/tools/eeprom_validator.py, read by sdk/payload_interface/           *)
(* payload_protocol.py.  Of the 64 bytes the model keeps the first byte of *)
(* the magic, the first and the twelfth of the payload id, and the four    *)
(* of the two power ratings.  The chip writes a page whole or not at all;  *)
(* programming may be cut short between two pages.                         *)
(***************************************************************************)
EXTENDS Integers

CONSTANTS Descriptors   \* what is asked for: [magic, id, power_5v_ma, power_12v_ma]

TwoBytes == 0..65535

ASSUME DescriptorsAssumption ==
    \A d \in Descriptors : d.power_5v_ma \in TwoBytes /\ d.power_12v_ma \in TwoBytes

MAX_5V_MA == 3000
MAX_12V_MA == 3000
MAX_POWER_MW == 50000

VARIABLES
    file,      \* the binary file; blank: there is none
    chip,      \* the bytes on the EEPROM
    page,      \* cmd_program: the page to be written next; none when it does not run
    exitCode,  \* of the last run of cmd_program, until something else happens
    found      \* PayloadInterface.descriptor; without a magic: there is none

eepromVars == <<file, chip, page, exitCode, found>>

Missing == -1

-----------------------------------------------------------------------------
(* The layout.                                                             *)

Offsets == {0, 5, 16, 53, 54, 55, 56}

\* to_bytes: the ratings are big-endian.
ToBytes(d) ==
    [o \in Offsets |->
        CASE o = 0 -> d.magic
          [] o \in {5, 16} -> d.id
          [] o = 53 -> d.power_5v_ma \div 256
          [] o = 54 -> d.power_5v_ma % 256
          [] o = 55 -> d.power_12v_ma \div 256
          [] o = 56 -> d.power_12v_ma % 256]

FromBytes(b) ==
    [magic |-> b[0],
     id |-> IF b[5] = b[16] THEN b[5] ELSE "mixed",
     power_5v_ma |-> 256 * b[53] + b[54],
     power_12v_ma |-> 256 * b[55] + b[56]]

\* Mutant: eight bytes to a page.
PageOf_Small(o) == o \div 8

PageOf(o) == o \div 16
LastPage == PageOf(63)

Blank == ToBytes([magic |-> "", id |-> "", power_5v_ma |-> 0, power_12v_ma |-> 0])

PowerAllowed(d) ==
    /\ d.power_5v_ma <= MAX_5V_MA /\ d.power_12v_ma <= MAX_12V_MA
    /\ 5 * d.power_5v_ma + 12 * d.power_12v_ma <= MAX_POWER_MW

\* validate_descriptor finds no error.
ValidDescriptor(d) == d.magic = "PBC4" /\ d.id # "" /\ PowerAllowed(d)

EepromInit ==
    /\ file = Blank /\ chip = Blank /\ page = Missing
    /\ exitCode = Missing /\ found = FromBytes(Blank)

-----------------------------------------------------------------------------
(* The tool.                                                               *)

\* cmd_generate; a file of other origin need not be valid.
WriteFile(d) ==
    /\ page = Missing /\ file' = ToBytes(d) /\ exitCode' = Missing
    /\ UNCHANGED <<chip, page, found>>

StartProgram ==
    /\ page = Missing
    /\ IF ValidDescriptor(FromBytes(file))
       THEN page' = 0 /\ exitCode' = Missing
       ELSE exitCode' = 1 /\ UNCHANGED page
    /\ UNCHANGED <<file, chip, found>>

\* A protected chip acknowledges a page and does not write it.
ProgramPage ==
    /\ page \in 0..LastPage
    /\ chip' \in {chip, [o \in Offsets |-> IF PageOf(o) = page THEN file[o] ELSE chip[o]]}
    /\ page' = page + 1
    /\ UNCHANGED <<file, exitCode, found>>

Verify ==
    /\ page = LastPage + 1 /\ page' = Missing
    /\ exitCode' = IF chip = file THEN 0 ELSE 1
    /\ UNCHANGED <<file, chip, found>>

\* The power, the bus or the operator ends the run.
ProgramCutShort ==
    /\ page # Missing /\ page' = Missing
    /\ UNCHANGED <<file, chip, exitCode, found>>

-----------------------------------------------------------------------------
(* The robot's side.                                                       *)

\* discover: from_eeprom looks at the magic and the version only; an I2C error leaves
\* the descriptor that was found before.
Discover ==
    /\ found' = IF chip[0] = "PBC4" THEN FromBytes(chip) ELSE FromBytes(Blank)
    /\ UNCHANGED <<file, chip, page, exitCode>>

\* Another payload is plugged in, new or programmed by the tool.
Swap(d) ==
    /\ page = Missing
    /\ chip' \in {Blank} \cup {ToBytes(e) : e \in {d} \cap {x \in Descriptors : ValidDescriptor(x)}}
    /\ exitCode' = Missing
    /\ UNCHANGED <<file, page, found>>

EepromNext ==
    \/ \E d \in Descriptors : WriteFile(d) \/ Swap(d)
    \/ StartProgram \/ ProgramPage \/ Verify \/ ProgramCutShort
    \/ Discover

EepromSpec == EepromInit /\ [][EepromNext]_eepromVars

-----------------------------------------------------------------------------
(* Properties.                                                             *)

\* Whatever was cut short or written over, also when the descriptor that is read is a
\* mixture of two, its power rating is one that passes the validation: both ratings
\* lie in one page.
RatedWhole == found.magic # "" => PowerAllowed(found)

\* A program that reports success leaves the file on the chip.
ProgramTells == exitCode = 0 => chip = file

\* What the robot reads asks for no more power than was validated, and a success is one.
DescriptorSafe == RatedWhole /\ ProgramTells

=============================================================================
