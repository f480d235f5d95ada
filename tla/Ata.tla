-------------------------------- MODULE Ata --------------------------------
(***************************************************************************)
(* The disks, as kernel/drivers/ata/ata.c finds and uses them: it writes   *)
(* registers and reads the status in loops that count down.  The drives    *)
(* are not part of the repository.  They answer when they like, or never,  *)
(* and while one is busy or waits for data it hears nothing that is        *)
(* written to the registers of its channel, as the emulator that the       *)
(* Makefile starts has it.  A sector is one value; the 256 words of a      *)
(* transfer are one step, since a drive that has set DRQ waits for them.   *)
(***************************************************************************)
EXTENDS Integers, Sequences

CONSTANTS
  Machines,  \* what there may be at each place: none, disk, atapi, or empty
  Polls,     \* bound of the model: turns of a loop, 100000 and 10000 in the code
  Sectors,   \* the sectors of each disk
  Bits28,    \* 2^28: the LBA that the registers have room for
  Lbas,      \* the sectors that are asked for
  Values     \* the contents of sectors; 0 is what a disk holds at first

\* The drives in the order of detection: the channel (io_base), and master or
\* slave.
Places == <<<<1, 0>>, <<1, 1>>, <<2, 0>>, <<2, 1>>>>
Drive  == {Places[k] : k \in DOMAIN Places}

ASSUME AtaAssumption ==
  /\ Machines \subseteq [Drive -> {"none", "disk", "atapi", "empty"}]
  /\ Polls \in Nat \ {0} /\ Bits28 \in Nat \ {0} /\ Lbas \subseteq Nat
  /\ Sectors \subseteq 0..(Bits28 - 1) /\ 0 \in Values

VARIABLES
  kind,      \* the machine
  unit,      \* of each channel, the drive that its DRIVE register selects
  dev,       \* of each drive: st, the command, its sector, and the data written
  disk,      \* of each drive, what its sectors hold
  drives,    \* drives[0 .. drive_count-1]
  selected,  \* selected_drive
  call,      \* the call that runs: op, pc, place in the table or sector, timeout
  reply,     \* what the last call for a sector returned, until the next begins
  may,       \* history: what a caller may believe of the selected drive's sectors
  gaveup,    \* history: a wait for data has ended although the drive was at work
  deaf,      \* history: a register was written that the drive did not hear
  fault      \* history: a write ended in an error that the driver does not read

drivers == <<drives, selected, call>>
history == <<may, gaveup, deaf, fault>>
vars == <<kind, unit, dev, disk, drivers, reply, history>>

Quiet == [st |-> "idle", cmd |-> "none", lba |-> 0, data |-> {}]

Waiting(op, pc, at, v) == [op |-> op, pc |-> pc, at |-> at, value |-> v, timeout |-> Polls]
NoCall == [op |-> "none", pc |-> "idle", at |-> 0, value |-> 0, timeout |-> 0]

Init ==
  /\ kind \in Machines /\ unit = [c \in {1, 2} |-> 0]
  /\ dev = [d \in Drive |-> Quiet]
  /\ disk = [d \in Drive |-> [l \in Sectors |-> 0]]
  /\ drives = <<>> /\ selected = -1
  /\ call = Waiting("detect", "select", 1, 0)
  /\ reply = {} /\ may = [l \in Sectors |-> Values]
  /\ gaveup = FALSE /\ deaf = FALSE /\ fault = FALSE

-----------------------------------------------------------------------------
\* The drive that the call is about, and the one that answers on its channel.
Target ==
  CASE call.op = "detect" -> Places[call.at]
    [] call.op = "choose" -> drives[call.at + 1]
    [] OTHER -> drives[selected + 1]
Active == <<Target[1], unit[Target[1]]>>

Status(d) ==
  IF kind[d] = "none" THEN {}
  ELSE CASE dev[d].st = "busy"  -> {"BSY"}
         [] dev[d].st = "drq"   -> {"DRDY", "DRQ"}
         [] dev[d].st = "error" -> {"DRDY", "ERR"}
         [] OTHER -> IF kind[d] = "empty" THEN {"DSC"} ELSE {"DRDY", "DSC"}

Hears == dev[Active].st \in {"idle", "error"}

\* Mutant of SelectUnit: a fifth bit of the LBA goes into the register, where
\* it is the slave's.
SelectSpill ==
  /\ unit' = IF Hears
               THEN [unit EXCEPT ![Target[1]] =
                       IF call.op \in {"read", "write"} /\ call.at >= Bits28 THEN 1 ELSE Target[2]]
               ELSE unit
  /\ deaf' = (deaf \/ ~ Hears)

\* The DRIVE register, with 400 ns behind it.
SelectUnit ==
  /\ unit' = IF Hears THEN [unit EXCEPT ![Target[1]] = Target[2]] ELSE unit
  /\ deaf' = (deaf \/ ~ Hears)

\* The COMMAND register, after those of the sector.
Command(cmd, lba) ==
  /\ dev' = IF Hears /\ kind[Active] # "none"
              THEN [dev EXCEPT ![Active] = [st |-> "busy", cmd |-> cmd,
                                            lba |-> lba % Bits28, data |-> {}]]
              ELSE dev
  /\ deaf' = (deaf \/ ~ Hears)

\* A drive that is at work comes to an end of it.
Answer(d) ==
  /\ dev[d].st = "busy"
  /\ \E end \in {"drq", "error", "idle"} :
       /\ dev' = [dev EXCEPT ![d] = IF end = "drq" THEN [@ EXCEPT !.st = end]
                                   ELSE [Quiet EXCEPT !.st = end]]
       /\ end = "drq" =>
            /\ dev[d].data = {}
            /\ kind[d] = "disk" \/ (kind[d] = "empty" /\ dev[d].cmd = "identify")
            /\ dev[d].cmd = "identify" \/ dev[d].lba \in Sectors
       /\ end = "error" => dev[d].cmd # "identify" \/ kind[d] = "atapi"
       /\ end = "idle" => dev[d].data # {}
       /\ disk' = IF end = "idle"
                    THEN [disk EXCEPT ![d][dev[d].lba] = CHOOSE v \in dev[d].data : TRUE]
                    ELSE disk
       /\ fault' = (fault \/ (end = "error" /\ dev[d].data # {} /\ call.pc = "flush"))
  /\ UNCHANGED <<kind, unit, drives, selected, call, reply, may, gaveup, deaf>>

-----------------------------------------------------------------------------
\* ata_identify is done with the place: ata_detect_drives goes on, and
\* fat32_init chooses the first drive of the table behind the last place.
NextPlace(table) ==
  /\ drives' = table
  /\ call' = IF call.at < Len(Places) THEN Waiting("detect", "select", call.at + 1, 0)
             ELSE IF table = <<>> THEN NoCall
             ELSE Waiting("choose", "select", 0, 0)

\* ata_identify up to the test for an empty channel.
Identify ==
  /\ call.op = "detect" /\ call.pc = "command"
  /\ Command("identify", 0)
  /\ IF Status(Active) = {} THEN NextPlace(drives)
     ELSE call' = [call EXCEPT !.pc = "poll"] /\ UNCHANGED drives
  /\ UNCHANGED <<kind, unit, disk, selected, reply, may, gaveup, fault>>

\* A turn of the loop of ata_identify.  Data that comes with the last poll is
\* not read; otherwise it is, and the drive enters the table.
IdentifyPoll ==
  /\ call.pc = "poll"
  /\ \/ /\ call.timeout > 0 /\ Status(Active) \cap {"ERR", "DRQ"} = {}
        /\ call' = [call EXCEPT !.timeout = @ - 1]
        /\ UNCHANGED <<dev, drives, gaveup>>
     \/ /\ call.timeout > 0 /\ "ERR" \in Status(Active)
        /\ NextPlace(drives)
        /\ UNCHANGED <<dev, gaveup>>
     \/ /\ call.timeout = 0 \/ (call.timeout = 1 /\ "DRQ" \in Status(Active))
        /\ NextPlace(drives)
        /\ gaveup' = (gaveup \/ ~ Hears)
        /\ UNCHANGED dev
     \/ /\ call.timeout > 1 /\ "DRQ" \in Status(Active)
        /\ dev' = [dev EXCEPT ![Active] = Quiet]
        /\ NextPlace(Append(drives, Target))
        /\ UNCHANGED gaveup
  /\ UNCHANGED <<kind, unit, disk, selected, reply, may, deaf, fault>>

\* The choice of a drive, in all three kinds of call.
Select ==
  /\ call.pc = "select"
  /\ SelectUnit
  /\ call' = [call EXCEPT !.pc = IF call.op = "choose" THEN "bsy" ELSE "command"]
  /\ UNCHANGED <<kind, dev, disk, drives, selected, reply, may, gaveup, fault>>

\* A call for a sector returns.
Return(op, lba, v, ok) ==
  /\ call' = NoCall
  /\ reply' = {[op |-> op, lba |-> lba % Bits28, value |-> v, ok |-> ok]}
  /\ may' = [l \in Sectors |->
               IF l # lba % Bits28 THEN may[l]
               ELSE IF ok THEN {v} ELSE IF op = "write" THEN may[l] \cup {v} ELSE may[l]]

\* ata_read_sector and ata_write_sector, up to ata_wait_bsy.
Ask(op, lba, v) ==
  /\ call.pc = "idle"
  /\ IF selected < 0 THEN Return(op, lba, v, FALSE)
     ELSE call' = Waiting(op, "bsy", lba, v) /\ reply' = {} /\ UNCHANGED may
  /\ UNCHANGED <<kind, unit, dev, disk, drives, selected, gaveup, deaf, fault>>

\* Mutant of WaitMore: the countdown is tested for being over one turn too late.
WaitMoreOnce ==
  /\ call.pc \in {"bsy", "drq", "flush"} /\ call.timeout >= 0
  /\ IF call.pc = "drq" THEN "DRQ" \notin Status(Active) ELSE "BSY" \in Status(Active)
  /\ call' = [call EXCEPT !.timeout = @ - 1]
  /\ UNCHANGED <<kind, unit, dev, disk, drives, selected, reply, history>>

\* Mutant of WaitMore: no countdown.
WaitMoreForever ==
  /\ call.pc \in {"bsy", "drq", "flush"} /\ call.timeout > 0
  /\ IF call.pc = "drq" THEN "DRQ" \notin Status(Active) ELSE "BSY" \in Status(Active)
  /\ UNCHANGED vars

\* A turn of the loop of ata_wait_bsy or ata_wait_drq that is not the last.
WaitMore ==
  /\ call.pc \in {"bsy", "drq", "flush"} /\ call.timeout > 0
  /\ IF call.pc = "drq" THEN "DRQ" \notin Status(Active) ELSE "BSY" \in Status(Active)
  /\ call' = [call EXCEPT !.timeout = @ - 1]
  /\ UNCHANGED <<kind, unit, dev, disk, drives, selected, reply, history>>

\* The loop has counted down to 0: -1, also when the last poll saw the answer.
WaitEnds ==
  /\ call.pc \in {"bsy", "drq", "flush"} /\ call.timeout = 0
  /\ IF call.op = "choose" THEN call' = NoCall /\ UNCHANGED <<reply, may>>
     ELSE Return(call.op, call.at, call.value, FALSE)
  /\ gaveup' = (gaveup \/ (call.pc = "drq" /\ ~ Hears))
  /\ UNCHANGED <<kind, unit, dev, disk, drives, selected, deaf, fault>>

\* Mutant of Choose: DRDY is not asked for.
ChooseAny ==
  /\ call.op = "choose" /\ call.pc = "bsy" /\ call.timeout > 0
  /\ "BSY" \notin Status(Active)
  /\ selected' = call.at
  /\ call' = NoCall
  /\ UNCHANGED <<kind, unit, dev, disk, drives, reply, history>>

\* ata_select_drive goes on when the drive is not busy: it wants DRDY.
Choose ==
  /\ call.op = "choose" /\ call.pc = "bsy" /\ call.timeout > 0
  /\ "BSY" \notin Status(Active)
  /\ selected' = IF "DRDY" \in Status(Active) THEN call.at ELSE selected
  /\ call' = NoCall
  /\ UNCHANGED <<kind, unit, dev, disk, drives, reply, history>>

\* Mutant of Free: the call does not begin with ata_wait_bsy.
FreeAtOnce ==
  /\ call.op # "choose" /\ call.pc = "bsy" /\ call.timeout > 0
  /\ call' = [call EXCEPT !.pc = "select"]
  /\ UNCHANGED <<kind, unit, dev, disk, drives, selected, reply, history>>

\* The drive is not busy: the registers can be written.
Free ==
  /\ call.op # "choose" /\ call.pc = "bsy" /\ call.timeout > 0
  /\ "BSY" \notin Status(Active)
  /\ call' = [call EXCEPT !.pc = "select"]
  /\ UNCHANGED <<kind, unit, dev, disk, drives, selected, reply, history>>

\* Mutant of Issue: 24 bits of the LBA, none in the DRIVE register.
IssueShort ==
  /\ call.op \in {"read", "write"} /\ call.pc = "command"
  /\ Command(call.op, call.at % (Bits28 \div 2))
  /\ call' = [call EXCEPT !.pc = "drq", !.timeout = Polls]
  /\ UNCHANGED <<kind, unit, disk, drives, selected, reply, may, gaveup, fault>>

\* The sector's registers, and the command.
Issue ==
  /\ call.op \in {"read", "write"} /\ call.pc = "command"
  /\ Command(call.op, call.at)
  /\ call' = [call EXCEPT !.pc = "drq", !.timeout = Polls]
  /\ UNCHANGED <<kind, unit, disk, drives, selected, reply, may, gaveup, fault>>

\* 256 words from the DATA port: those of the command that the drive works at.
\* A drive that waits to be written gives nothing of its own.
ReadData ==
  /\ call.op = "read" /\ call.pc = "drq" /\ call.timeout > 0
  /\ "DRQ" \in Status(Active)
  /\ \E v \in Values :
       /\ dev[Active].cmd = "read" => v = disk[Active][dev[Active].lba]
       /\ Return("read", call.at, v, TRUE)
  /\ dev' = IF dev[Active].cmd = "write" THEN dev ELSE [dev EXCEPT ![Active] = Quiet]
  /\ UNCHANGED <<kind, unit, disk, drives, selected, gaveup, deaf, fault>>

\* 256 words to the DATA port, then ata_wait_bsy again.
WriteData ==
  /\ call.op = "write" /\ call.pc = "drq" /\ call.timeout > 0
  /\ "DRQ" \in Status(Active)
  /\ dev' = IF dev[Active].cmd # "write" THEN dev
            ELSE [dev EXCEPT ![Active].st = "busy", ![Active].data = {call.value}]
  /\ call' = [call EXCEPT !.pc = "flush", !.timeout = Polls]
  /\ UNCHANGED <<kind, unit, disk, drives, selected, reply, history>>

\* The drive is no longer busy: the write has succeeded, whatever ERR says.
Written ==
  /\ call.pc = "flush" /\ call.timeout > 0
  /\ "BSY" \notin Status(Active)
  /\ Return("write", call.at, call.value, TRUE)
  /\ UNCHANGED <<kind, unit, dev, disk, drives, selected, gaveup, deaf, fault>>

Driver ==
  \/ Select \/ Identify \/ IdentifyPoll \/ Choose
  \/ Free \/ Issue \/ WaitMore \/ WaitEnds
  \/ ReadData \/ WriteData \/ Written

Next ==
  \/ Driver
  \/ \E d \in Drive : Answer(d)
  \/ \E lba \in Lbas : Ask("read", lba, 0) \/ \E v \in Values : Ask("write", lba, v)

\* The CPU goes on; a drive may never answer, and nobody has to ask.
Spec == Init /\ [][Next]_vars /\ WF_vars(Driver)
-----------------------------------------------------------------------------
TypeOK ==
  /\ kind \in Machines /\ unit \in [{1, 2} -> {0, 1}]
  /\ \A d \in Drive :
       /\ dev[d].st \in {"idle", "busy", "drq", "error"} /\ dev[d].lba \in 0..(Bits28 - 1)
       /\ dev[d].st \in {"busy", "drq"} => kind[d] # "none"
       /\ dev[d].data # {} => dev[d].cmd = "write" /\ dev[d].lba \in Sectors
  /\ disk \in [Drive -> [Sectors -> Values]]
  /\ Len(drives) <= Len(Places) /\ \A k \in DOMAIN drives : drives[k] \in Drive
  /\ selected \in -1..(Len(drives) - 1)
  /\ call.timeout \in 0..Polls /\ call.value \in Values
  /\ may \in [Sectors -> SUBSET Values]

(***************************************************************************)
(* ata.h says that a drive that is busy takes no more commands.  The       *)
(* driver writes to registers that are not heard only when it has given up *)
(* waiting for data before, while the drive was still at work.             *)
(***************************************************************************)
CommandsAreHeard == deaf => gaveup

\* The drives among the first k places that answer IDENTIFY with data.
Listed[k \in 0..Len(Places)] ==
  IF k = 0 THEN <<>>
  ELSE IF kind[Places[k]] \in {"disk", "empty"} THEN Append(Listed[k - 1], Places[k])
  ELSE Listed[k - 1]

(***************************************************************************)
(* Unless a drive was too slow for it, the table lists every disk, those   *)
(* without a medium too, in the order of the places, and the disk that is  *)
(* chosen is the first, if it is ready.                                    *)
(***************************************************************************)
DisksAreListed ==
  call.op # "detect" /\ ~ gaveup =>
    /\ drives = Listed[Len(Places)]
    /\ selected >= 0 => selected = 0 /\ kind[drives[1]] = "disk"

(***************************************************************************)
(* Whatever the drives do, also when the driver has lost step with one of  *)
(* them, only the drive that is selected is ever written to.               *)
(***************************************************************************)
WritesStayOnDrive ==
  [][\A d \in Drive : disk'[d] # disk[d] => selected >= 0 /\ d = drives[selected + 1]]_vars

Store == INSTANCE SectorStore

(***************************************************************************)
(* A sector that is read with success holds what was written there last,   *)
(* also after other calls have failed or run out of time: as long as no    *)
(* command met a drive that did not hear it (see CommandsAreHeard), and no *)
(* write ended in an error, which ata_write_sector does not look at.       *)
(***************************************************************************)
ImplementsSectorStore ==
  [][~ deaf' /\ ~ fault' => Store!Next]_<<reply, may>>

(***************************************************************************)
(* Every call returns, also with a drive that never answers.               *)
(***************************************************************************)
CallsReturn == (call.pc # "idle") ~> (call.pc = "idle")
=============================================================================
