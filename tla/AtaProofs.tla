----------------------------- MODULE AtaProofs -----------------------------
(***************************************************************************)
(* Proofs about Ata for every number of polls, every size of disk and      *)
(* every machine: IInv is an inductive invariant, and what the driver      *)
(* promises follows from it, whenever and whatever the drives answer.      *)
(***************************************************************************)
EXTENDS Ata, TLAPS

Devices ==
  [st : {"idle", "busy", "drq", "error"}, cmd : {"none", "identify", "read", "write"},
   lba : 0..(Bits28 - 1), data : {{}} \cup {{v} : v \in Values}]

CallRecords ==
  [op : {"none", "detect", "choose", "read", "write"},
   pc : {"idle", "select", "command", "poll", "bsy", "drq", "flush"},
   at : Nat, value : Values, timeout : 0..Polls]

Types ==
  /\ kind \in Machines /\ unit \in [{1, 2} -> {0, 1}]
  /\ dev \in [Drive -> Devices]
  /\ disk \in [Drive -> [Sectors -> Values]]
  /\ drives \in Seq(Drive) /\ Len(drives) <= 4
  /\ selected \in -1..(Len(drives) - 1)
  /\ call \in CallRecords
  /\ may \in [Sectors -> SUBSET Values]
  /\ gaveup \in BOOLEAN /\ deaf \in BOOLEAN /\ fault \in BOOLEAN

\* Where a call may be.  Detection and the choice come before every call for
\* a sector that reaches a drive.
CallShape ==
  /\ call.op = "none" <=> call.pc = "idle"
  /\ call.op = "detect" => /\ call.pc \in {"select", "command", "poll"}
                           /\ call.at \in 1..4 /\ Len(drives) < call.at /\ selected = -1
  /\ call.op = "choose" => /\ call.pc \in {"select", "bsy"}
                           /\ call.at = 0 /\ Len(drives) > 0 /\ selected = -1
  /\ call.op \in {"read", "write"} =>
       call.pc \in {"bsy", "select", "command", "drq", "flush"} /\ selected >= 0
  /\ call.pc = "flush" => call.op = "write"

\* What the state of a drive says of its command.
DeviceShape ==
  \A d \in Drive :
    /\ dev[d].st \in {"idle", "error"} => dev[d].cmd = "none" /\ dev[d].data = {}
    /\ dev[d].st \in {"busy", "drq"} => kind[d] # "none"
    /\ dev[d].st = "drq" => dev[d].data = {}
    /\ dev[d].data # {} => dev[d].cmd = "write" /\ dev[d].lba \in Sectors
    /\ dev[d].st = "drq" /\ dev[d].cmd \in {"read", "write"} => dev[d].lba \in Sectors

Sector == call.op \in {"read", "write"}

\* A write is never sent to another drive than the selected one, not even by
\* a driver that has lost step: when the DRIVE register was not heard, the
\* drive that did not hear it does not hear the command either.
Ours(d) == selected >= 0 /\ d = drives[selected + 1] /\ unit[d[1]] = d[2]
WritesAreOurs ==
  /\ \A d \in Drive : dev[d].cmd = "write" => Ours(d)
  /\ Sector /\ call.pc = "select" => dev[Active].st # "busy"
  /\ Sector /\ call.pc = "command" =>
       unit[Target[1]] = Target[2] \/ dev[Active].st = "drq"

\* In step: a drive is at work, or has data, only for the call that waits for
\* it, or on the end of a write whose call may have gone.
InStep ==
  \/ gaveup
  \/ /\ ~ deaf
     /\ \A d \in Drive : dev[d].st \in {"busy", "drq"} /\ dev[d].data = {} =>
          call.pc \in {"poll", "drq"} /\ d = Active
     /\ call.pc = "drq" /\ dev[Active].st \in {"busy", "drq"} => dev[Active].cmd = call.op
     /\ Sector /\ call.pc = "command" => Hears

Here == call.at % Bits28

\* What is on the selected drive, or is on its way there, is what the caller
\* may believe, or what the running write will answer for.
Pending(l, v) == call.pc = "flush" /\ l = Here /\ v = call.value
Believed(S) ==
  /\ call.pc \in {"command", "drq", "flush"} => unit[S[1]] = S[2]
  /\ call.pc = "drq" =>
       /\ dev[S].data = {}
       /\ dev[S].st \in {"busy", "drq"} => dev[S].cmd = call.op /\ dev[S].lba = Here
  /\ call.pc = "flush" =>
       /\ Here \in Sectors
       /\ \/ dev[S].st = "busy" /\ dev[S].data = {call.value} /\ dev[S].lba = Here
          \/ dev[S].st = "idle" /\ disk[S][Here] = call.value
  /\ \A l \in Sectors : disk[S][l] \in may[l] \/ Pending(l, disk[S][l])
  /\ \A v \in dev[S].data : v \in may[dev[S].lba] \/ Pending(dev[S].lba, v)

StoreHolds ==
  /\ selected < 0 => \A l \in Sectors : may[l] = Values
  /\ selected >= 0 /\ ~ deaf /\ ~ fault => Believed(drives[selected + 1])

IInv == Types /\ CallShape /\ DeviceShape /\ WritesAreOurs /\ InStep /\ StoreHolds

-----------------------------------------------------------------------------
LEMMA DrivePlaces ==
  /\ Len(Places) = 4 /\ DOMAIN Places = 1..4
  /\ \A k \in 1..4 : Places[k] \in Drive
  /\ \A d \in Drive : d[1] \in {1, 2} /\ d[2] \in {0, 1} /\ d = <<d[1], d[2]>>
  /\ \A c \in {1, 2}, u \in {0, 1} : <<c, u>> \in Drive
<1>1. Len(Places) = 4 /\ DOMAIN Places = 1..4
  BY DEF Places
<1>2. Drive = {<<1, 0>>, <<1, 1>>, <<2, 0>>, <<2, 1>>}
  <2>1. 1..4 = {1, 2, 3, 4}
    OBVIOUS
  <2> QED
    BY <1>1, <2>1 DEF Drive, Places
<1>3. \A k \in 1..4 : Places[k] \in Drive
  BY <1>1 DEF Drive
<1> QED
  BY <1>1, <1>2, <1>3

(***************************************************************************)
(* A running call is about a drive, and a drive answers it.                *)
(***************************************************************************)
LEMMA TargetIsDrive ==
  ASSUME Types, CallShape, call.op # "none"
  PROVE  /\ Target \in Drive /\ Active \in Drive
         /\ Target[1] \in {1, 2} /\ Target[2] \in {0, 1}
         /\ unit[Target[1]] = Target[2] => Active = Target
         /\ Active[1] = Target[1]
         /\ Active[2] = unit[Target[1]]
<1>1. Target \in Drive
  <2>1. call.op \in {"detect", "choose", "read", "write"}
    BY DEF Types, CallRecords
  <2>2. CASE call.op = "detect"
    BY <2>2, DrivePlaces DEF CallShape, Target
  <2>3. CASE call.op = "choose"
    BY <2>3 DEF CallShape, Target, Types
  <2>4. CASE call.op \in {"read", "write"}
    BY <2>4 DEF CallShape, Target, Types
  <2> QED
    BY <2>1, <2>2, <2>3, <2>4
<1>2. Target[1] \in {1, 2} /\ Target[2] \in {0, 1} /\ Target = <<Target[1], Target[2]>>
  BY <1>1, DrivePlaces
<1>3. unit[Target[1]] \in {0, 1}
  BY <1>2 DEF Types
<1> QED
  BY <1>1, <1>2, <1>3, DrivePlaces DEF Active

LEMMA InitIInv == Init => IInv
<1> SUFFICES ASSUME Init PROVE IInv
  OBVIOUS
<1>1. Types
  <2>1. Quiet \in Devices
    BY AtaAssumption DEF Quiet, Devices
  <2>2. call \in CallRecords
    BY AtaAssumption DEF Init, Waiting, CallRecords
  <2>3. drives \in Seq(Drive) /\ Len(drives) = 0
    BY DEF Init
  <2>4. /\ kind \in Machines /\ unit \in [{1, 2} -> {0, 1}] /\ dev \in [Drive -> Devices]
        /\ may \in [Sectors -> SUBSET Values] /\ selected = -1
    BY <2>1 DEF Init
  <2>5. disk \in [Drive -> [Sectors -> Values]]
    BY AtaAssumption DEF Init
  <2>6. gaveup \in BOOLEAN /\ deaf \in BOOLEAN /\ fault \in BOOLEAN
    BY DEF Init
  <2> QED
    BY <2>2, <2>3, <2>4, <2>5, <2>6 DEF Types
<1>2. call.op = "detect" /\ call.pc = "select" /\ call.at = 1
  BY DEF Init, Waiting
<1>3. \A d \in Drive : dev[d] = Quiet
  BY DEF Init
<1>4. CallShape
  BY <1>2 DEF Init, CallShape
<1>5. DeviceShape
  BY <1>3 DEF DeviceShape, Quiet
<1>6. WritesAreOurs
  BY <1>2, <1>3 DEF WritesAreOurs, Quiet, Sector
<1>7. InStep
  BY <1>2, <1>3 DEF InStep, Init, Quiet, Sector
<1>8. StoreHolds
  BY DEF StoreHolds, Init
<1> QED
  BY <1>1, <1>4, <1>5, <1>6, <1>7, <1>8 DEF IInv

-----------------------------------------------------------------------------
\* The lemmas of this part are about the operators of Ata, one by one.
LEMMA WaitingIsCall ==
  ASSUME NEW op \in {"detect", "choose", "read", "write"},
         NEW pc \in {"select", "bsy"}, NEW at \in Nat, NEW v \in Values
  PROVE  /\ Waiting(op, pc, at, v) \in CallRecords
         /\ Waiting(op, pc, at, v).op = op /\ Waiting(op, pc, at, v).pc = pc
         /\ Waiting(op, pc, at, v).at = at /\ Waiting(op, pc, at, v).value = v
BY AtaAssumption DEF Waiting, CallRecords

LEMMA CallGoesOn ==
  ASSUME call \in CallRecords,
         NEW pc \in {"idle", "select", "command", "poll", "bsy", "drq", "flush"}
  PROVE  /\ LET c == [call EXCEPT !.pc = pc]
            IN  /\ c \in CallRecords /\ c.op = call.op /\ c.pc = pc
                /\ c.at = call.at /\ c.value = call.value
         /\ LET c == [call EXCEPT !.pc = pc, !.timeout = Polls]
            IN  /\ c \in CallRecords /\ c.op = call.op /\ c.pc = pc
                /\ c.at = call.at /\ c.value = call.value
         /\ call.timeout > 0 =>
              LET c == [call EXCEPT !.timeout = @ - 1]
              IN  /\ c \in CallRecords /\ c.op = call.op /\ c.pc = call.pc
                  /\ c.at = call.at /\ c.value = call.value
<1> DEFINE Same(c, d) == c.op = d.op /\ c.at = d.at /\ c.value = d.value
<1>1. Polls \in Nat
  BY AtaAssumption
<1>2. \A c \in CallRecords : [c EXCEPT !.pc = pc] \in CallRecords
  BY DEF CallRecords
<1>3. \A c \in CallRecords : [c EXCEPT !.pc = pc].pc = pc /\ Same([c EXCEPT !.pc = pc], c)
  BY DEF CallRecords
<1>4. \A c \in CallRecords : \A t \in 0..Polls : [c EXCEPT !.timeout = t] \in CallRecords
  BY DEF CallRecords
<1>5. \A c \in CallRecords : \A t \in 0..Polls :
        [c EXCEPT !.timeout = t].pc = c.pc /\ Same([c EXCEPT !.timeout = t], c)
  BY DEF CallRecords
<1>6. Polls \in 0..Polls /\ (call.timeout > 0 => call.timeout - 1 \in 0..Polls)
  BY <1>1 DEF CallRecords
<1>7. [call EXCEPT !.pc = pc] \in CallRecords
  BY <1>2
<1>8. [call EXCEPT !.pc = pc, !.timeout = Polls] \in CallRecords
  BY <1>4, <1>6, <1>7
<1>9. LET c == [call EXCEPT !.pc = pc, !.timeout = Polls] IN c.pc = pc /\ Same(c, call)
  BY <1>3, <1>5, <1>6, <1>7
<1>10. call.timeout > 0 =>
         LET c == [call EXCEPT !.timeout = @ - 1] IN c \in CallRecords /\ c.pc = call.pc /\ Same(c, call)
  BY <1>4, <1>5, <1>6
<1> QED
  BY <1>3, <1>7, <1>8, <1>9, <1>10

LEMMA NoCallIsCall == NoCall \in CallRecords /\ NoCall.op = "none" /\ NoCall.pc = "idle"
BY AtaAssumption DEF NoCall, CallRecords

LEMMA QuietIsDevice ==
  /\ Quiet \in Devices /\ Quiet.st = "idle" /\ Quiet.cmd = "none" /\ Quiet.data = {}
  /\ \A e \in {"idle", "error"} :
       LET q == [Quiet EXCEPT !.st = e]
       IN  q \in Devices /\ q.st = e /\ q.cmd = "none" /\ q.data = {}
BY AtaAssumption DEF Quiet, Devices

LEMMA SectorNumber ==
  ASSUME NEW l \in Nat
  PROVE  l % Bits28 \in 0..(Bits28 - 1)
<1>1. Bits28 \in Nat /\ Bits28 > 0
  BY AtaAssumption
<1> QED
  BY <1>1

(***************************************************************************)
(* A command is heard by the drive that answers, or changes nothing.       *)
(***************************************************************************)
LEMMA CommandEffect ==
  ASSUME Types, CallShape, DeviceShape, call.op # "none",
         NEW cmd \in {"identify", "read", "write"}, NEW l \in Nat, Command(cmd, l)
  PROVE  /\ dev' \in [Drive -> Devices]
         /\ \A d \in Drive : dev'[d] # dev[d] =>
              /\ d = Active /\ Hears /\ kind[d] # "none"
              /\ dev'[d].st = "busy" /\ dev'[d].cmd = cmd
              /\ dev'[d].lba = l % Bits28 /\ dev'[d].data = {}
         /\ Hears /\ kind[Active] # "none" => dev'[Active].st = "busy"
         /\ deaf' = (deaf \/ ~ Hears)
<1> DEFINE new == [st |-> "busy", cmd |-> cmd, lba |-> l % Bits28, data |-> {}]
<1>1. new \in Devices /\ new.st = "busy" /\ new.cmd = cmd /\ new.lba = l % Bits28 /\ new.data = {}
  BY SectorNumber DEF Devices
<1>2. Active \in Drive
  BY TargetIsDrive
<1>3. dev' = IF Hears /\ kind[Active] # "none" THEN [dev EXCEPT ![Active] = new] ELSE dev
  BY DEF Command
<1> HIDE DEF new
<1> QED
  BY <1>1, <1>2, <1>3 DEF Types, Command

(***************************************************************************)
(* A call for a sector returns: only what is known of that sector changes. *)
(***************************************************************************)
LEMMA ReturnEffect ==
  ASSUME Types, NEW op, NEW l \in Nat, NEW v \in Values, NEW ok \in BOOLEAN,
         Return(op, l, v, ok)
  PROVE  /\ call' = NoCall
         /\ may' \in [Sectors -> SUBSET Values]
         /\ \A s \in Sectors :
              may'[s] = IF s # l % Bits28 THEN may[s]
                        ELSE IF ok THEN {v}
                        ELSE IF op = "write" THEN may[s] \cup {v} ELSE may[s]
BY DEF Types, Return

\* ata_identify and fat32_init go on with the next place.
LEMMA NextPlaceEffect ==
  ASSUME Types, CallShape, call.op = "detect", NEW table \in Seq(Drive),
         Len(table) <= call.at, NextPlace(table)
  PROVE  /\ drives' = table /\ call' \in CallRecords
         /\ \/ /\ call'.op = "detect" /\ call'.pc = "select"
               /\ call'.at = call.at + 1 /\ call.at < 4
            \/ call'.op = "none" /\ call'.pc = "idle"
            \/ call'.op = "choose" /\ call'.pc = "select" /\ call'.at = 0 /\ Len(table) > 0
<1>1. call.at \in 1..4 /\ 0 \in Values
  BY AtaAssumption DEF CallShape
<1>2. CASE call.at < 4
  <2>1. call' = Waiting("detect", "select", call.at + 1, 0)
    BY <1>2, DrivePlaces DEF NextPlace
  <2>2. call.at + 1 \in Nat
    BY <1>1
  <2> QED
    BY <1>1, <1>2, <2>1, <2>2, WaitingIsCall DEF NextPlace
<1>3. CASE call.at = 4 /\ table = <<>>
  <2>1. call' = NoCall
    BY <1>3, DrivePlaces DEF NextPlace
  <2> QED
    BY <2>1, NoCallIsCall DEF NextPlace
<1>4. CASE call.at = 4 /\ table # <<>>
  <2>1. call' = Waiting("choose", "select", 0, 0) /\ 0 \in Nat
    BY <1>4, DrivePlaces DEF NextPlace
  <2>2. Len(table) > 0
    BY <1>4
  <2> QED
    BY <1>1, <2>1, <2>2, WaitingIsCall DEF NextPlace
<1> QED
  BY <1>1, <1>2, <1>3, <1>4

\* What one turn of the loop of ata_identify may do to the table.
LEMMA IdentifyPollEffect ==
  ASSUME Types, CallShape, IdentifyPoll
  PROVE  /\ call.op = "detect" /\ drives' \in Seq(Drive) /\ Len(drives') <= call.at
         /\ call.at \in 1..4 /\ selected = -1
         /\ \/ /\ dev' = dev /\ drives' = drives /\ gaveup' = gaveup
               /\ call' = [call EXCEPT !.timeout = @ - 1] /\ call.timeout > 0
            \/ /\ dev' = dev /\ NextPlace(drives) /\ gaveup' = gaveup
               /\ "ERR" \in Status(Active)
            \/ /\ dev' = dev /\ NextPlace(drives) /\ gaveup' = (gaveup \/ ~ Hears)
            \/ /\ dev' = [dev EXCEPT ![Active] = Quiet] /\ gaveup' = gaveup
               /\ NextPlace(Append(drives, Target))
<1>1. call.op = "detect" /\ call.pc = "poll"
  BY DEF IdentifyPoll, Types, CallShape, CallRecords
<1>2. Target \in Drive
  BY <1>1, TargetIsDrive
<1>3. drives \in Seq(Drive) /\ Len(drives) < call.at /\ call.at \in 1..4 /\ selected = -1
  BY <1>1 DEF Types, CallShape
<1>4. Append(drives, Target) \in Seq(Drive) /\ Len(Append(drives, Target)) <= call.at
  BY <1>2, <1>3
<1>5. /\ NextPlace(drives) => drives' = drives
      /\ NextPlace(Append(drives, Target)) => drives' = Append(drives, Target)
  BY DEF NextPlace
<1>6. \/ /\ dev' = dev /\ drives' = drives /\ gaveup' = gaveup
         /\ call' = [call EXCEPT !.timeout = @ - 1] /\ call.timeout > 0
      \/ /\ dev' = dev /\ NextPlace(drives) /\ gaveup' = gaveup
         /\ "ERR" \in Status(Active)
      \/ /\ dev' = dev /\ NextPlace(drives) /\ gaveup' = (gaveup \/ ~ Hears)
      \/ /\ dev' = [dev EXCEPT ![Active] = Quiet] /\ gaveup' = gaveup
         /\ NextPlace(Append(drives, Target))
  BY DEF IdentifyPoll
<1>7. drives' \in Seq(Drive) /\ Len(drives') <= call.at
  BY <1>3, <1>4, <1>5, <1>6
<1> QED
  BY <1>1, <1>3, <1>6, <1>7

-----------------------------------------------------------------------------
LEMMA TypesKept == Types /\ CallShape /\ DeviceShape /\ [Next]_vars => Types'
<1> SUFFICES ASSUME Types, CallShape, DeviceShape, [Next]_vars PROVE Types'
  OBVIOUS
<1> USE DEF drivers, history
<1>1. CASE Select
  <2>1. unit' \in [{1, 2} -> {0, 1}] /\ deaf' \in BOOLEAN
    <3>1. call.op # "none"
      BY <1>1 DEF Select, CallShape
    <3>2. Target[1] \in {1, 2} /\ Target[2] \in {0, 1}
      BY <3>1, TargetIsDrive
    <3> QED
      BY <1>1, <3>2 DEF Select, SelectUnit, Types
  <2>2. call' \in CallRecords
    BY <1>1 DEF Select, Types, CallRecords
  <2> QED
    BY <1>1, <2>1, <2>2 DEF Select, Types
<1>2. CASE Identify
  <2>1. call.op = "detect" /\ Command("identify", 0) /\ 0 \in Nat
    BY <1>2 DEF Identify
  <2>2. dev' \in [Drive -> Devices] /\ deaf' \in BOOLEAN
    BY <2>1, CommandEffect DEF Types
  <2>3. drives \in Seq(Drive) /\ Len(drives) <= call.at /\ selected = -1 /\ call.at \in 1..4
    BY <2>1 DEF Types, CallShape
  <2>4. call' \in CallRecords /\ drives' = drives
    <3>1. CASE NextPlace(drives)
      BY <2>1, <2>3, <3>1, NextPlaceEffect
    <3>2. CASE call' = [call EXCEPT !.pc = "poll"] /\ drives' = drives
      BY <3>2 DEF Types, CallRecords
    <3> QED
      BY <1>2, <3>1, <3>2 DEF Identify
  <2> QED
    BY <1>2, <2>2, <2>3, <2>4 DEF Identify, Types
<1>3. CASE IdentifyPoll
  <2>1. /\ call.op = "detect" /\ drives' \in Seq(Drive) /\ Len(drives') <= call.at
        /\ call.at \in 1..4 /\ selected = -1
    BY <1>3, IdentifyPollEffect
  <2>2. Active \in Drive
    BY <2>1, TargetIsDrive
  <2>3. dev' \in [Drive -> Devices] /\ gaveup' \in BOOLEAN
    BY <1>3, <2>2, IdentifyPollEffect, QuietIsDevice DEF Types
  <2>4. call' \in CallRecords
    <3>1. ASSUME NEW t, t = drives' , NextPlace(t) PROVE call' \in CallRecords
      BY <2>1, <3>1, NextPlaceEffect
    <3>2. \A t : NextPlace(t) => drives' = t
      BY DEF NextPlace
    <3>3. CASE call' = [call EXCEPT !.timeout = @ - 1] /\ call.timeout > 0
      BY <3>3, CallGoesOn DEF Types
    <3> QED
      BY <1>3, <3>1, <3>2, <3>3, IdentifyPollEffect
  <2>5. Len(drives') \in Nat
    BY <2>1
  <2> QED
    BY <1>3, <2>1, <2>3, <2>4, <2>5 DEF IdentifyPoll, Types
<1>4. CASE Choose
  <2>1. selected' \in -1..(Len(drives) - 1)
    BY <1>4 DEF Choose, CallShape, Types
  <2> QED
    BY <1>4, <2>1, NoCallIsCall DEF Choose, Types
<1>5. CASE Free \/ WaitMore
  <2>1. call' \in CallRecords
    BY <1>5, CallGoesOn DEF Free, WaitMore, Types
  <2> QED
    BY <1>5, <2>1 DEF Free, WaitMore, Types
<1>6. CASE Issue
  <2>1. Command(call.op, call.at) /\ call.op \in {"read", "write"} /\ call.at \in Nat
    BY <1>6 DEF Issue, Types, CallRecords
  <2>2. dev' \in [Drive -> Devices] /\ deaf' \in BOOLEAN
    BY <2>1, CommandEffect DEF Types
  <2>3. call' \in CallRecords
    BY <1>6, CallGoesOn DEF Issue, Types
  <2> QED
    BY <1>6, <2>2, <2>3 DEF Issue, Types
<1>7. CASE WaitEnds
  <2>1. call' \in CallRecords /\ may' \in [Sectors -> SUBSET Values]
    <3>1. call.at \in Nat /\ call.value \in Values
      BY DEF Types, CallRecords
    <3>2. CASE call' = NoCall /\ may' = may
      BY <3>2, NoCallIsCall DEF Types
    <3>3. CASE Return(call.op, call.at, call.value, FALSE)
      BY <3>1, <3>3, ReturnEffect, NoCallIsCall
    <3> QED
      BY <1>7, <3>2, <3>3 DEF WaitEnds
  <2> QED
    BY <1>7, <2>1 DEF WaitEnds, Types
<1>8. CASE ReadData
  <2>1. call.at \in Nat
    BY DEF Types, CallRecords
  <2>2. PICK v \in Values : Return("read", call.at, v, TRUE)
    BY <1>8 DEF ReadData
  <2>3. call' \in CallRecords /\ may' \in [Sectors -> SUBSET Values]
    BY <2>1, <2>2, ReturnEffect, NoCallIsCall
  <2>4. dev' \in [Drive -> Devices]
    BY <1>8, QuietIsDevice DEF ReadData, Types
  <2> QED
    BY <1>8, <2>3, <2>4 DEF ReadData, Types
<1>9. CASE WriteData
  <2>1. call' \in CallRecords
    BY <1>9, CallGoesOn DEF WriteData, Types
  <2>2. dev' \in [Drive -> Devices]
    <3>1. call.value \in Values
      BY DEF Types, CallRecords
    <3>2. \A e \in Devices : [e EXCEPT !.st = "busy"] \in Devices
      BY DEF Devices
    <3>3. \A e \in Devices : [e EXCEPT !.data = {call.value}] \in Devices
      BY <3>1 DEF Devices
    <3>4. [dev EXCEPT ![Active].st = "busy"] \in [Drive -> Devices]
      BY <3>2 DEF Types
    <3>5. [dev EXCEPT ![Active].st = "busy", ![Active].data = {call.value}] \in [Drive -> Devices]
      BY <3>3, <3>4
    <3> QED
      BY <1>9, <3>5 DEF WriteData, Types
  <2> QED
    BY <1>9, <2>1, <2>2 DEF WriteData, Types
<1>10. CASE Written
  <2>1. call.at \in Nat /\ call.value \in Values
    BY DEF Types, CallRecords
  <2>2. call' \in CallRecords /\ may' \in [Sectors -> SUBSET Values]
    BY <1>10, <2>1, ReturnEffect, NoCallIsCall DEF Written
  <2> QED
    BY <1>10, <2>2 DEF Written, Types
<1>11. ASSUME NEW d \in Drive, Answer(d) PROVE Types'
  <2>1. dev' \in [Drive -> Devices] /\ disk' \in [Drive -> [Sectors -> Values]]
    <3>1. dev[d] \in Devices
      BY DEF Types
    <3>2. PICK end \in {"drq", "error", "idle"} :
            /\ dev' = [dev EXCEPT ![d] = IF end = "drq" THEN [@ EXCEPT !.st = end]
                                        ELSE [Quiet EXCEPT !.st = end]]
            /\ end = "idle" => dev[d].data # {}
            /\ disk' = IF end = "idle"
                         THEN [disk EXCEPT ![d][dev[d].lba] = CHOOSE v \in dev[d].data : TRUE]
                         ELSE disk
      BY <1>11 DEF Answer
    <3>3. [dev[d] EXCEPT !.st = end] \in Devices
      BY <3>1 DEF Devices
    <3>4. end # "drq" => [Quiet EXCEPT !.st = end] \in Devices
      BY QuietIsDevice
    <3>5. dev' \in [Drive -> Devices]
      BY <3>2, <3>3, <3>4 DEF Types
    <3>6. dev[d].data # {} => (CHOOSE v \in dev[d].data : TRUE) \in Values
      BY <3>1 DEF Devices
    <3>7. disk' \in [Drive -> [Sectors -> Values]]
      BY <3>2, <3>6 DEF Types
    <3> QED
      BY <3>5, <3>7
  <2>2. fault' \in BOOLEAN
    BY <1>11 DEF Answer, Types
  <2> QED
    BY <1>11, <2>1, <2>2 DEF Answer, Types
<1>12. ASSUME NEW op \in {"read", "write"}, NEW l \in Lbas, NEW v \in Values, Ask(op, l, v)
       PROVE  Types'
  <2>1. l \in Nat
    BY AtaAssumption
  <2>2. call' \in CallRecords /\ may' \in [Sectors -> SUBSET Values]
    <3>1. CASE call' = Waiting(op, "bsy", l, v) /\ may' = may
      BY <2>1, <3>1, WaitingIsCall DEF Types
    <3>2. CASE Return(op, l, v, FALSE)
      BY <2>1, <3>2, ReturnEffect, NoCallIsCall
    <3> QED
      BY <1>12, <3>1, <3>2 DEF Ask
  <2> QED
    BY <1>12, <2>2 DEF Ask, Types
<1>13. CASE UNCHANGED vars
  BY <1>13 DEF vars, Types
<1> QED
  BY <1>1, <1>2, <1>3, <1>4, <1>5, <1>6, <1>7, <1>8, <1>9, <1>10, <1>11, <1>12, <1>13,
     AtaAssumption DEF Next, Driver

-----------------------------------------------------------------------------
\* Before a drive is selected nothing is written.
LEMMA NothingWritten ==
  ASSUME IInv, selected = -1
  PROVE  \A d \in Drive : dev[d].cmd # "write" /\ dev[d].data = {}
BY DEF IInv, WritesAreOurs, Ours, DeviceShape

\* A drive that is not in BSY has no answer to give.
LEMMA BusyShows ==
  ASSUME IInv, NEW d \in Drive
  PROVE  /\ "BSY" \in Status(d) <=> dev[d].st = "busy"
         /\ "DRQ" \in Status(d) <=> dev[d].st = "drq"
         /\ "ERR" \in Status(d) => dev[d].st = "error"
         /\ dev[d].st \in {"idle", "busy", "drq", "error"}
<1>1. dev[d].st \in {"idle", "busy", "drq", "error"}
  BY DEF IInv, Types, Devices
<1> QED
  BY <1>1 DEF IInv, DeviceShape, Status

\* The sector calls are about the selected drive.
LEMMA SectorTarget ==
  ASSUME IInv, Sector
  PROVE  /\ Target = drives[selected + 1] /\ Target \in Drive /\ Active \in Drive
         /\ selected >= 0 /\ call.op # "none" /\ call.at \in Nat
         /\ call.value \in Values /\ Here \in 0..(Bits28 - 1)
         /\ unit[Target[1]] = Target[2] => Active = Target
<1>1. call.at \in Nat /\ call.value \in Values
  BY DEF IInv, Types, CallRecords
<1>2. Here \in 0..(Bits28 - 1)
  BY <1>1, SectorNumber DEF Here
<1>3. selected >= 0 /\ call.op # "none" /\ Target = drives[selected + 1]
  BY DEF IInv, CallShape, Sector, Target
<1> QED
  BY <1>1, <1>2, <1>3, TargetIsDrive DEF IInv

LEMMA SelectKeepsIInv == ASSUME IInv, Types', Select PROVE IInv'
<1>1. /\ call.pc = "select" /\ call.op \in {"detect", "choose", "read", "write"}
      /\ call' = [call EXCEPT !.pc = IF call.op = "choose" THEN "bsy" ELSE "command"]
  BY DEF Select, IInv, CallShape, Types, CallRecords
<1>2. /\ call'.op = call.op /\ call'.at = call.at /\ call'.value = call.value
      /\ call'.pc = IF call.op = "choose" THEN "bsy" ELSE "command"
  BY <1>1, CallGoesOn DEF IInv, Types
<1>3. UNCHANGED <<kind, dev, disk, drives, selected, may, gaveup, fault>>
  BY DEF Select
<1>4. Target' = Target
  BY <1>2, <1>3 DEF Target
<1>5. Target \in Drive /\ Active \in Drive /\ Target[1] \in {1, 2} /\ Target[2] \in {0, 1}
  BY <1>1, TargetIsDrive DEF IInv
<1>6. /\ unit' = IF Hears THEN [unit EXCEPT ![Target[1]] = Target[2]] ELSE unit
      /\ deaf' = (deaf \/ ~ Hears) /\ unit \in [{1, 2} -> {0, 1}]
  BY DEF Select, SelectUnit, IInv, Types
<1>7. Hears => unit'[Target[1]] = Target[2]
  BY <1>5, <1>6
<1>8. \A d \in Drive : dev[d].cmd = "write" => d = Target /\ Sector /\ Ours(d)
  <2>1. CASE call.op \in {"detect", "choose"}
    BY <2>1, NothingWritten DEF IInv, CallShape
  <2>2. CASE Sector
    BY <2>2, SectorTarget DEF IInv, WritesAreOurs, Ours
  <2> QED
    BY <1>1, <2>1, <2>2 DEF Sector
<1>9. CallShape'
  BY <1>1, <1>2, <1>3 DEF IInv, CallShape
<1>10. DeviceShape'
  BY <1>3 DEF IInv, DeviceShape
<1>11. WritesAreOurs'
  <2>1. ASSUME NEW d \in Drive, dev'[d].cmd = "write" PROVE Ours(d)'
    <3>1. d = Target /\ Ours(d)
      BY <1>3, <1>8, <2>1
    <3>2. unit'[d[1]] = d[2]
      BY <1>6, <1>7, <3>1 DEF Ours
    <3> QED
      BY <1>3, <3>1, <3>2 DEF Ours
  <2>2. ASSUME Sector, ~ Hears PROVE dev'[Active'].st = "drq"
    <3>1. Active' = Active
      BY <1>4, <1>6, <2>2 DEF Active
    <3>2. dev[Active].st # "busy" /\ dev[Active].st \in {"idle", "busy", "drq", "error"}
      BY <1>1, <1>5, <2>2, BusyShows DEF IInv, WritesAreOurs
    <3> QED
      BY <1>3, <2>2, <3>1, <3>2 DEF Hears
  <2> QED
    BY <1>1, <1>2, <1>4, <1>7, <2>1, <2>2 DEF WritesAreOurs, Sector
<1>12. InStep'
  <2> SUFFICES ASSUME ~ gaveup PROVE InStep'
    BY <1>3 DEF InStep
  <2>1. \A d \in Drive : dev[d].st \in {"busy", "drq"} => dev[d].data # {}
    BY <1>1 DEF IInv, InStep
  <2>2. \A d \in Drive : dev[d].st \in {"busy", "drq"} =>
          d = Target /\ Sector /\ unit[d[1]] = d[2] /\ dev[d].st = "busy"
    BY <1>8, <2>1 DEF IInv, DeviceShape, Ours
  <2>3. Hears
    <3>1. dev[Active].st \notin {"busy", "drq"}
      BY <1>1, <1>5, <2>2 DEF IInv, WritesAreOurs
    <3> QED
      BY <1>5, <3>1, BusyShows DEF Hears
  <2>4. \A d \in Drive : dev[d].st \notin {"busy", "drq"}
    <3>1. Sector /\ unit[Target[1]] = Target[2] => Active = Target
      BY SectorTarget
    <3> QED
      BY <2>2, <2>3, <3>1 DEF Hears
  <2>5. Active' = Target
    BY <1>4, <1>5, <1>7, <2>3, DrivePlaces DEF Active
  <2>6. Hears'
    BY <1>3, <1>5, <2>4, <2>5, BusyShows DEF Hears
  <2>7. ~ deaf'
    BY <1>6, <2>3 DEF IInv, InStep
  <2>8. call'.pc # "drq" /\ \A d \in Drive : dev'[d].st \notin {"busy", "drq"}
    BY <1>2, <1>3, <2>4
  <2> QED
    BY <2>6, <2>7, <2>8 DEF InStep
<1>13. StoreHolds'
  <2>1. CASE ~ Sector
    BY <1>1, <1>3, <2>1 DEF IInv, CallShape, StoreHolds, Sector
  <2>2. ASSUME Sector, ~ deaf', ~ fault' PROVE Believed(drives[selected + 1])'
    <3> DEFINE S == drives[selected + 1]
    <3>1. Believed(S) /\ S = Target
      BY <1>3, <1>6, <2>2, SectorTarget DEF IInv, StoreHolds
    <3>2. unit'[S[1]] = S[2]
      BY <1>6, <1>7, <2>2, <3>1
    <3>3. call'.pc = "command"
      BY <1>2, <2>2 DEF Sector
    <3> QED
      BY <1>1, <1>3, <3>1, <3>2, <3>3 DEF Believed, Pending
  <2>3. CASE Sector
    BY <1>3, <2>2, <2>3, SectorTarget DEF StoreHolds, IInv, Types
  <2> QED
    BY <2>1, <2>3
<1> QED
  BY <1>9, <1>10, <1>11, <1>12, <1>13 DEF IInv

\* While the driver has not given up, no drive is at work but for a call that
\* waits for its data, or at the end of a write to the selected one.
LEMMA NobodyWorks ==
  ASSUME IInv, ~ gaveup, call.pc \notin {"poll", "drq"}
  PROVE  ~ deaf /\ \A d \in Drive : dev[d].st \in {"busy", "drq"} =>
                     dev[d].st = "busy" /\ dev[d].data # {} /\ dev[d].cmd = "write" /\ Ours(d)
BY DEF IInv, InStep, DeviceShape, WritesAreOurs

LEMMA IdentifyKeepsIInv == ASSUME IInv, Types', Identify PROVE IInv'
<1>1. /\ call.op = "detect" /\ call.pc = "command" /\ call.at \in 1..4 /\ selected = -1
      /\ Command("identify", 0) /\ 0 \in Nat
      /\ drives \in Seq(Drive) /\ Len(drives) < call.at
  BY DEF Identify, IInv, CallShape, Types
<1>2. UNCHANGED <<kind, unit, disk, selected, may, gaveup, fault>>
  BY DEF Identify
<1>3. Active \in Drive
  BY <1>1, TargetIsDrive DEF IInv
<1>4. /\ \A d \in Drive : dev'[d] # dev[d] =>
           /\ d = Active /\ Hears /\ kind[d] # "none"
           /\ dev'[d].st = "busy" /\ dev'[d].cmd = "identify" /\ dev'[d].data = {}
      /\ deaf' = (deaf \/ ~ Hears)
  BY <1>1, CommandEffect DEF IInv
<1>5. \A d \in Drive : dev[d].cmd # "write" /\ dev[d].data = {}
  BY <1>1, NothingWritten
<1>6. \/ /\ Status(Active) = {} /\ NextPlace(drives)
      \/ /\ Status(Active) # {} /\ drives' = drives
         /\ call'.op = "detect" /\ call'.pc = "poll" /\ call'.at = call.at
  <2>1. Status(Active) # {} => call' = [call EXCEPT !.pc = "poll"] /\ drives' = drives
    BY DEF Identify
  <2>2. Status(Active) = {} => NextPlace(drives)
    BY DEF Identify
  <2>3. LET c == [call EXCEPT !.pc = "poll"] IN c.op = call.op /\ c.pc = "poll" /\ c.at = call.at
    BY CallGoesOn DEF IInv, Types
  <2> QED
    BY <1>1, <2>1, <2>2, <2>3
<1>7. /\ drives' = drives
      /\ \/ /\ call'.op = "detect" /\ call'.pc = "select" /\ call'.at = call.at + 1 /\ call.at < 4
         \/ call'.op = "none" /\ call'.pc = "idle"
         \/ call'.op = "choose" /\ call'.pc = "select" /\ call'.at = 0 /\ Len(drives) > 0
         \/ /\ call'.op = "detect" /\ call'.pc = "poll" /\ call'.at = call.at
  BY <1>1, <1>6, NextPlaceEffect DEF IInv
<1>8. CallShape'
  BY <1>1, <1>2, <1>7 DEF CallShape
<1>9. DeviceShape'
  BY <1>2, <1>4 DEF IInv, DeviceShape
<1>10. WritesAreOurs'
  BY <1>4, <1>5, <1>7 DEF WritesAreOurs, Sector
<1>11. InStep'
  <2> SUFFICES ASSUME ~ gaveup PROVE InStep'
    BY <1>2 DEF InStep
  <2>1. ~ deaf /\ \A d \in Drive : dev[d].st \notin {"busy", "drq"}
    BY <1>1, <1>5, NobodyWorks
  <2>2. Hears
    BY <1>3, <2>1, BusyShows DEF Hears
  <2>3. ~ deaf'
    BY <1>4, <2>1, <2>2
  <2>4. ASSUME NEW d \in Drive, dev'[d].st \in {"busy", "drq"}
        PROVE  call'.pc = "poll" /\ d = Active'
    <3>1. d = Active /\ kind[d] # "none"
      BY <1>4, <2>1, <2>4
    <3>2. Status(Active) # {}
      BY <2>1, <1>3, <3>1, BusyShows DEF Status
    <3>3. Target' = Target
      BY <1>1, <1>6, <3>2 DEF Target
    <3> QED
      BY <1>2, <1>6, <3>1, <3>2, <3>3 DEF Active
  <2> QED
    BY <1>7, <2>3, <2>4 DEF InStep, Sector
<1>12. StoreHolds'
  BY <1>1, <1>2 DEF IInv, StoreHolds
<1> QED
  BY <1>8, <1>9, <1>10, <1>11, <1>12 DEF IInv

LEMMA IdentifyPollKeepsIInv == ASSUME IInv, Types', IdentifyPoll PROVE IInv'
<1>1. /\ call.op = "detect" /\ call.pc = "poll" /\ call.at \in 1..4 /\ selected = -1
      /\ drives' \in Seq(Drive) /\ Len(drives') <= call.at
  BY IdentifyPollEffect DEF IdentifyPoll, IInv
<1>2. UNCHANGED <<kind, unit, disk, selected, may, deaf, fault>>
  BY DEF IdentifyPoll
<1>3. Active \in Drive
  BY <1>1, TargetIsDrive DEF IInv
<1>4. dev' = dev \/ dev' = [dev EXCEPT ![Active] = Quiet]
  BY IdentifyPollEffect DEF IInv
<1>5. \A d \in Drive : dev'[d] = dev[d] \/ dev'[d] = Quiet
  BY <1>4 DEF IInv, Types
<1>6. \A d \in Drive : dev[d].cmd # "write" /\ dev[d].data = {}
  BY <1>1, NothingWritten
<1>7. \/ /\ drives' = drives /\ dev' = dev /\ gaveup' = gaveup
         /\ call'.op = "detect" /\ call'.pc = "poll" /\ call'.at = call.at
      \/ NextPlace(drives')
  <2>1. \/ /\ drives' = drives /\ dev' = dev /\ gaveup' = gaveup
           /\ call' = [call EXCEPT !.timeout = @ - 1] /\ call.timeout > 0
        \/ NextPlace(drives) \/ NextPlace(Append(drives, Target))
    BY IdentifyPollEffect DEF IInv
  <2>2. \A t : NextPlace(t) => drives' = t
    BY DEF NextPlace
  <2> QED
    BY <1>1, <2>1, <2>2, CallGoesOn DEF IInv, Types
<1>8. \/ /\ call'.op = "detect" /\ call'.pc = "select" /\ call'.at = call.at + 1 /\ call.at < 4
      \/ call'.op = "none" /\ call'.pc = "idle"
      \/ call'.op = "choose" /\ call'.pc = "select" /\ call'.at = 0 /\ Len(drives') > 0
      \/ /\ call'.op = "detect" /\ call'.pc = "poll" /\ call'.at = call.at
         /\ drives' = drives /\ dev' = dev /\ gaveup' = gaveup
  <2>1. ASSUME NEW t \in Seq(Drive), Len(t) <= call.at, NextPlace(t)
        PROVE  \/ /\ call'.op = "detect" /\ call'.pc = "select" /\ call'.at = call.at + 1 /\ call.at < 4
               \/ call'.op = "none" /\ call'.pc = "idle"
               \/ call'.op = "choose" /\ call'.pc = "select" /\ call'.at = 0 /\ Len(t) > 0
    BY <1>1, <2>1, NextPlaceEffect DEF IInv
  <2> QED
    BY <1>1, <1>7, <2>1
<1>9. CallShape'
  <2>1. Len(drives) < call.at
    BY <1>1 DEF IInv, CallShape
  <2>2. Len(drives') \in Nat
    BY <1>1
  <2> QED
    BY <1>1, <1>2, <1>8, <2>1, <2>2 DEF CallShape
<1>10. DeviceShape'
  BY <1>2, <1>5, QuietIsDevice DEF IInv, DeviceShape
<1>11. WritesAreOurs'
  BY <1>5, <1>6, <1>8, QuietIsDevice DEF WritesAreOurs, Sector
<1>12. InStep'
  <2> SUFFICES ASSUME ~ gaveup' PROVE InStep'
    BY DEF InStep
  <2>1. ~ gaveup /\ ~ deaf'
    <3>1. gaveup' = gaveup \/ gaveup' = (gaveup \/ ~ Hears)
      BY IdentifyPollEffect DEF IInv
    <3>2. ~ gaveup
      BY <3>1 DEF IInv, Types
    <3>3. ~ deaf
      BY <3>2 DEF IInv, InStep
    <3> QED
      BY <1>2, <3>2, <3>3
  <2>2. \A d \in Drive : dev[d].st \in {"busy", "drq"} => d = Active
    BY <1>6, <2>1 DEF IInv, InStep
  <2>3. CASE call'.pc = "poll"
    <3>1. call'.op = "detect" /\ call'.at = call.at /\ drives' = drives /\ dev' = dev
      BY <1>8, <2>3
    <3>2. Active' = Active
      BY <1>1, <1>2, <3>1 DEF Active, Target
    <3> QED
      BY <2>1, <2>2, <2>3, <3>1, <3>2 DEF InStep, Sector
  <2>4. CASE call'.pc # "poll"
    <3>1. dev[Active].st \notin {"busy", "drq"} \/ dev' = [dev EXCEPT ![Active] = Quiet]
      BY <1>1, <1>3, <2>4, BusyShows, IdentifyPollEffect, CallGoesOn DEF IInv, Types, Hears
    <3>2. \A d \in Drive : dev'[d].st \notin {"busy", "drq"}
      BY <1>3, <1>5, <2>2, <3>1, QuietIsDevice DEF IInv, Types
    <3> QED
      BY <1>8, <2>1, <2>4, <3>2 DEF InStep, Sector
  <2> QED
    BY <2>3, <2>4
<1>13. StoreHolds'
  BY <1>1, <1>2 DEF IInv, StoreHolds
<1> QED
  BY <1>9, <1>10, <1>11, <1>12, <1>13 DEF IInv

LEMMA ChooseKeepsIInv == ASSUME IInv, Types', Choose PROVE IInv'
<1>1. /\ call.op = "choose" /\ call.pc = "bsy" /\ call.at = 0 /\ selected = -1
      /\ Len(drives) > 0 /\ drives \in Seq(Drive)
  BY DEF Choose, IInv, CallShape, Types
<1>2. UNCHANGED <<kind, unit, dev, disk, drives, may, gaveup, deaf, fault>>
  BY DEF Choose, history
<1>3. call' = NoCall /\ (selected' = 0 \/ selected' = -1)
  BY <1>1 DEF Choose
<1>4. call'.op = "none" /\ call'.pc = "idle"
  BY <1>3, NoCallIsCall
<1>5. \A d \in Drive : dev[d].cmd # "write" /\ dev[d].data = {}
  BY <1>1, NothingWritten
<1>6. CallShape'
  BY <1>4 DEF CallShape
<1>7. DeviceShape'
  BY <1>2 DEF IInv, DeviceShape
<1>8. WritesAreOurs'
  BY <1>2, <1>4, <1>5 DEF WritesAreOurs, Sector
<1>9. InStep'
  <2> SUFFICES ASSUME ~ gaveup PROVE InStep'
    BY <1>2 DEF InStep
  <2>1. ~ deaf /\ \A d \in Drive : dev[d].st \notin {"busy", "drq"}
    BY <1>1, <1>5, NobodyWorks
  <2> QED
    BY <1>2, <1>4, <2>1 DEF InStep, Sector
<1>10. StoreHolds'
  <2>1. \A l \in Sectors : may[l] = Values
    BY <1>1 DEF IInv, StoreHolds
  <2>2. ASSUME selected' = 0 PROVE Believed(drives[selected + 1])'
    <3>1. drives'[selected' + 1] = drives[1] /\ drives[1] \in Drive
      BY <1>1, <1>2, <2>2
    <3>2. \A l \in Sectors : disk'[drives[1]][l] \in may'[l]
      BY <1>2, <2>1, <3>1 DEF IInv, Types
    <3>3. dev'[drives[1]].data = {}
      BY <1>2, <1>5, <3>1
    <3> QED
      BY <1>4, <3>1, <3>2, <3>3 DEF Believed
  <2> QED
    BY <1>2, <1>3, <2>1, <2>2 DEF StoreHolds
<1> QED
  BY <1>6, <1>7, <1>8, <1>9, <1>10 DEF IInv

LEMMA FreeKeepsIInv == ASSUME IInv, Types', Free PROVE IInv'
<1>1. call.pc = "bsy" /\ Sector /\ "BSY" \notin Status(Active)
  BY DEF Free, IInv, CallShape, Types, CallRecords, Sector
<1>2. UNCHANGED <<kind, unit, dev, disk, drives, selected, may, gaveup, deaf, fault>>
  BY DEF Free, history
<1>3. /\ call'.op = call.op /\ call'.pc = "select" /\ call'.at = call.at
      /\ call'.value = call.value
  BY CallGoesOn DEF Free, IInv, Types
<1>4. Target' = Target /\ Active' = Active
  BY <1>2, <1>3 DEF Target, Active
<1>5. dev[Active].st # "busy"
  BY <1>1, SectorTarget, BusyShows
<1>6. CallShape'
  BY <1>1, <1>2, <1>3 DEF IInv, CallShape, Sector
<1>7. DeviceShape'
  BY <1>2 DEF IInv, DeviceShape
<1>8. WritesAreOurs'
  BY <1>2, <1>3, <1>4, <1>5 DEF IInv, WritesAreOurs, Ours
<1>9. InStep'
  <2>1. ~ gaveup => ~ deaf /\ \A d \in Drive : ~ (dev[d].st \in {"busy", "drq"} /\ dev[d].data = {})
    BY <1>1, NobodyWorks
  <2> QED
    BY <1>2, <1>3, <2>1 DEF InStep
<1>10. StoreHolds'
  <2>1. ASSUME selected >= 0, ~ deaf, ~ fault PROVE Believed(drives[selected + 1])'
    <3>1. Believed(drives[selected + 1])
      BY <2>1 DEF IInv, StoreHolds
    <3> QED
      BY <1>1, <1>2, <1>3, <3>1 DEF Believed, Pending
  <2> QED
    BY <1>2, <2>1 DEF IInv, StoreHolds
<1> QED
  BY <1>6, <1>7, <1>8, <1>9, <1>10 DEF IInv

LEMMA WaitMoreKeepsIInv == ASSUME IInv, Types', WaitMore PROVE IInv'
<1>1. UNCHANGED <<kind, unit, dev, disk, drives, selected, may, gaveup, deaf, fault>>
  BY DEF WaitMore, history
<1>2. /\ call'.op = call.op /\ call'.pc = call.pc /\ call'.at = call.at
      /\ call'.value = call.value
  BY CallGoesOn DEF WaitMore, IInv, Types
<1>3. Target' = Target /\ Active' = Active
  BY <1>1, <1>2 DEF Target, Active
<1>4. CallShape'
  BY <1>1, <1>2 DEF IInv, CallShape
<1>5. DeviceShape'
  BY <1>1 DEF IInv, DeviceShape
<1>6. WritesAreOurs'
  BY <1>1, <1>2, <1>3 DEF IInv, WritesAreOurs, Ours, Sector
<1>7. InStep'
  BY <1>1, <1>2, <1>3 DEF IInv, InStep, Sector, Hears
<1>8. StoreHolds'
  <2>1. ASSUME selected >= 0, ~ deaf, ~ fault PROVE Believed(drives[selected + 1])'
    <3>1. Believed(drives[selected + 1])
      BY <2>1 DEF IInv, StoreHolds
    <3> QED
      BY <1>1, <1>2, <3>1 DEF Believed, Pending, Here
  <2> QED
    BY <1>1, <2>1 DEF IInv, StoreHolds
<1> QED
  BY <1>4, <1>5, <1>6, <1>7, <1>8 DEF IInv

LEMMA IssueKeepsIInv == ASSUME IInv, Types', Issue PROVE IInv'
<1>1. call.pc = "command" /\ Sector /\ Command(call.op, call.at)
  BY DEF Issue, Sector
<1>2. UNCHANGED <<kind, unit, disk, drives, selected, may, gaveup, fault>>
  BY DEF Issue
<1>3. /\ call'.op = call.op /\ call'.pc = "drq" /\ call'.at = call.at
      /\ call'.value = call.value
  BY CallGoesOn DEF Issue, IInv, Types
<1>4. Target' = Target /\ Active' = Active /\ Here' = Here
  BY <1>2, <1>3 DEF Target, Active, Here
<1>5. /\ \A d \in Drive : dev'[d] # dev[d] =>
           /\ d = Active /\ Hears /\ kind[d] # "none"
           /\ dev'[d].st = "busy" /\ dev'[d].cmd = call.op
           /\ dev'[d].lba = Here /\ dev'[d].data = {}
      /\ deaf' = (deaf \/ ~ Hears)
  BY <1>1, SectorTarget, CommandEffect DEF IInv, Sector, Here
<1>6. CallShape'
  BY <1>1, <1>2, <1>3 DEF IInv, CallShape, Sector
<1>7. DeviceShape'
  BY <1>2, <1>5 DEF IInv, DeviceShape
<1>8. WritesAreOurs'
  <2>1. ASSUME NEW d \in Drive, dev'[d].cmd = "write" PROVE Ours(d)'
    <3>1. CASE dev'[d] = dev[d]
      BY <1>2, <2>1, <3>1 DEF IInv, WritesAreOurs, Ours
    <3>2. CASE dev'[d] # dev[d]
      <4>1. d = Active /\ unit[Target[1]] = Target[2]
        BY <1>1, <1>5, <3>2 DEF IInv, WritesAreOurs, Hears
      <4> QED
        BY <1>1, <1>2, <4>1, SectorTarget DEF Ours
    <3> QED
      BY <3>1, <3>2
  <2> QED
    BY <1>3, <2>1 DEF WritesAreOurs
<1>9. InStep'
  <2> SUFFICES ASSUME ~ gaveup PROVE InStep'
    BY <1>2 DEF InStep
  <2>1. Hears /\ ~ deaf
    BY <1>1 DEF IInv, InStep
  <2>2. \A d \in Drive : dev[d].st \in {"busy", "drq"} => dev[d].data # {}
    BY <1>1, NobodyWorks
  <2>3. ~ deaf'
    BY <1>5, <2>1
  <2>4. ASSUME NEW d \in Drive, dev'[d].st \in {"busy", "drq"}, dev'[d].data = {}
        PROVE  d = Active
    BY <1>5, <2>2, <2>4
  <2>5. dev'[Active].st \in {"busy", "drq"} => dev'[Active].cmd = call.op
    <3>1. Active \in Drive
      BY <1>1, SectorTarget
    <3> QED
      BY <1>5, <2>1, <3>1 DEF Hears
  <2> QED
    BY <1>3, <1>4, <2>3, <2>4, <2>5 DEF InStep
<1>10. StoreHolds'
  <2>1. ASSUME selected >= 0, ~ deaf', ~ fault PROVE Believed(drives[selected + 1])'
    <3> DEFINE S == drives[selected + 1]
    <3>1. Believed(S) /\ S = Target /\ Hears
      BY <1>1, <1>5, <2>1, SectorTarget DEF IInv, StoreHolds
    <3>2. unit[S[1]] = S[2] /\ Active = S /\ S \in Drive
      BY <1>1, <3>1, SectorTarget DEF Believed
    <3>3. dev[S].data = {} /\ dev[S].st \notin {"busy", "drq"}
      BY <3>1, <3>2 DEF Hears, IInv, DeviceShape
    <3>4. /\ dev'[S].data = {}
          /\ dev'[S].st \in {"busy", "drq"} => dev'[S].cmd = call.op /\ dev'[S].lba = Here
      BY <1>5, <3>2, <3>3
    <3>5. \A l \in Sectors : disk[S][l] \in may[l]
      BY <1>1, <3>1 DEF Believed, Pending
    <3> QED
      BY <1>2, <1>3, <1>4, <3>2, <3>4, <3>5 DEF Believed, Pending
  <2> QED
    BY <1>2, <2>1 DEF IInv, StoreHolds
<1> QED
  BY <1>6, <1>7, <1>8, <1>9, <1>10 DEF IInv

LEMMA WaitEndsKeepsIInv == ASSUME IInv, Types', WaitEnds PROVE IInv'
<1>1. call.pc \in {"bsy", "drq", "flush"} /\ call.op # "none"
  BY DEF WaitEnds, IInv, CallShape
<1>2. /\ UNCHANGED <<kind, unit, dev, disk, drives, selected, deaf, fault>>
      /\ gaveup' = (gaveup \/ (call.pc = "drq" /\ ~ Hears))
  BY DEF WaitEnds
<1>3. \/ call.op = "choose" /\ call' = NoCall /\ may' = may /\ selected = -1
      \/ Sector /\ Return(call.op, call.at, call.value, FALSE)
  <2>1. call.op \in {"choose", "read", "write"}
    BY <1>1 DEF IInv, CallShape, Types, CallRecords
  <2>2. call.op = "choose" => call' = NoCall /\ may' = may
    BY DEF WaitEnds
  <2>3. call.op # "choose" => Return(call.op, call.at, call.value, FALSE)
    BY DEF WaitEnds
  <2> QED
    BY <2>1, <2>2, <2>3 DEF IInv, CallShape, Sector
<1>4. Sector => /\ call' = NoCall
                /\ \A s \in Sectors :
                     may'[s] = IF s = Here /\ call.op = "write" THEN may[s] \cup {call.value}
                               ELSE may[s]
  <2> SUFFICES ASSUME Sector PROVE /\ call' = NoCall
                                   /\ \A s \in Sectors :
                                        may'[s] = IF s = Here /\ call.op = "write"
                                                    THEN may[s] \cup {call.value} ELSE may[s]
    OBVIOUS
  <2>1. Return(call.op, call.at, call.value, FALSE)
    BY <1>3 DEF Sector
  <2>2. call.at \in Nat /\ call.value \in Values
    BY SectorTarget
  <2>3. call' = NoCall
    BY <2>1 DEF Return
  <2>4. \A s \in Sectors :
          may'[s] = IF s # call.at % Bits28 THEN may[s]
                    ELSE IF FALSE THEN {call.value}
                    ELSE IF call.op = "write" THEN may[s] \cup {call.value} ELSE may[s]
    BY <2>1 DEF Return
  <2> QED
    BY <2>3, <2>4 DEF Here
<1>5. call'.op = "none" /\ call'.pc = "idle"
  BY <1>3, <1>4, NoCallIsCall
<1>6. CallShape'
  BY <1>5 DEF CallShape
<1>7. DeviceShape'
  BY <1>2 DEF IInv, DeviceShape
<1>8. WritesAreOurs'
  BY <1>2, <1>5 DEF IInv, WritesAreOurs, Ours, Sector
<1>9. InStep'
  <2> SUFFICES ASSUME ~ gaveup' PROVE InStep'
    BY DEF InStep
  <2>1. ~ gaveup /\ ~ (call.pc = "drq" /\ ~ Hears)
    BY <1>2
  <2>2. ~ deaf /\ \A d \in Drive : ~ (dev[d].st \in {"busy", "drq"} /\ dev[d].data = {})
    <3>1. /\ ~ deaf
          /\ \A d \in Drive : dev[d].st \in {"busy", "drq"} /\ dev[d].data = {} =>
               call.pc \in {"poll", "drq"} /\ d = Active
      BY <2>1 DEF IInv, InStep
    <3>2. call.pc = "drq" => dev[Active].st \notin {"busy", "drq"}
      BY <2>1 DEF Hears
    <3> QED
      BY <1>1, <3>1, <3>2
  <2> QED
    BY <1>2, <1>5, <2>2 DEF InStep, Sector
<1>10. StoreHolds'
  <2>1. CASE selected = -1
    <3>1. may' = may
      <4>1. ~ Sector
        BY <2>1, SectorTarget
      <4> QED
        BY <1>3, <4>1
    <3> QED
      BY <1>2, <2>1, <3>1 DEF IInv, StoreHolds
  <2>2. ASSUME Sector, ~ deaf, ~ fault PROVE Believed(drives[selected + 1])'
    <3> DEFINE S == drives[selected + 1]
    <3>1. Believed(S) /\ S \in Drive
      BY <2>2, SectorTarget DEF IInv, StoreHolds
    <3>2. call.pc = "flush" => call.op = "write"
      BY DEF IInv, CallShape
    <3>3. \A l \in Sectors : disk[S][l] \in may'[l]
      BY <1>4, <2>2, <3>1, <3>2 DEF Believed, Pending
    <3>4. \A v \in dev[S].data : dev[S].lba \in Sectors
      BY <3>1 DEF IInv, DeviceShape
    <3>5. \A v \in dev[S].data : v \in may'[dev[S].lba]
      BY <1>4, <2>2, <3>1, <3>2, <3>4 DEF Believed, Pending
    <3> QED
      BY <1>2, <1>5, <3>3, <3>5 DEF Believed
  <2>3. CASE Sector
    BY <1>2, <2>2, <2>3, SectorTarget DEF IInv, Types, StoreHolds
  <2> QED
    BY <1>3, <2>1, <2>3
<1> QED
  BY <1>6, <1>7, <1>8, <1>9, <1>10 DEF IInv

LEMMA ReadDataKeepsIInv == ASSUME IInv, Types', ReadData PROVE IInv'
<1>1. call.op = "read" /\ call.pc = "drq" /\ Sector /\ "DRQ" \in Status(Active)
  BY DEF ReadData, Sector
<1>2. UNCHANGED <<kind, unit, disk, drives, selected, gaveup, deaf, fault>>
  BY DEF ReadData
<1>3. PICK v \in Values : /\ dev[Active].cmd = "read" => v = disk[Active][dev[Active].lba]
                          /\ Return("read", call.at, v, TRUE)
  BY DEF ReadData
<1>4. call'.op = "none" /\ call'.pc = "idle"
  BY <1>3, NoCallIsCall DEF Return
<1>5. \A s \in Sectors : may'[s] = IF s # Here THEN may[s] ELSE {v}
  BY <1>3 DEF Return, Here
<1>6. Active \in Drive /\ dev[Active].st = "drq" /\ dev[Active].data = {}
  BY <1>1, SectorTarget, BusyShows DEF IInv, DeviceShape
<1>7. dev' = IF dev[Active].cmd = "write" THEN dev ELSE [dev EXCEPT ![Active] = Quiet]
  BY DEF ReadData
<1>8. \A d \in Drive : dev'[d] = dev[d] \/ dev'[d] = Quiet
  BY <1>7 DEF IInv, Types
<1>9. CallShape'
  BY <1>4 DEF CallShape
<1>10. DeviceShape'
  BY <1>2, <1>8, QuietIsDevice DEF IInv, DeviceShape
<1>11. WritesAreOurs'
  <2>1. \A d \in Drive : dev'[d].cmd = "write" => dev[d].cmd = "write"
    BY <1>8, QuietIsDevice
  <2> QED
    BY <1>2, <1>4, <2>1 DEF IInv, WritesAreOurs, Ours, Sector
<1>12. InStep'
  <2> SUFFICES ASSUME ~ gaveup PROVE InStep'
    BY <1>2 DEF InStep
  <2>1. /\ ~ deaf /\ dev[Active].cmd = "read"
        /\ \A d \in Drive : dev[d].st \in {"busy", "drq"} /\ dev[d].data = {} => d = Active
    BY <1>1, <1>6 DEF IInv, InStep
  <2>2. dev' = [dev EXCEPT ![Active] = Quiet]
    BY <1>7, <2>1
  <2>3. \A d \in Drive : ~ (dev'[d].st \in {"busy", "drq"} /\ dev'[d].data = {})
    BY <1>6, <2>1, <2>2, QuietIsDevice DEF IInv, Types
  <2> QED
    BY <1>2, <1>4, <2>1, <2>3 DEF InStep, Sector
<1>13. StoreHolds'
  <2>1. ASSUME ~ deaf, ~ fault PROVE Believed(drives[selected + 1])'
    <3> DEFINE S == drives[selected + 1]
    <3>1. Believed(S) /\ S = Target
      BY <1>1, <2>1, SectorTarget DEF IInv, StoreHolds
    <3>2. Active = S /\ S \in Drive
      BY <1>1, <3>1, SectorTarget DEF Believed
    <3>3. dev[S].cmd = "read" /\ dev[S].lba = Here
      BY <1>1, <1>6, <3>1, <3>2 DEF Believed
    <3>4. v = disk[S][Here] /\ Here \in Sectors
      BY <1>3, <1>6, <3>2, <3>3 DEF IInv, DeviceShape
    <3>5. \A l \in Sectors : disk[S][l] \in may'[l]
      BY <1>1, <1>5, <3>1, <3>4 DEF Believed, Pending
    <3>6. dev'[S].data = {}
      BY <1>6, <1>8, <3>2, QuietIsDevice
    <3> QED
      BY <1>2, <1>4, <3>5, <3>6 DEF Believed
  <2>2. selected >= 0 /\ selected \in Int
    BY <1>1, SectorTarget DEF IInv, Types
  <2> QED
    BY <1>2, <2>1, <2>2 DEF StoreHolds
<1> QED
  BY <1>9, <1>10, <1>11, <1>12, <1>13 DEF IInv

LEMMA WriteDataKeepsIInv == ASSUME IInv, Types', WriteData PROVE IInv'
<1>1. call.op = "write" /\ call.pc = "drq" /\ Sector /\ "DRQ" \in Status(Active)
  BY DEF WriteData, Sector
<1>2. UNCHANGED <<kind, unit, disk, drives, selected, may, gaveup, deaf, fault>>
  BY DEF WriteData, history
<1>3. /\ call'.op = call.op /\ call'.pc = "flush" /\ call'.at = call.at
      /\ call'.value = call.value
  BY CallGoesOn DEF WriteData, IInv, Types
<1>4. Here' = Here
  BY <1>3 DEF Here
<1>5. Active \in Drive /\ dev[Active].st = "drq" /\ dev[Active].data = {}
  BY <1>1, SectorTarget, BusyShows DEF IInv, DeviceShape
<1>6. \A d \in Drive : dev'[d] # dev[d] =>
        d = Active /\ dev[d].cmd = "write"
  BY DEF WriteData, IInv, Types
<1>7. dev[Active].cmd = "write" =>
        /\ dev'[Active].st = "busy" /\ dev'[Active].data = {call.value}
        /\ dev'[Active].cmd = "write" /\ dev'[Active].lba = dev[Active].lba
  <2> SUFFICES ASSUME dev[Active].cmd = "write"
               PROVE  /\ dev'[Active].st = "busy" /\ dev'[Active].data = {call.value}
                      /\ dev'[Active].cmd = "write" /\ dev'[Active].lba = dev[Active].lba
    OBVIOUS
  <2>1. dev' = [dev EXCEPT ![Active].st = "busy", ![Active].data = {call.value}]
    BY DEF WriteData
  <2>2. dev[Active] \in Devices
    BY <1>5 DEF IInv, Types
  <2> QED
    BY <1>5, <2>1, <2>2 DEF Devices, IInv, Types
<1>8. CallShape'
  BY <1>1, <1>2, <1>3 DEF IInv, CallShape, Sector
<1>9. DeviceShape'
  BY <1>2, <1>5, <1>6, <1>7 DEF IInv, DeviceShape
<1>10. WritesAreOurs'
  <2>1. \A d \in Drive : dev'[d].cmd = "write" => dev[d].cmd = "write"
    BY <1>6
  <2> QED
    BY <1>2, <1>3, <2>1 DEF IInv, WritesAreOurs, Ours
<1>11. InStep'
  <2> SUFFICES ASSUME ~ gaveup PROVE InStep'
    BY <1>2 DEF InStep
  <2>1. /\ ~ deaf /\ dev[Active].cmd = "write"
        /\ \A d \in Drive : dev[d].st \in {"busy", "drq"} /\ dev[d].data = {} => d = Active
    BY <1>1, <1>5 DEF IInv, InStep
  <2>2. \A d \in Drive : ~ (dev'[d].st \in {"busy", "drq"} /\ dev'[d].data = {})
    BY <1>6, <1>7, <2>1
  <2> QED
    BY <1>2, <1>3, <2>1, <2>2 DEF InStep
<1>12. StoreHolds'
  <2>1. ASSUME ~ deaf, ~ fault PROVE Believed(drives[selected + 1])'
    <3> DEFINE S == drives[selected + 1]
    <3>1. Believed(S) /\ S = Target
      BY <1>1, <2>1, SectorTarget DEF IInv, StoreHolds
    <3>2. Active = S /\ S \in Drive /\ unit[S[1]] = S[2]
      BY <1>1, <3>1, SectorTarget DEF Believed
    <3>3. dev[S].cmd = "write" /\ dev[S].lba = Here
      BY <1>1, <1>5, <3>1, <3>2 DEF Believed
    <3>4. Here \in Sectors
      BY <1>5, <3>2, <3>3 DEF IInv, DeviceShape
    <3>5. dev'[S].st = "busy" /\ dev'[S].data = {call.value} /\ dev'[S].lba = Here
      BY <1>7, <3>2, <3>3
    <3>6. \A l \in Sectors : disk[S][l] \in may[l]
      BY <1>1, <3>1 DEF Believed, Pending
    <3> QED
      BY <1>2, <1>3, <1>4, <3>2, <3>4, <3>5, <3>6 DEF Believed, Pending
  <2>2. selected >= 0 /\ selected \in Int
    BY <1>1, SectorTarget DEF IInv, Types
  <2> QED
    BY <1>2, <2>1, <2>2 DEF StoreHolds
<1> QED
  BY <1>8, <1>9, <1>10, <1>11, <1>12 DEF IInv

LEMMA WrittenKeepsIInv == ASSUME IInv, Types', Written PROVE IInv'
<1>1. call.op = "write" /\ call.pc = "flush" /\ Sector /\ "BSY" \notin Status(Active)
  BY DEF Written, IInv, CallShape, Sector
<1>2. UNCHANGED <<kind, unit, dev, disk, drives, selected, gaveup, deaf, fault>>
  BY DEF Written
<1>3. Return("write", call.at, call.value, TRUE)
  BY DEF Written
<1>4. call'.op = "none" /\ call'.pc = "idle"
  BY <1>3, NoCallIsCall DEF Return
<1>5. \A s \in Sectors : may'[s] = IF s # Here THEN may[s] ELSE {call.value}
  BY <1>3 DEF Return, Here
<1>6. CallShape'
  BY <1>4 DEF CallShape
<1>7. DeviceShape'
  BY <1>2 DEF IInv, DeviceShape
<1>8. WritesAreOurs'
  BY <1>2, <1>4 DEF IInv, WritesAreOurs, Ours, Sector
<1>9. InStep'
  <2>1. ~ gaveup => ~ deaf /\ \A d \in Drive : ~ (dev[d].st \in {"busy", "drq"} /\ dev[d].data = {})
    BY <1>1, NobodyWorks
  <2> QED
    BY <1>2, <1>4, <2>1 DEF InStep, Sector
<1>10. StoreHolds'
  <2>1. ASSUME ~ deaf, ~ fault PROVE Believed(drives[selected + 1])'
    <3> DEFINE S == drives[selected + 1]
    <3>1. Believed(S) /\ S = Target
      BY <1>1, <2>1, SectorTarget DEF IInv, StoreHolds
    <3>2. Active = S /\ S \in Drive
      BY <1>1, <3>1, SectorTarget DEF Believed
    <3>3. dev[S].st = "idle" /\ disk[S][Here] = call.value
      BY <1>1, <3>1, <3>2, BusyShows DEF Believed
    <3>4. \A l \in Sectors : disk[S][l] \in may'[l]
      BY <1>5, <3>1, <3>3 DEF Believed, Pending
    <3>5. dev[S].data = {}
      BY <3>2, <3>3 DEF IInv, DeviceShape
    <3> QED
      BY <1>2, <1>4, <3>4, <3>5 DEF Believed
  <2>2. selected >= 0 /\ selected \in Int
    BY <1>1, SectorTarget DEF IInv, Types
  <2> QED
    BY <1>2, <2>1, <2>2 DEF StoreHolds
<1> QED
  BY <1>6, <1>7, <1>8, <1>9, <1>10 DEF IInv

\* What a drive that ends its work changes.
LEMMA AnswerEffect ==
  ASSUME IInv, NEW a \in Drive, Answer(a)
  PROVE  /\ dev[a].st = "busy"
         /\ \A d \in Drive : d # a => dev'[d] = dev[d] /\ disk'[d] = disk[d]
         /\ \/ /\ dev'[a].st = "drq" /\ dev'[a].cmd = dev[a].cmd /\ dev'[a].lba = dev[a].lba
               /\ dev[a].data = {} /\ dev'[a].data = {} /\ disk' = disk
               /\ dev[a].cmd = "identify" \/ dev[a].lba \in Sectors
            \/ /\ dev'[a].st = "error" /\ dev'[a].cmd = "none" /\ dev'[a].data = {} /\ disk' = disk
               /\ call.pc = "flush" /\ dev[a].data # {} => fault'
            \/ /\ dev'[a].st = "idle" /\ dev'[a].cmd = "none" /\ dev'[a].data = {}
               /\ dev[a].data # {}
               /\ \A l \in Sectors : disk'[a][l] = disk[a][l]
                                     \/ (l = dev[a].lba /\ disk'[a][l] \in dev[a].data)
               /\ disk'[a][dev[a].lba] \in dev[a].data
<1>1. dev[a].st = "busy" /\ dev[a] \in Devices
  BY DEF Answer, IInv, Types
<1>2. PICK end \in {"drq", "error", "idle"} :
        /\ dev' = [dev EXCEPT ![a] = IF end = "drq" THEN [@ EXCEPT !.st = end]
                                    ELSE [Quiet EXCEPT !.st = end]]
        /\ end = "drq" => dev[a].data = {} /\ (dev[a].cmd = "identify" \/ dev[a].lba \in Sectors)
        /\ end = "idle" => dev[a].data # {}
        /\ disk' = IF end = "idle"
                     THEN [disk EXCEPT ![a][dev[a].lba] = CHOOSE v \in dev[a].data : TRUE]
                     ELSE disk
        /\ fault' = (fault \/ (end = "error" /\ dev[a].data # {} /\ call.pc = "flush"))
  BY DEF Answer
<1>3. \A d \in Drive : d # a => dev'[d] = dev[d] /\ disk'[d] = disk[d]
  BY <1>2 DEF IInv, Types
<1>4. CASE end = "drq"
  <2>1. dev'[a] = [dev[a] EXCEPT !.st = "drq"] /\ disk' = disk
    BY <1>2, <1>4 DEF IInv, Types
  <2>2. /\ dev'[a].st = "drq" /\ dev'[a].cmd = dev[a].cmd
        /\ dev'[a].lba = dev[a].lba /\ dev'[a].data = dev[a].data
    BY <1>1, <2>1 DEF Devices
  <2> QED
    BY <1>1, <1>2, <1>3, <1>4, <2>1, <2>2
<1>5. CASE end = "error"
  <2>1. dev'[a] = [Quiet EXCEPT !.st = "error"] /\ disk' = disk
    BY <1>2, <1>5 DEF IInv, Types
  <2>2. dev'[a].st = "error" /\ dev'[a].cmd = "none" /\ dev'[a].data = {}
    BY <2>1, QuietIsDevice
  <2>3. call.pc = "flush" /\ dev[a].data # {} => fault'
    BY <1>2, <1>5
  <2> QED
    BY <1>1, <1>3, <2>1, <2>2, <2>3
<1>6. CASE end = "idle"
  <2>1. dev'[a] = [Quiet EXCEPT !.st = "idle"]
    BY <1>2, <1>6 DEF IInv, Types
  <2>2. dev'[a].st = "idle" /\ dev'[a].cmd = "none" /\ dev'[a].data = {}
    BY <2>1, QuietIsDevice
  <2>3. dev[a].data # {} /\ dev[a].lba \in Sectors
    BY <1>2, <1>6 DEF IInv, DeviceShape
  <2>4. PICK w \in dev[a].data : w = CHOOSE v \in dev[a].data : TRUE
    BY <2>3
  <2>5. disk' = [disk EXCEPT ![a][dev[a].lba] = w] /\ disk[a] \in [Sectors -> Values]
    BY <1>2, <1>6, <2>4 DEF IInv, Types
  <2>6. \A l \in Sectors : disk'[a][l] = IF l = dev[a].lba THEN w ELSE disk[a][l]
    BY <2>5 DEF IInv, Types
  <2> QED
    BY <1>1, <1>3, <2>2, <2>3, <2>4, <2>6
<1> QED
  BY <1>2, <1>4, <1>5, <1>6

LEMMA AnswerKeepsIInv == ASSUME IInv, Types', NEW a \in Drive, Answer(a) PROVE IInv'
<1>1. UNCHANGED <<kind, unit, drives, selected, call, may, gaveup, deaf>>
  BY DEF Answer
<1>2. Target' = Target /\ Active' = Active /\ Here' = Here
  BY <1>1 DEF Target, Active, Here
<1>3. \A d \in Drive :
        \/ dev'[d] = dev[d]
        \/ /\ d = a /\ dev[d].st = "busy" /\ dev'[d].st = "drq" /\ dev'[d].cmd = dev[d].cmd
           /\ dev'[d].lba = dev[d].lba /\ dev[d].data = {} /\ dev'[d].data = {}
           /\ dev[d].cmd = "identify" \/ dev[d].lba \in Sectors
        \/ /\ d = a /\ dev[d].st = "busy" /\ dev'[d].st \in {"idle", "error"}
           /\ dev'[d].cmd = "none" /\ dev'[d].data = {}
  BY AnswerEffect
<1>4. call.op # "none" => Active \in Drive
  BY TargetIsDrive DEF IInv
<1>5. CallShape'
  BY <1>1 DEF IInv, CallShape
<1>6. DeviceShape'
  BY <1>1, <1>3 DEF IInv, DeviceShape
<1>7. WritesAreOurs'
  <2>1. \A d \in Drive : dev'[d].cmd = "write" => Ours(d)'
    BY <1>1, <1>3 DEF IInv, WritesAreOurs, Ours
  <2>2. Sector => Active \in Drive
    BY SectorTarget
  <2>3. Sector /\ call.pc = "select" => dev'[Active].st # "busy"
    BY <1>3, <2>2 DEF IInv, WritesAreOurs
  <2>4. Sector /\ call.pc = "command" => unit[Target[1]] = Target[2] \/ dev'[Active].st = "drq"
    BY <1>3, <2>2 DEF IInv, WritesAreOurs
  <2> QED
    BY <1>1, <1>2, <2>1, <2>3, <2>4 DEF WritesAreOurs, Sector
<1>8. InStep'
  <2> SUFFICES ASSUME ~ gaveup PROVE InStep'
    BY <1>1 DEF InStep
  <2>1. \A d \in Drive : dev'[d].st \in {"busy", "drq"} /\ dev'[d].data = {} =>
          call.pc \in {"poll", "drq"} /\ d = Active
    BY <1>3 DEF IInv, InStep
  <2>2. call.pc = "drq" /\ dev'[Active].st \in {"busy", "drq"} => dev'[Active].cmd = call.op
    BY <1>3, <1>4 DEF IInv, InStep, CallShape
  <2>3. Sector /\ call.pc = "command" => dev'[Active].st \in {"idle", "error"}
    BY <1>3, SectorTarget DEF IInv, InStep, Hears
  <2> QED
    BY <1>1, <1>2, <2>1, <2>2, <2>3 DEF IInv, InStep, Sector, Hears
<1>9. StoreHolds'
  <2>1. ASSUME selected >= 0, ~ deaf, ~ fault' PROVE Believed(drives[selected + 1])'
    <3> DEFINE S == drives[selected + 1]
    <3>1. ~ fault
      BY <2>1 DEF Answer
    <3>2. Believed(S) /\ S \in Drive
      BY <2>1, <3>1 DEF IInv, StoreHolds, Types
    <3>3. CASE S # a
      <4>1. dev'[S] = dev[S] /\ disk'[S] = disk[S]
        BY <3>2, <3>3, AnswerEffect
      <4> QED
        BY <1>1, <1>2, <3>2, <4>1 DEF Believed, Pending
    <3>4. CASE S = a /\ dev'[S].st = "drq"
      <4>1. /\ dev'[S].cmd = dev[S].cmd /\ dev'[S].lba = dev[S].lba /\ dev[S].st = "busy"
            /\ dev[S].data = {} /\ dev'[S].data = {} /\ disk' = disk
        BY <3>4, AnswerEffect
      <4>2. call.pc # "flush"
        BY <3>2, <4>1 DEF Believed
      <4> QED
        BY <1>1, <1>2, <3>2, <4>1, <4>2 DEF Believed, Pending
    <3>5. CASE S = a /\ dev'[S].st = "error"
      <4>1. /\ dev'[S].cmd = "none" /\ dev'[S].data = {} /\ dev[S].st = "busy" /\ disk' = disk
            /\ call.pc = "flush" => dev[S].data = {}
        BY <2>1, <3>5, AnswerEffect
      <4>2. call.pc # "flush"
        BY <3>2, <4>1 DEF Believed
      <4> QED
        BY <1>1, <1>2, <3>2, <3>5, <4>1, <4>2 DEF Believed, Pending
    <3>6. CASE S = a /\ dev'[S].st = "idle"
      <4>1. /\ dev'[S].data = {} /\ dev[S].st = "busy"
            /\ \A l \in Sectors : disk'[S][l] = disk[S][l]
                                  \/ (l = dev[S].lba /\ disk'[S][l] \in dev[S].data)
            /\ disk'[S][dev[S].lba] \in dev[S].data
        BY <3>6, AnswerEffect
      <4>2. call.pc = "flush" => Here \in Sectors /\ disk'[S][Here] = call.value
        BY <3>2, <4>1 DEF Believed
      <4>3. \A l \in Sectors : disk'[S][l] \in may[l] \/ Pending(l, disk'[S][l])
        BY <3>2, <4>1 DEF Believed
      <4> QED
        BY <1>1, <1>2, <3>2, <3>6, <4>1, <4>2, <4>3 DEF Believed, Pending
    <3> QED
      BY <3>2, <3>3, <3>4, <3>5, <3>6, AnswerEffect
  <2> QED
    BY <1>1, <2>1 DEF IInv, StoreHolds
<1> QED
  BY <1>5, <1>6, <1>7, <1>8, <1>9 DEF IInv

LEMMA AskKeepsIInv ==
  ASSUME IInv, Types', NEW op \in {"read", "write"}, NEW l \in Nat, NEW v \in Values, Ask(op, l, v)
  PROVE  IInv'
<1>1. call.pc = "idle" /\ UNCHANGED <<kind, unit, dev, disk, drives, selected, gaveup, deaf, fault>>
  BY DEF Ask
<1>2. \/ selected < 0 /\ Return(op, l, v, FALSE)
      \/ selected >= 0 /\ call' = Waiting(op, "bsy", l, v) /\ may' = may
  <2>1. selected < 0 => Return(op, l, v, FALSE)
    BY DEF Ask
  <2>2. ~ (selected < 0) => call' = Waiting(op, "bsy", l, v) /\ may' = may
    BY DEF Ask
  <2>3. selected < 0 \/ selected >= 0
    BY DEF IInv, Types
  <2>4. ~ (selected < 0) => selected >= 0
    BY <2>3
  <2> QED
    BY <2>1, <2>2, <2>4
<1>3. \/ call'.op = "none" /\ call'.pc = "idle"
      \/ selected >= 0 /\ call'.op \in {"read", "write"} /\ call'.pc = "bsy"
  BY <1>2, NoCallIsCall, WaitingIsCall DEF Return
<1>4. CallShape'
  BY <1>1, <1>3 DEF CallShape
<1>5. DeviceShape'
  BY <1>1 DEF IInv, DeviceShape
<1>6. WritesAreOurs'
  BY <1>1, <1>3 DEF IInv, WritesAreOurs, Ours, Sector
<1>7. InStep'
  <2>1. ~ gaveup => ~ deaf /\ \A d \in Drive : ~ (dev[d].st \in {"busy", "drq"} /\ dev[d].data = {})
    BY <1>1, NobodyWorks
  <2> QED
    BY <1>1, <1>3, <2>1 DEF InStep, Sector
<1>8. StoreHolds'
  <2>1. CASE selected < 0
    <3>1. \A s \in Sectors : may[s] = Values
      BY <2>1 DEF IInv, StoreHolds
    <3>2. Return(op, l, v, FALSE)
      BY <2>1 DEF Ask
    <3>3. \A s \in Sectors : may'[s] = may[s] \/ may'[s] = may[s] \cup {v}
      BY <3>2 DEF Return
    <3>4. \A s \in Sectors : may'[s] = Values
      BY <3>1, <3>3
    <3>5. ~ (selected >= 0)
      BY <2>1 DEF IInv, Types
    <3> QED
      BY <1>1, <3>4, <3>5 DEF StoreHolds
  <2>2. CASE selected >= 0
    <3>1. may' = may /\ call'.pc = "bsy" /\ ~ (selected < 0)
      <4>1. ~ (selected < 0)
        BY <2>2 DEF IInv, Types
      <4>2. call' = Waiting(op, "bsy", l, v) /\ may' = may
        BY <1>2, <4>1
      <4> QED
        BY <4>1, <4>2, WaitingIsCall
    <3>2. ASSUME ~ deaf, ~ fault PROVE Believed(drives[selected + 1])'
      <4>1. Believed(drives[selected + 1])
        BY <2>2, <3>2 DEF IInv, StoreHolds
      <4> QED
        BY <1>1, <3>1, <4>1 DEF Believed, Pending
    <3> QED
      BY <1>1, <3>1, <3>2 DEF StoreHolds
  <2> QED
    BY <2>1, <2>2 DEF IInv, Types
<1> QED
  BY <1>4, <1>5, <1>6, <1>7, <1>8 DEF IInv

LEMMA NextKeepsIInv == IInv /\ [Next]_vars => IInv'
<1> SUFFICES ASSUME IInv, [Next]_vars PROVE IInv'
  OBVIOUS
<1>1. Types'
  BY TypesKept DEF IInv
<1>2. CASE Driver
  BY <1>1, <1>2, SelectKeepsIInv, IdentifyKeepsIInv, IdentifyPollKeepsIInv, ChooseKeepsIInv,
     FreeKeepsIInv, IssueKeepsIInv, WaitMoreKeepsIInv, WaitEndsKeepsIInv, ReadDataKeepsIInv,
     WriteDataKeepsIInv, WrittenKeepsIInv DEF Driver
<1>3. ASSUME NEW d \in Drive, Answer(d) PROVE IInv'
  BY <1>1, <1>3, AnswerKeepsIInv
<1>4. ASSUME NEW op \in {"read", "write"}, NEW l \in Lbas, NEW v \in Values, Ask(op, l, v)
      PROVE  IInv'
  BY <1>1, <1>4, AtaAssumption, AskKeepsIInv
<1>5. CASE UNCHANGED vars
  <2>1. UNCHANGED <<kind, unit, dev, disk, drives, selected, call, may, gaveup, deaf, fault>>
    BY <1>5 DEF vars, drivers, history
  <2>2. /\ Target' = Target /\ Active' = Active /\ Here' = Here /\ (Sector <=> Sector')
        /\ CallShape' /\ DeviceShape'
    BY <2>1 DEF Target, Active, Here, Sector, IInv, CallShape, DeviceShape
  <2>3. WritesAreOurs'
    BY <2>1, <2>2 DEF IInv, WritesAreOurs, Ours
  <2>4. InStep'
    BY <2>1, <2>2 DEF IInv, InStep, Hears
  <2>5. StoreHolds'
    BY <2>1, <2>2 DEF IInv, StoreHolds, Believed, Pending
  <2> QED
    BY <1>1, <2>2, <2>3, <2>4, <2>5 DEF IInv
<1> QED
  BY <1>2, <1>3, <1>4, <1>5, AtaAssumption DEF Next

-----------------------------------------------------------------------------
(***************************************************************************)
(* The inductive invariant: where a call may be, what the drives may be at *)
(* work on, and what is known of the selected drive's sectors.             *)
(***************************************************************************)
THEOREM Invariance == Spec => []IInv
<1>1. Init => IInv
  BY InitIInv
<1>2. IInv /\ [Next]_vars => IInv'
  BY NextKeepsIInv
<1> QED
  BY <1>1, <1>2, PTL DEF Spec

(***************************************************************************)
(* Type correctness of the driver and its drives: the number of the        *)
(* selected drive is one of the table's, every countdown stays in range.   *)
(***************************************************************************)
THEOREM TypeCorrectness == Spec => []TypeOK
<1>1. IInv => TypeOK
  <2> SUFFICES ASSUME IInv PROVE TypeOK
    OBVIOUS
  <2>1. /\ kind \in Machines /\ unit \in [{1, 2} -> {0, 1}]
        /\ disk \in [Drive -> [Sectors -> Values]] /\ may \in [Sectors -> SUBSET Values]
        /\ selected \in -1..(Len(drives) - 1)
    BY DEF IInv, Types
  <2>2. \A d \in Drive :
          /\ dev[d].st \in {"idle", "busy", "drq", "error"} /\ dev[d].lba \in 0..(Bits28 - 1)
          /\ dev[d].st \in {"busy", "drq"} => kind[d] # "none"
          /\ dev[d].data # {} => dev[d].cmd = "write" /\ dev[d].lba \in Sectors
    <3>1. \A d \in Drive : dev[d] \in Devices
      BY DEF IInv, Types
    <3> QED
      BY <3>1 DEF IInv, DeviceShape, Devices
  <2>3. Len(drives) <= Len(Places) /\ \A k \in DOMAIN drives : drives[k] \in Drive
    BY DrivePlaces DEF IInv, Types
  <2>4. call.timeout \in 0..Polls /\ call.value \in Values
    BY DEF IInv, Types, CallRecords
  <2> QED
    BY <2>1, <2>2, <2>3, <2>4 DEF TypeOK
<1> QED
  BY <1>1, Invariance, PTL

(***************************************************************************)
(* The driver writes to a drive that does not hear it only after it has    *)
(* given up waiting for data.                                              *)
(***************************************************************************)
THEOREM EveryCommandIsHeard == Spec => []CommandsAreHeard
<1>1. IInv => CommandsAreHeard
  BY DEF IInv, InStep, CommandsAreHeard
<1> QED
  BY <1>1, Invariance, PTL

(***************************************************************************)
(* Only the selected drive is ever written to, whatever drives answer and  *)
(* whatever the driver has given up.                                       *)
(***************************************************************************)
THEOREM OtherDrivesAreSafe == Spec => WritesStayOnDrive
<1> DEFINE Stays == \A d \in Drive : disk'[d] # disk[d] => selected >= 0 /\ d = drives[selected + 1]
<1>1. IInv /\ [Next]_vars => [Stays]_vars
  <2> SUFFICES ASSUME IInv, Next PROVE Stays
    OBVIOUS
  <2>1. CASE Driver \/ \E l \in Lbas : Ask("read", l, 0) \/ \E v \in Values : Ask("write", l, v)
    <3>1. disk' = disk
      BY <2>1 DEF Driver, Select, Identify, IdentifyPoll, Choose, Free, Issue, WaitMore, WaitEnds,
                  ReadData, WriteData, Written, Ask
    <3> QED
      BY <3>1
  <2>2. ASSUME NEW a \in Drive, Answer(a) PROVE Stays
    <3> SUFFICES ASSUME NEW d \in Drive, disk'[d] # disk[d]
                 PROVE  selected >= 0 /\ d = drives[selected + 1]
      OBVIOUS
    <3>1. d = a /\ (disk' = disk \/ dev[a].data # {})
      BY <2>2, AnswerEffect
    <3>2. dev[d].cmd = "write"
      BY <3>1 DEF IInv, DeviceShape
    <3> QED
      BY <3>2 DEF IInv, WritesAreOurs, Ours
  <2> QED
    BY <2>1, <2>2 DEF Next
<1> QED
  BY <1>1, Invariance, PTL DEF Spec, WritesStayOnDrive

\* A call that fails, and one that cannot even begin.
LEMMA FailureFails ==
  ASSUME IInv, NEW op, NEW l \in Nat, NEW v \in Values, Return(op, l, v, FALSE)
  PROVE  Store!Next
<1> DEFINE r == [op |-> op, lba |-> l % Bits28, value |-> v, ok |-> FALSE]
<1>1. reply' = {r} /\ r.op = op /\ r.lba = l % Bits28 /\ r.value = v /\ ~ r.ok
  BY DEF Return
<1>2. \A s \in Sectors :
        may'[s] = IF op = "write" /\ s = l % Bits28 THEN may[s] \cup {v} ELSE may[s]
  BY DEF Return
<1> HIDE DEF r
<1>3. Store!Fail
  BY <1>1, <1>2 DEF Store!Fail
<1> QED
  BY <1>3 DEF Store!Next

LEMMA StepIsStoreStep ==
  ASSUME IInv, Next, ~ deaf', ~ fault'
  PROVE  Store!Next \/ UNCHANGED <<reply, may>>
<1>1. CASE Select \/ Identify \/ IdentifyPoll \/ Choose \/ Free \/ Issue \/ WaitMore \/ WriteData
  BY <1>1 DEF Select, Identify, IdentifyPoll, Choose, Free, Issue, WaitMore, WriteData, history
<1>2. CASE WaitEnds
  <2>1. CASE call.op = "choose"
    BY <1>2, <2>1 DEF WaitEnds
  <2>2. CASE call.op # "choose"
    <3>1. Return(call.op, call.at, call.value, FALSE)
      BY <1>2, <2>2 DEF WaitEnds
    <3>2. call.at \in Nat /\ call.value \in Values
      BY DEF IInv, Types, CallRecords
    <3> QED
      BY <3>1, <3>2, FailureFails
  <2> QED
    BY <2>1, <2>2
<1>3. CASE ReadData
  <2>1. call.op = "read" /\ call.pc = "drq" /\ Sector /\ "DRQ" \in Status(Active)
        /\ ~ deaf /\ ~ fault
    BY <1>3 DEF ReadData, Sector
  <2>2. PICK v \in Values : /\ dev[Active].cmd = "read" => v = disk[Active][dev[Active].lba]
                            /\ Return("read", call.at, v, TRUE)
    BY <1>3 DEF ReadData
  <2> DEFINE S == drives[selected + 1]
  <2>3. Believed(S) /\ S = Target
    BY <2>1, SectorTarget DEF IInv, StoreHolds
  <2>4. Active = S /\ S \in Drive
    BY <2>1, <2>3, SectorTarget DEF Believed
  <2>5. dev[S].st = "drq" /\ dev[S].cmd = "read" /\ dev[S].lba = Here
    BY <2>1, <2>3, <2>4, BusyShows DEF Believed
  <2>6. Here \in Sectors /\ v = disk[S][Here]
    BY <2>2, <2>4, <2>5 DEF IInv, DeviceShape
  <2>7. v \in may[Here]
    BY <2>1, <2>3, <2>6 DEF Believed, Pending
  <2>8. reply' = Store!Reply("read", Here, v, TRUE) /\ may' = [may EXCEPT ![Here] = {v}]
    BY <2>2, <2>6 DEF Return, Here, Store!Reply, IInv, Types
  <2>9. Store!Read(Here, v)
    BY <2>7, <2>8 DEF Store!Read
  <2> QED
    BY <2>6, <2>9 DEF Store!Next
<1>4. CASE Written
  <2>1. Return("write", call.at, call.value, TRUE) /\ call.pc = "flush" /\ Sector /\ ~ deaf /\ ~ fault
    BY <1>4 DEF Written, IInv, CallShape, Sector
  <2>2. Here \in Sectors /\ call.value \in Values
    BY <2>1, SectorTarget DEF IInv, StoreHolds, Believed
  <2>3. /\ reply' = Store!Reply("write", Here, call.value, TRUE)
        /\ may' = [may EXCEPT ![Here] = {call.value}]
    BY <2>1, <2>2 DEF Return, Here, Store!Reply, IInv, Types
  <2>4. Store!Write(Here, call.value)
    BY <2>3 DEF Store!Write
  <2> QED
    BY <2>2, <2>4 DEF Store!Next
<1>5. ASSUME NEW a \in Drive, Answer(a) PROVE UNCHANGED <<reply, may>>
  BY <1>5 DEF Answer
<1>6. ASSUME NEW op \in {"read", "write"}, NEW l \in Lbas, NEW v \in Values, Ask(op, l, v)
      PROVE  Store!Next
  <2>1. CASE selected < 0
    <3>1. Return(op, l, v, FALSE) /\ l \in Nat
      BY <1>6, <2>1, AtaAssumption DEF Ask
    <3> QED
      BY <3>1, FailureFails
  <2>2. CASE ~ (selected < 0)
    BY <1>6, <2>2 DEF Ask, Store!Next, Store!Begin
  <2> QED
    BY <2>1, <2>2
<1> QED
  BY <1>1, <1>2, <1>3, <1>4, <1>5, <1>6, AtaAssumption DEF Next, Driver

(***************************************************************************)
(* The driver implements SectorStore, for every disk and every sector:     *)
(* what is read with success was written last, as long as every command    *)
(* was heard and no write ended in an error that was not looked at.        *)
(***************************************************************************)
THEOREM SectorsReadBack == Spec => ImplementsSectorStore
<1>1. IInv /\ [Next]_vars => [~ deaf' /\ ~ fault' => Store!Next]_<<reply, may>>
  <2> SUFFICES ASSUME IInv, [Next]_vars, ~ deaf', ~ fault'
               PROVE  Store!Next \/ UNCHANGED <<reply, may>>
    OBVIOUS
  <2>1. CASE Next
    BY <2>1, StepIsStoreStep
  <2>2. CASE UNCHANGED vars
    BY <2>2 DEF vars, history
  <2> QED
    BY <2>1, <2>2
<1> QED
  BY <1>1, Invariance, PTL DEF Spec, ImplementsSectorStore

-----------------------------------------------------------------------------
\* The table as the recursive definition has it.
LEMMA ListedIs ==
  /\ Listed[0] = <<>>
  /\ \A k \in 1..4 : Listed[k] = IF kind[Places[k]] \in {"disk", "empty"}
                                   THEN Append(Listed[k - 1], Places[k]) ELSE Listed[k - 1]
<1> DEFINE Step(l, k) == IF kind[Places[k]] \in {"disk", "empty"} THEN Append(l, Places[k]) ELSE l
           l1 == Step(<<>>, 1)
           l2 == Step(l1, 2)
           l3 == Step(l2, 3)
           l4 == Step(l3, 4)
           f == [k \in 0..4 |-> IF k = 0 THEN <<>> ELSE IF k = 1 THEN l1 ELSE IF k = 2 THEN l2
                                ELSE IF k = 3 THEN l3 ELSE l4]
           Is(g) == g = [k \in 0..4 |-> IF k = 0 THEN <<>> ELSE Step(g[k - 1], k)]
<1>1. \A k \in 0..4 : f[k] = IF k = 0 THEN <<>> ELSE Step(f[k - 1], k)
  <2>1. f[0] = <<>> /\ f[1] = Step(f[0], 1) /\ f[2] = Step(f[1], 2)
        /\ f[3] = Step(f[2], 3) /\ f[4] = Step(f[3], 4)
    <3> HIDE DEF Step
    <3> QED
      OBVIOUS
  <2>2. 0..4 = {0, 1, 2, 3, 4}
    OBVIOUS
  <2> HIDE DEF f, Step
  <2> QED
    BY <2>1, <2>2
<1>2. f = [k \in 0..4 |-> f[k]]
  OBVIOUS
<1> HIDE DEF f
<1>3. Is(f)
  <2>1. [k \in 0..4 |-> f[k]] = [k \in 0..4 |-> IF k = 0 THEN <<>> ELSE Step(f[k - 1], k)]
    BY <1>1
  <2> QED
    BY <1>2, <2>1
<1>4. Listed = CHOOSE g : Is(g)
  BY DrivePlaces DEF Listed
<1> HIDE DEF Is
<1>5. Is(Listed)
  BY <1>3, <1>4
<1>6. \A k \in 0..4 : Listed[k] = IF k = 0 THEN <<>> ELSE Step(Listed[k - 1], k)
  <2>1. Listed = [k \in 0..4 |-> IF k = 0 THEN <<>> ELSE Step(Listed[k - 1], k)]
    BY <1>5 DEF Is
  <2> QED
    BY <2>1
<1> QED
  BY <1>6

LEMMA ListedKept == kind' = kind => Listed' = Listed
BY DEF Listed


(***************************************************************************)
(* The table during and after the detection: what is known of the places   *)
(* behind it, of the place that is asked, and of the chosen drive.         *)
(***************************************************************************)
Done == IF call.op = "detect" THEN call.at - 1 ELSE 4

Early ==
  selected < 0 =>
    \A d \in Drive : /\ dev[d].st \in {"busy", "drq"} => dev[d].cmd = "identify"
                     /\ kind[d] = "empty" => dev[d].st # "error"
Offers == \A d \in Drive : dev[d].st = "drq" => kind[d] \in {"disk", "empty"}
Asked ==
  /\ call.op \in {"detect", "choose"} /\ call.pc \in {"command", "poll", "bsy"} =>
       unit[Target[1]] = Target[2]
  /\ call.pc = "poll" => /\ kind[Target] # "none" /\ dev[Target].st # "idle"
                         /\ dev[Target].st = "error" => kind[Target] = "atapi"
Chosen == selected >= 0 => selected = 0 /\ kind[drives[1]] = "disk"

Listing == Early /\ Offers /\ (~ gaveup => drives = Listed[Done] /\ Asked /\ Chosen)

LEMMA InitListing == Init => Listing
<1> SUFFICES ASSUME Init PROVE Listing
  OBVIOUS
<1>1. call.op = "detect" /\ call.pc = "select" /\ call.at = 1
  BY DEF Init, Waiting
<1>2. \A d \in Drive : dev[d].st = "idle"
  BY DEF Init, Quiet
<1>3. drives = <<>> /\ selected = -1
  BY DEF Init
<1> QED
  BY <1>1, <1>2, <1>3, ListedIs DEF Listing, Early, Offers, Asked, Chosen, Done

\* The detection goes on to the next place, or is over.
LEMMA NextPlaceDone ==
  ASSUME Types, CallShape, call.op = "detect", NEW table, NextPlace(table)
  PROVE  drives' = table /\ Done' = call.at /\ call'.pc \notin {"command", "poll", "bsy"}
<1>1. call.at \in 1..4 /\ 0 \in Values
  BY AtaAssumption DEF CallShape
<1>2. CASE call.at < 4
  <2>1. call' = Waiting("detect", "select", call.at + 1, 0)
    BY <1>2, DrivePlaces DEF NextPlace
  <2>2. call'.op = "detect" /\ call'.pc = "select" /\ call'.at = call.at + 1
    BY <2>1 DEF Waiting
  <2> QED
    BY <1>1, <2>2 DEF NextPlace, Done
<1>3. CASE call.at = 4
  <2>1. call' = NoCall \/ call' = Waiting("choose", "select", 0, 0)
    BY <1>3, DrivePlaces DEF NextPlace
  <2>2. call'.op \in {"none", "choose"} /\ call'.pc \in {"idle", "select"}
    BY <2>1 DEF Waiting, NoCall
  <2> QED
    BY <1>3, <2>2 DEF NextPlace, Done
<1> QED
  BY <1>1, <1>2, <1>3

\* A step that does not concern the detection.
LEMMA AfterDetection ==
  ASSUME IInv, Listing, kind' = kind, drives' = drives, selected' = selected,
         ~ gaveup' => ~ gaveup, call.op # "detect", call'.op # "detect",
         call'.op = "choose" /\ call'.pc = "bsy" =>
           (~ gaveup' => unit'[Target'[1]] = Target'[2]),
         call'.pc \notin {"poll", "command"} \/ call'.op \notin {"detect", "choose"},
         call'.pc # "poll", Early', Offers'
  PROVE  Listing'
<1>1. Done' = Done /\ Listed' = Listed
  BY ListedKept DEF Done
<1> SUFFICES ASSUME ~ gaveup' PROVE drives' = Listed'[Done'] /\ Asked' /\ Chosen'
  BY DEF Listing
<1>2. Asked'
  BY DEF Asked
<1>3. Chosen'
  BY DEF Listing, Chosen
<1> QED
  BY <1>1, <1>2, <1>3 DEF Listing

\* A write to a register is heard as long as no wait was given up.
LEMMA StillHears ==
  ASSUME IInv, ~ gaveup, call.op # "none", call.pc \notin {"poll", "drq"}, selected = -1
  PROVE  Hears /\ Active \in Drive
<1>1. Active \in Drive
  BY TargetIsDrive DEF IInv
<1>2. dev[Active].st \notin {"busy", "drq"}
  BY <1>1, NobodyWorks, NothingWritten
<1> QED
  BY <1>1, <1>2, BusyShows DEF Hears

LEMMA SelectLists == ASSUME IInv, Listing, Select PROVE Listing'
<1>1. /\ call.pc = "select" /\ call.op \in {"detect", "choose", "read", "write"}
      /\ call' = [call EXCEPT !.pc = IF call.op = "choose" THEN "bsy" ELSE "command"]
  BY DEF Select, IInv, CallShape, Types, CallRecords
<1>2. /\ call'.op = call.op /\ call'.at = call.at
      /\ call'.pc = IF call.op = "choose" THEN "bsy" ELSE "command"
  BY <1>1, CallGoesOn DEF IInv, Types
<1>3. UNCHANGED <<kind, dev, drives, selected, gaveup>>
  BY DEF Select
<1>4. Early' /\ Offers'
  BY <1>3 DEF Listing, Early, Offers
<1>5. Target' = Target /\ Done' = Done /\ Listed' = Listed
  BY <1>2, <1>3, ListedKept DEF Target, Done
<1>6. ASSUME ~ gaveup, call.op \in {"detect", "choose"} PROVE unit'[Target[1]] = Target[2]
  <2>1. selected = -1
    BY <1>6 DEF IInv, CallShape
  <2>2. Hears
    BY <1>1, <1>6, <2>1, StillHears
  <2>3. Target[1] \in {1, 2}
    BY <1>1, TargetIsDrive DEF IInv
  <2> QED
    BY <2>2, <2>3 DEF Select, SelectUnit, IInv, Types
<1> SUFFICES ASSUME ~ gaveup' PROVE drives' = Listed'[Done'] /\ Asked' /\ Chosen'
  BY <1>4 DEF Listing
<1>7. Asked'
  BY <1>2, <1>3, <1>5, <1>6 DEF Asked
<1> QED
  BY <1>3, <1>5, <1>7 DEF Listing, Chosen

LEMMA IdentifyLists == ASSUME IInv, Listing, Identify PROVE Listing'
<1>1. /\ call.op = "detect" /\ call.pc = "command" /\ call.at \in 1..4 /\ selected = -1
      /\ Command("identify", 0) /\ 0 \in Nat
  BY DEF Identify, IInv, CallShape, Types
<1>2. UNCHANGED <<kind, unit, selected, gaveup>>
  BY DEF Identify
<1>3. Active \in Drive /\ Target \in Drive /\ (unit[Target[1]] = Target[2] => Active = Target)
  BY <1>1, TargetIsDrive DEF IInv
<1>4. /\ \A d \in Drive : dev'[d] # dev[d] => dev'[d].st = "busy" /\ dev'[d].cmd = "identify"
      /\ Hears /\ kind[Active] # "none" => dev'[Active].st = "busy"
  BY <1>1, CommandEffect DEF IInv
<1>5. Early' /\ Offers'
  BY <1>2, <1>4 DEF Listing, Early, Offers
<1> SUFFICES ASSUME ~ gaveup' PROVE drives' = Listed'[Done'] /\ Asked' /\ Chosen'
  BY <1>5 DEF Listing
<1>6. Hears
  BY <1>1, <1>2, StillHears
<1>7. Active = Target /\ drives = Listed[Done] /\ Listed' = Listed
  BY <1>1, <1>2, <1>3, ListedKept DEF Listing, Asked
<1>8. Chosen'
  BY <1>1, <1>2 DEF Chosen
<1>9. CASE Status(Active) = {}
  <2>1. NextPlace(drives)
    BY <1>9 DEF Identify
  <2>2. drives' = drives /\ Done' = call.at /\ call'.pc \notin {"command", "poll", "bsy"}
    BY <1>1, <2>1, NextPlaceDone DEF IInv
  <2>3. kind[Active] = "none"
    <3>1. dev[Active].st \in {"idle", "error"}
      BY <1>6 DEF Hears
    <3> QED
      BY <1>9, <3>1 DEF Status
  <2>4. Listed[call.at] = Listed[call.at - 1] /\ Done = call.at - 1
    BY <1>1, <1>7, <2>3, ListedIs DEF Target, Done
  <2> QED
    BY <1>7, <1>8, <2>2, <2>4 DEF Asked
<1>10. CASE Status(Active) # {}
  <2>1. drives' = drives /\ call' = [call EXCEPT !.pc = "poll"]
    BY <1>10 DEF Identify
  <2>2. call'.op = call.op /\ call'.pc = "poll" /\ call'.at = call.at
    BY <2>1, CallGoesOn DEF IInv, Types
  <2>3. kind[Active] # "none"
    BY <1>10 DEF Status
  <2>4. Done' = Done /\ Target' = Target
    BY <1>1, <2>2 DEF Done, Target
  <2>5. dev'[Target].st = "busy" /\ unit[Target[1]] = Target[2]
    BY <1>1, <1>2, <1>4, <1>6, <1>7, <2>3 DEF Listing, Asked
  <2> QED
    BY <1>2, <1>7, <1>8, <2>1, <2>2, <2>3, <2>4, <2>5 DEF Asked
<1> QED
  BY <1>9, <1>10


\* Every drive of the table is a disk, with or without a medium.
LEMMA TableLists ==
  ASSUME Types
  PROVE  \A k \in 0..4 : /\ Listed[k] \in Seq(Drive)
                         /\ \A j \in 1..Len(Listed[k]) : kind[Listed[k][j]] \in {"disk", "empty"}
<1> DEFINE P(l) == l \in Seq(Drive) /\ \A j \in 1..Len(l) : kind[l[j]] \in {"disk", "empty"}
<1>1. \A k \in 1..4 : Places[k] \in Drive
  BY DrivePlaces
<1>2. P(Listed[0])
  BY ListedIs
<1>3. ASSUME NEW k \in 1..4, P(Listed[k - 1]) PROVE P(Listed[k])
  <2>1. \A l \in Seq(Drive), d \in Drive :
          /\ Append(l, d) \in Seq(Drive) /\ Len(Append(l, d)) = Len(l) + 1
          /\ \A j \in 1..(Len(l) + 1) : Append(l, d)[j] = IF j = Len(l) + 1 THEN d ELSE l[j]
    OBVIOUS
  <2>2. ASSUME kind[Places[k]] \in {"disk", "empty"} PROVE P(Append(Listed[k - 1], Places[k]))
    <3> DEFINE l == Listed[k - 1]
               d == Places[k]
    <3>1. l \in Seq(Drive) /\ d \in Drive /\ kind[d] \in {"disk", "empty"} /\ Len(l) \in Nat
          /\ \A j \in 1..Len(l) : kind[l[j]] \in {"disk", "empty"}
      BY <1>1, <1>3, <2>2
    <3> HIDE DEF l, d
    <3>2. P(Append(l, d))
      BY <2>1, <3>1
    <3> QED
      BY <3>2 DEF l, d
  <2>3. Listed[k] = IF kind[Places[k]] \in {"disk", "empty"}
                      THEN Append(Listed[k - 1], Places[k]) ELSE Listed[k - 1]
    BY ListedIs
  <2> HIDE DEF P
  <2> QED
    BY <1>3, <2>2, <2>3
<1>4. 0..4 = {0, 1, 2, 3, 4} /\ 1 - 1 = 0 /\ 2 - 1 = 1 /\ 3 - 1 = 2 /\ 4 - 1 = 3
  OBVIOUS
<1> HIDE DEF P
<1>5. P(Listed[0]) /\ P(Listed[1]) /\ P(Listed[2]) /\ P(Listed[3]) /\ P(Listed[4])
  BY <1>2, <1>3, <1>4
<1>6. \A k \in 0..4 : P(Listed[k])
  BY <1>4, <1>5
<1> QED
  BY <1>6 DEF P


LEMMA IdentifyPollLists == ASSUME IInv, Listing, IdentifyPoll PROVE Listing'
<1>1. call.op = "detect" /\ call.pc = "poll" /\ call.at \in 1..4 /\ selected = -1
  BY IdentifyPollEffect DEF IdentifyPoll, IInv
<1>2. UNCHANGED <<kind, unit, selected>>
  BY DEF IdentifyPoll
<1>3. Active \in Drive /\ Target \in Drive /\ (unit[Target[1]] = Target[2] => Active = Target)
  BY <1>1, TargetIsDrive DEF IInv
<1>4. dev' = dev \/ dev' = [dev EXCEPT ![Active] = Quiet]
  BY IdentifyPollEffect DEF IInv
<1>5. \A d \in Drive : dev'[d] = dev[d] \/ dev'[d] = Quiet
  BY <1>4 DEF IInv, Types
<1>6. Early' /\ Offers'
  BY <1>1, <1>2, <1>5, QuietIsDevice DEF Listing, Early, Offers
<1> SUFFICES ASSUME ~ gaveup' PROVE drives' = Listed'[Done'] /\ Asked' /\ Chosen'
  BY <1>6 DEF Listing
<1>7. ~ gaveup
  <2>1. gaveup' = gaveup \/ gaveup' = (gaveup \/ ~ Hears)
    BY IdentifyPollEffect DEF IInv
  <2> QED
    BY <2>1 DEF IInv, Types
<1>8. /\ Active = Target /\ drives = Listed[Done] /\ Listed' = Listed
      /\ kind[Target] # "none" /\ dev[Target].st # "idle"
      /\ dev[Target].st = "error" => kind[Target] = "atapi"
      /\ dev[Target].st = "drq" => kind[Target] \in {"disk", "empty"}
      /\ Done = call.at - 1 /\ Target = Places[call.at]
  BY <1>1, <1>2, <1>3, <1>7, ListedKept DEF Listing, Asked, Offers, Done, Target
<1>9. Chosen'
  BY <1>1, <1>2 DEF Chosen
<1>10. ASSUME NEW t, NextPlace(t)
       PROVE  drives' = t /\ Done' = call.at /\ Asked'
  BY <1>1, <1>10, NextPlaceDone DEF IInv, Asked
<1>11. dev[Target].st = "error" => Listed[call.at] = drives
  BY <1>1, <1>8, ListedIs
<1>12. CASE dev' = dev /\ drives' = drives /\ call' = [call EXCEPT !.timeout = @ - 1] /\ call.timeout > 0
  <2>1. call'.op = call.op /\ call'.pc = call.pc /\ call'.at = call.at
    BY <1>12, CallGoesOn DEF IInv, Types
  <2>2. Done' = Done /\ Target' = Target
    BY <1>1, <2>1 DEF Done, Target
  <2> QED
    BY <1>2, <1>7, <1>8, <1>9, <1>12, <2>1, <2>2 DEF Listing, Asked
<1>13. CASE NextPlace(drives) /\ "ERR" \in Status(Active)
  <2>1. dev[Target].st = "error"
    BY <1>3, <1>8, <1>13, BusyShows
  <2> QED
    BY <1>8, <1>9, <1>10, <1>11, <1>13, <2>1
<1>14. CASE NextPlace(drives) /\ gaveup' = (gaveup \/ ~ Hears)
  <2>1. dev[Target].st = "error"
    BY <1>8, <1>14 DEF Hears
  <2> QED
    BY <1>8, <1>9, <1>10, <1>11, <1>14, <2>1
<1>15. CASE NextPlace(Append(drives, Target)) /\ "DRQ" \in Status(Active)
  <2>1. kind[Target] \in {"disk", "empty"}
    BY <1>3, <1>8, <1>15, BusyShows
  <2>2. Listed[call.at] = Append(drives, Target)
    BY <1>1, <1>8, <2>1, ListedIs
  <2> QED
    BY <1>8, <1>9, <1>10, <1>15, <2>2
<1> QED
  BY <1>12, <1>13, <1>14, <1>15 DEF IdentifyPoll

LEMMA ChooseLists == ASSUME IInv, Listing, Choose PROVE Listing'
<1>1. /\ call.op = "choose" /\ call.pc = "bsy" /\ call.at = 0 /\ selected = -1
      /\ Len(drives) > 0 /\ drives \in Seq(Drive) /\ "BSY" \notin Status(Active)
  BY DEF Choose, IInv, CallShape, Types
<1>2. UNCHANGED <<kind, unit, dev, drives, gaveup>>
  BY DEF Choose, history
<1>3. call' = NoCall /\ selected' = IF "DRDY" \in Status(Active) THEN 0 ELSE -1
  BY <1>1 DEF Choose
<1>4. call'.op = "none" /\ call'.pc = "idle"
  BY <1>3, NoCallIsCall
<1>5. Early' /\ Offers'
  BY <1>1, <1>2 DEF Listing, Early, Offers
<1> SUFFICES ASSUME ~ gaveup' PROVE drives' = Listed'[Done'] /\ Asked' /\ Chosen'
  BY <1>5 DEF Listing
<1>6. drives = Listed[4] /\ Listed' = Listed /\ Done' = 4
  BY <1>1, <1>2, <1>4, ListedKept DEF Listing, Done
<1>7. Active = drives[1] /\ Active \in Drive
  <2>1. Target = drives[1]
    BY <1>1 DEF Target
  <2>2. unit[Target[1]] = Target[2]
    BY <1>1, <1>2 DEF Listing, Asked
  <2> QED
    BY <1>1, <2>1, <2>2, TargetIsDrive DEF IInv
<1>8. kind[drives[1]] \in {"disk", "empty"}
  BY <1>1, <1>6, TableLists DEF IInv
<1>9. dev[Active].st \notin {"busy", "drq"}
  BY <1>1, <1>2, <1>7, NobodyWorks, NothingWritten
<1>10. "DRDY" \in Status(Active) => kind[Active] = "disk"
  <2>1. dev[Active].st \in {"idle", "error"}
    BY <1>7, <1>9, BusyShows
  <2>2. kind[Active] = "empty" => dev[Active].st = "idle"
    BY <1>1, <1>7, <2>1 DEF Listing, Early
  <2> QED
    BY <1>7, <1>8, <2>1, <2>2 DEF Status
<1> QED
  BY <1>2, <1>3, <1>4, <1>6, <1>7, <1>10 DEF Asked, Chosen

\* A call for a sector goes on or returns.
LEMMA SectorLists ==
  ASSUME IInv, Listing, UNCHANGED <<kind, drives, selected>>, ~ gaveup' => ~ gaveup,
         call.op # "detect", call.op # "choose", call'.op = "none" \/ call'.op = call.op, call'.pc # "poll",
         Early', Offers'
  PROVE  Listing'
BY AfterDetection

LEMMA CallsKeepOp ==
  ASSUME IInv
  PROVE  /\ \A pc \in {"idle", "select", "command", "poll", "bsy", "drq", "flush"} :
              LET c == [call EXCEPT !.pc = pc] e == [call EXCEPT !.pc = pc, !.timeout = Polls]
              IN  c.op = call.op /\ c.pc = pc /\ e.op = call.op /\ e.pc = pc
                  /\ c.at = call.at /\ e.at = call.at
         /\ call.timeout > 0 => LET c == [call EXCEPT !.timeout = @ - 1]
                                IN  c.op = call.op /\ c.pc = call.pc /\ c.at = call.at
BY CallGoesOn DEF IInv, Types

LEMMA FreeLists == ASSUME IInv, Listing, Free PROVE Listing'
<1>1. call.op \in {"read", "write"} /\ UNCHANGED <<kind, dev, drives, selected, gaveup>>
  BY DEF Free, history, IInv, CallShape, Types, CallRecords
<1>2. call'.op = call.op /\ call'.pc = "select"
  BY CallsKeepOp DEF Free
<1>3. Early' /\ Offers'
  BY <1>1 DEF Listing, Early, Offers
<1> QED
  BY <1>1, <1>2, <1>3, SectorLists

LEMMA IssueLists == ASSUME IInv, Listing, Issue PROVE Listing'
<1>1. /\ call.op \in {"read", "write"} /\ UNCHANGED <<kind, drives, selected, gaveup>>
      /\ Command(call.op, call.at) /\ call.at \in Nat /\ selected >= 0
  BY DEF Issue, history, IInv, Types, CallRecords, CallShape
<1>2. call'.op = call.op /\ call'.pc = "drq"
  BY CallsKeepOp DEF Issue
<1>3. \A d \in Drive : dev'[d] # dev[d] => dev'[d].st = "busy"
  BY <1>1, CommandEffect DEF IInv
<1>4. Early' /\ Offers'
  BY <1>1, <1>3 DEF Listing, Early, Offers, IInv, Types
<1> QED
  BY <1>1, <1>2, <1>4, SectorLists

LEMMA WaitMoreLists == ASSUME IInv, Listing, WaitMore PROVE Listing'
<1>1. /\ UNCHANGED <<kind, unit, dev, drives, selected, gaveup>> /\ call.pc \in {"bsy", "drq", "flush"}
      /\ call.op \in {"choose", "read", "write"}
  BY DEF WaitMore, history, IInv, Types, CallRecords, CallShape
<1>2. call'.op = call.op /\ call'.pc = call.pc /\ call'.at = call.at
  BY CallsKeepOp DEF WaitMore
<1>3. Early' /\ Offers'
  BY <1>1 DEF Listing, Early, Offers
<1>4. Target' = Target
  BY <1>1, <1>2 DEF Target
<1>5. call.op = "choose" /\ call.pc = "bsy" => (~ gaveup => unit[Target[1]] = Target[2])
  BY DEF Listing, Asked
<1> QED
  BY <1>1, <1>2, <1>3, <1>4, <1>5, AfterDetection

LEMMA WaitEndsLists == ASSUME IInv, Listing, WaitEnds PROVE Listing'
<1>1. /\ UNCHANGED <<kind, unit, dev, drives, selected>> /\ call.op \in {"choose", "read", "write"}
      /\ call' = NoCall /\ (~ gaveup' => ~ gaveup)
  BY DEF WaitEnds, history, IInv, Types, CallRecords, CallShape, Return
<1>2. call'.op = "none" /\ call'.pc = "idle"
  BY <1>1, NoCallIsCall
<1>3. Early' /\ Offers'
  BY <1>1 DEF Listing, Early, Offers
<1> QED
  BY <1>1, <1>2, <1>3, AfterDetection

LEMMA ReadDataLists == ASSUME IInv, Listing, ReadData PROVE Listing'
<1>1. /\ UNCHANGED <<kind, unit, drives, selected, gaveup>> /\ call.op = "read"
      /\ call' = NoCall /\ (dev' = dev \/ dev' = [dev EXCEPT ![Active] = Quiet])
  BY DEF ReadData, Return
<1>2. call'.op = "none" /\ call'.pc = "idle"
  BY <1>1, NoCallIsCall
<1>3. \A d \in Drive : dev'[d] = dev[d] \/ dev'[d] = Quiet
  BY <1>1 DEF IInv, Types
<1>4. Early' /\ Offers'
  BY <1>1, <1>3, QuietIsDevice DEF Listing, Early, Offers
<1> QED
  BY <1>1, <1>2, <1>4, SectorLists

LEMMA WriteDataLists == ASSUME IInv, Listing, WriteData PROVE Listing'
<1>1. /\ UNCHANGED <<kind, unit, drives, selected, gaveup>> /\ call.op = "write" /\ selected >= 0
  BY DEF WriteData, history, IInv, CallShape
<1>2. call'.op = call.op /\ call'.pc = "flush"
  BY CallsKeepOp DEF WriteData
<1>3. \A d \in Drive : dev'[d] = dev[d] \/ dev'[d].st = "busy"
  BY DEF WriteData, IInv, Types, Devices
<1>4. Early' /\ Offers'
  BY <1>1, <1>3 DEF Listing, Early, Offers, IInv, Types
<1> QED
  BY <1>1, <1>2, <1>4, SectorLists

LEMMA WrittenLists == ASSUME IInv, Listing, Written PROVE Listing'
<1>1. /\ UNCHANGED <<kind, unit, dev, drives, selected, gaveup>> /\ call.op = "write" /\ call' = NoCall
  BY DEF Written, Return, IInv, CallShape
<1>2. call'.op = "none" /\ call'.pc = "idle"
  BY <1>1, NoCallIsCall
<1>3. Early' /\ Offers'
  BY <1>1 DEF Listing, Early, Offers
<1> QED
  BY <1>1, <1>2, <1>3, SectorLists

LEMMA AnswerLists == ASSUME IInv, Listing, NEW a \in Drive, Answer(a) PROVE Listing'
<1>1. UNCHANGED <<kind, unit, drives, selected, call, gaveup>>
  BY DEF Answer
<1>2. Target' = Target /\ Done' = Done /\ Listed' = Listed
  BY <1>1, ListedKept DEF Target, Done
<1>3. /\ dev[a].st = "busy" /\ \A d \in Drive : d # a => dev'[d] = dev[d]
      /\ dev[a].cmd = "identify" => dev[a].data = {}
      /\ \/ /\ dev'[a].st = "drq" /\ dev'[a].cmd = dev[a].cmd
            /\ kind[a] = "disk" \/ (kind[a] = "empty" /\ dev[a].cmd = "identify")
         \/ dev'[a].st = "error" /\ (dev[a].cmd # "identify" \/ kind[a] = "atapi")
         \/ dev'[a].st = "idle" /\ dev[a].data # {}
  <2>1. dev[a].st = "busy" /\ dev[a] \in Devices
    BY DEF Answer, IInv, Types
  <2>2. dev[a].cmd = "identify" => dev[a].data = {}
    BY DEF IInv, DeviceShape
  <2>3. PICK end \in {"drq", "error", "idle"} :
        /\ dev' = [dev EXCEPT ![a] = IF end = "drq" THEN [@ EXCEPT !.st = end]
                                    ELSE [Quiet EXCEPT !.st = end]]
        /\ end = "drq" => kind[a] = "disk" \/ (kind[a] = "empty" /\ dev[a].cmd = "identify")
        /\ end = "error" => dev[a].cmd # "identify" \/ kind[a] = "atapi"
        /\ end = "idle" => dev[a].data # {}
    BY DEF Answer
  <2>4. \A d \in Drive : d # a => dev'[d] = dev[d]
    BY <2>3 DEF IInv, Types
  <2>5. dev'[a] = IF end = "drq" THEN [dev[a] EXCEPT !.st = end] ELSE [Quiet EXCEPT !.st = end]
    BY <2>3 DEF IInv, Types
  <2>6. dev'[a].st = end /\ (end = "drq" => dev'[a].cmd = dev[a].cmd)
    BY <2>1, <2>3, <2>5, QuietIsDevice DEF Devices
  <2> QED
    BY <2>1, <2>2, <2>3, <2>4, <2>6
<1>4. Early'
  BY <1>1, <1>3 DEF Listing, Early
<1>5. Offers'
  BY <1>1, <1>3 DEF Listing, Offers
<1> SUFFICES ASSUME ~ gaveup' PROVE drives' = Listed'[Done'] /\ Asked' /\ Chosen'
  BY <1>4, <1>5 DEF Listing
<1>6. ASSUME call.pc = "poll" PROVE dev'[Target].st # "idle" /\ (dev'[Target].st = "error" => kind[Target] = "atapi")
  <2>1. Target \in Drive /\ selected = -1
    BY <1>6, TargetIsDrive DEF IInv, CallShape, Types, CallRecords
  <2>2. dev[Target].st \in {"busy", "drq"} => dev[Target].cmd = "identify"
    BY <2>1 DEF Listing, Early
  <2> QED
    BY <1>1, <1>3, <1>6, <2>1, <2>2 DEF Listing, Asked
<1> QED
  BY <1>1, <1>2, <1>6 DEF Listing, Asked, Chosen

LEMMA AskLists ==
  ASSUME IInv, Listing, NEW op \in {"read", "write"}, NEW l, NEW v, Ask(op, l, v)
  PROVE  Listing'
<1>1. call.pc = "idle" /\ call.op = "none" /\ UNCHANGED <<kind, unit, dev, drives, selected, gaveup>>
  BY DEF Ask, IInv, CallShape
<1>2. call'.op \in {"none", "read", "write"} /\ call'.pc \in {"idle", "bsy"}
  BY DEF Ask, Return, NoCall, Waiting
<1>3. Early' /\ Offers'
  BY <1>1 DEF Listing, Early, Offers
<1> QED
  BY <1>1, <1>2, <1>3, AfterDetection

(***************************************************************************)
(* The table of drives is right after the detection, whatever the machine  *)
(* and whenever its drives answer, unless one answers after ata_identify   *)
(* has counted down: then it is missing, or a later command meets it busy. *)
(***************************************************************************)
THEOREM EveryDiskIsListed == Spec => []DisksAreListed
<1>1. Init => Listing
  BY InitListing
<1>2. IInv /\ Listing /\ [Next]_vars => Listing'
  <2> SUFFICES ASSUME IInv, Listing, [Next]_vars PROVE Listing'
    OBVIOUS
  <2>1. CASE Driver
    BY <2>1, SelectLists, IdentifyLists, IdentifyPollLists, ChooseLists, FreeLists, IssueLists,
       WaitMoreLists, WaitEndsLists, ReadDataLists, WriteDataLists, WrittenLists DEF Driver
  <2>2. ASSUME NEW d \in Drive, Answer(d) PROVE Listing'
    BY <2>2, AnswerLists
  <2>3. ASSUME NEW op \in {"read", "write"}, NEW l, NEW v, Ask(op, l, v) PROVE Listing'
    BY <2>3, AskLists
  <2>4. CASE UNCHANGED vars
    <3>1. UNCHANGED <<kind, unit, dev, drives, selected, call, gaveup>>
      BY <2>4 DEF vars, drivers, history
    <3>2. Target' = Target /\ Done' = Done /\ Listed' = Listed
      BY <3>1, ListedKept DEF Target, Done
    <3> QED
      BY <3>1, <3>2 DEF Listing, Early, Offers, Asked, Chosen
  <2> QED
    BY <2>1, <2>2, <2>3, <2>4 DEF Next
<1>3. Listing => DisksAreListed
  BY DrivePlaces DEF Listing, DisksAreListed, Done, Chosen
<1> QED
  BY <1>1, <1>2, <1>3, Invariance, PTL DEF Spec
=============================================================================
