--------------------------- MODULE ServicesProofs ---------------------------
(***************************************************************************)
(* Proofs about what the Z8002 packages do for a program: the character    *)
(* devices (BiosDevices), for any package, any characters and any patience *)
(* of parout, and the memory management (BiosBanks), for any chunk, bounce *)
(* buffer and lengths: which bank a program's data are in, and that the    *)
(* memory manager's loop moves the bytes it is asked to.                   *)
(***************************************************************************)
EXTENDS BiosDevices, BiosBanks, TLAPS

-----------------------------------------------------------------------------
(* Character devices.                                                      *)

(***************************************************************************)
(* The inductive invariant.  A device found ready stays ready until a call *)
(* uses it: nothing but that call takes the character out of its receive   *)
(* register, or puts one into the transmit register.  That is a fact about *)
(* the port of the routine that will be called, so that the rows of sttbl  *)
(* have to agree with those of rdtbl and wrtbl; and a call that reads the  *)
(* keyboard reads it where the key codes come from.                        *)
(***************************************************************************)
Registers == {Nothing} \cup Chars
CallType == [op : {"none", "ttyrd", "crtrd", "ttywr", "crtwr", "lptwr"},
             dev : Devices, port : Ports, ch : Registers, sure : BOOLEAN]

ReadWaits(dev)  == genread(dev) # "nulrd" /\ rx[PortOf(genread(dev))] = Nothing
WriteWaits(dev) == genwrite(dev) = "ttywr" /\ tx # Nothing

\* ReadyMeansNoWait, case by case.
CallReady ==
  call.sure => /\ call.op \in {"ttyrd", "crtrd"} => rx[call.port] # Nothing
               /\ call.op = "ttywr" => tx = Nothing

FoundReady ==
  /\ sure \in {"none", "CON", "LIST"}
  /\ sure # "none" => call = Idle
  /\ sure = "CON" => ~ ReadWaits("CON")
  /\ sure = "LIST" => ~ WriteWaits("LIST")

DevicesInv ==
  /\ DevicesTypeOK
  /\ call \in CallType
  /\ call.op = "crtrd" => call.port = Config.KBD
  /\ call.op \in {"ttywr", "crtwr", "lptwr"} => call.ch \in Chars
  /\ FoundReady
  /\ CallReady

-----------------------------------------------------------------------------
(* The tables.                                                             *)

LEMMA ConfigFacts ==
  ASSUME pkg \in Packages
  PROVE  /\ Config.KBD \in Ports /\ Config.CON \in 0..3
         /\ Config.BAUD => pkg = "m20-serial"
         /\ HasPROM => Config.KBD = "kbd"
<1>1. pkg \in {"m20", "m20-serial", "plasmo", "z8002-demo"}
  BY DevicesAssumption
<1> QED BY <1>1 DEF Config, M20_Config, M20Serial_Config, Plasmo_Config, Z8002Demo_Config,
                    Ports, HasPROM

LEMMA PortsOfRoutines ==
  ASSUME pkg \in Packages, NEW routine
  PROVE  PortOf(routine) \in Ports
BY ConfigFacts DEF PortOf, Ports

\* The routines of a device, by the columns of iobyte.
LEMMA ReadRoutines ==
  ASSUME iobyte \in [Devices -> 0..3], NEW dev \in {"CON", "READER"}
  PROVE  genread(dev) \in {"ttyrd", "crtrd", "nulrd"}
<1>1. iobyte["CON"] \in {0, 1, 2, 3} /\ iobyte["READER"] \in {0, 1, 2, 3}
  BY DEF Devices
<1>2. /\ At(rdtbl, "CON") \in {"ttyrd", "crtrd", "batrd", "nulrd"}
      /\ At(rdtbl, "READER") \in {"ttyrd", "nulrd"}
  BY <1>1 DEF At, rdtbl
<1> QED BY <1>2 DEF genread

LEMMA WriteRoutines ==
  ASSUME iobyte \in [Devices -> 0..3], NEW dev \in {"CON", "LIST", "PUNCH"}
  PROVE  genwrite(dev) \in {"ttywr", "crtwr", "lptwr", "nulwr"}
<1>1. iobyte["CON"] \in {0, 1, 2, 3} /\ iobyte["PUNCH"] \in {0, 1, 2, 3} /\ iobyte["LIST"] \in {0, 1, 2, 3}
  BY DEF Devices
<1>2. /\ At(wrtbl, "CON") \in {"ttywr", "crtwr", "batwr", "nulwr"}
      /\ At(wrtbl, "PUNCH") \in {"ttywr", "nulwr"}
      /\ At(wrtbl, "LIST") \in {"ttywr", "crtwr", "lptwr", "nulwr"}
  BY <1>1 DEF At, wrtbl
<1> QED BY <1>2 DEF genwrite

\* CONST asks the port that CONIN then reads: sttbl and rdtbl agree in every column, the
\* batch device's and what it leads to included.
LEMMA ConsoleStatus ==
  ASSUME iobyte \in [Devices -> 0..3], ReadyNow(genstat("CON"))
  PROVE  ~ ReadWaits("CON")
<1>1. iobyte["CON"] \in {0, 1, 2, 3} /\ iobyte["READER"] \in {0, 1, 2, 3}
  BY DEF Devices
<1>2. \/ genstat("CON") = "ttyrs" /\ genread("CON") = "ttyrd"
      \/ genstat("CON") = "crtrs" /\ genread("CON") = "crtrd"
      \/ genread("CON") = "nulrd"
  BY <1>1 DEF genstat, genread, At, sttbl, rdtbl
<1> QED BY <1>2 DEF ReadyNow, ReadWaits, PortOf

\* LISTST asks the port that LIST then writes to.
LEMMA ListStatus ==
  ASSUME iobyte \in [Devices -> 0..3], ReadyNow(genstat("LIST"))
  PROVE  ~ WriteWaits("LIST")
<1>1. iobyte["LIST"] \in {0, 1, 2, 3}
  BY DEF Devices
<1>2. genwrite("LIST") = "ttywr" => genstat("LIST") = "ttyws"
  BY <1>1 DEF genstat, genwrite, At, sttbl, wrtbl
<1> QED BY <1>2 DEF ReadyNow, WriteWaits

-----------------------------------------------------------------------------
(* Steps.                                                                  *)

\* What any step may do.  The second part is that of InputIsNotLost.
InputKept ==
  \A p \in Ports : rx[p] # Nothing /\ rx'[p] = Nothing /\ ~ BiosInit
                  => heard' = rx[p] /\ call' = Idle
DevicesStep == DevicesInv' /\ (pkg # "m20-serial" => InputKept) /\ UNCHANGED pkg

LEMMA IdleFacts ==
  /\ Idle \in CallType /\ Idle.op = "none" /\ ~ Idle.sure
BY DEF Idle, CallType, Devices, Ports, Registers

LEMMA DevicesInitial == DevicesInit => DevicesInv
<1> SUFFICES ASSUME DevicesInit PROVE DevicesInv
  OBVIOUS
<1>1. DevicesTypeOK
  BY ConfigFacts, DevicesAssumption
     DEF DevicesInit, DevicesTypeOK, Idle, Devices, Ports
<1>2. call = Idle /\ sure = "none"
  BY DEF DevicesInit
<1> QED BY <1>1, <1>2, IdleFacts DEF DevicesInv, FoundReady, CallReady

LEMMA StatusStep ==
  ASSUME DevicesInv, NEW dev \in {"CON", "LIST"}, Status(dev)
  PROVE  DevicesStep
<1>1. /\ call = Idle /\ call' = Idle /\ heard' = Nothing
      /\ UNCHANGED <<pkg, iobyte, uarts, printer, polls>>
      /\ sure' = (IF ReadyNow(genstat(dev)) /\ genstat(dev) # "lptws" THEN dev ELSE "none")
  BY DEF Status, Return
<1>2. DevicesTypeOK' /\ InputKept
  BY <1>1, IdleFacts DEF DevicesInv, DevicesTypeOK, InputKept, uarts
<1>3. FoundReady'
  <2>1. sure' = "CON" => ~ ReadWaits("CON")'
    BY <1>1, ConsoleStatus DEF DevicesInv, DevicesTypeOK, uarts, ReadWaits, genread, At, PortOf, Config
  <2>2. sure' = "LIST" => ~ WriteWaits("LIST")'
    BY <1>1, ListStatus DEF DevicesInv, DevicesTypeOK, uarts, WriteWaits, genwrite, At
  <2> QED BY <1>1, <2>1, <2>2 DEF FoundReady
<1> QED BY <1>1, <1>2, <1>3, IdleFacts DEF DevicesInv, DevicesStep, CallReady

LEMMA ReadCharStep ==
  ASSUME DevicesInv, NEW dev \in {"CON", "READER"}, ReadChar(dev)
  PROVE  DevicesStep
<1>1. /\ call = Idle /\ sure' = "none" /\ heard' = Nothing
      /\ UNCHANGED <<pkg, iobyte, uarts, printer, polls>>
  BY DEF ReadChar, Return, Begin
<1> DEFINE Begun ==
      /\ call' \in CallType /\ ~ (call'.op \in {"ttywr", "crtwr", "lptwr"}) /\ CallReady'
      /\ call'.op = "crtrd" => call'.port = Config.KBD
<1>2. ASSUME genread(dev) = "nulrd" PROVE Begun
  BY <1>1, <1>2, IdleFacts DEF ReadChar, Return, CallReady
<1>3. ASSUME genread(dev) # "nulrd" PROVE Begun
  <2>1. genread(dev) \in {"ttyrd", "crtrd"} /\ Begin(genread(dev), dev, Nothing, sure = dev)
    BY <1>3, ReadRoutines DEF ReadChar, DevicesInv, DevicesTypeOK
  <2> DEFINE known == sure = dev
  <2>2. /\ call' \in CallType /\ call'.op = genread(dev) /\ call'.port = PortOf(genread(dev))
        /\ call'.sure = known
    BY <2>1, PortsOfRoutines DEF Begin, CallType, Registers, Devices, DevicesInv, DevicesTypeOK
  <2>3. ASSUME call'.sure PROVE rx[call'.port] # Nothing
    <3>1. sure = dev
      BY <2>2, <2>3
    <3>2. sure = "CON" /\ dev = "CON"
      BY <3>1 DEF DevicesInv, FoundReady
    <3> QED BY <1>3, <2>2, <3>2 DEF DevicesInv, FoundReady, ReadWaits
  <2>4. CallReady'
    BY <1>1, <2>1, <2>2, <2>3 DEF CallReady, uarts
  <2> QED BY <2>1, <2>2, <2>4 DEF PortOf
<1>4. Begun
  BY <1>2, <1>3
<1>5. DevicesTypeOK' /\ InputKept
  BY <1>1, <1>4 DEF DevicesInv, DevicesTypeOK, InputKept, uarts, CallType, Registers
<1>6. Config' = Config
  BY <1>1 DEF Config
<1> QED BY <1>1, <1>4, <1>5, <1>6 DEF DevicesInv, DevicesStep, FoundReady

LEMMA WriteCharStep ==
  ASSUME DevicesInv, NEW dev \in {"CON", "LIST", "PUNCH"}, NEW c \in Chars, WriteChar(dev, c)
  PROVE  DevicesStep
<1>1. /\ call = Idle /\ sure' = "none" /\ heard' = Nothing /\ polls' = 0
      /\ UNCHANGED <<pkg, iobyte, uarts, printer>>
  BY DEF WriteChar, Return, Begin
<1> DEFINE Begun ==
      /\ call' \in CallType /\ call'.op \in {"none", "ttywr", "crtwr", "lptwr"} /\ CallReady'
      /\ call'.op # "none" => call'.ch \in Chars
<1>2. ASSUME genwrite(dev) = "nulwr" PROVE Begun
  BY <1>1, <1>2, IdleFacts DEF WriteChar, Return, CallReady
<1>3. ASSUME genwrite(dev) # "nulwr" PROVE Begun
  <2> DEFINE known == sure = dev /\ dev = "LIST"
  <2>1. genwrite(dev) \in {"ttywr", "crtwr", "lptwr"} /\ Begin(genwrite(dev), dev, c, known)
    BY <1>3, WriteRoutines DEF WriteChar, DevicesInv, DevicesTypeOK
  <2>2. /\ call' \in CallType /\ call'.op = genwrite(dev) /\ call'.ch = c
        /\ call'.sure = known
    BY <2>1, PortsOfRoutines DEF Begin, CallType, Registers, Devices, DevicesInv, DevicesTypeOK
  <2>3. ASSUME call'.sure, call'.op = "ttywr" PROVE tx = Nothing
    <3>1. sure = "LIST" /\ dev = "LIST"
      BY <2>2, <2>3
    <3> QED BY <2>2, <2>3, <3>1 DEF DevicesInv, FoundReady, WriteWaits
  <2>4. CallReady'
    BY <1>1, <2>1, <2>2, <2>3 DEF CallReady, uarts
  <2> QED BY <2>1, <2>2, <2>4
<1>4. Begun
  BY <1>2, <1>3
<1>5. DevicesTypeOK' /\ InputKept
  BY <1>1, <1>4, DevicesAssumption DEF DevicesInv, DevicesTypeOK, InputKept, uarts, CallType, Registers
<1> QED BY <1>1, <1>4, <1>5 DEF DevicesInv, DevicesStep, FoundReady

\* A step that takes nothing out of a receive register and puts nothing into the
\* transmitter: what was ready is ready.
LEMMA StaysReady ==
  ASSUME DevicesInv, UNCHANGED <<pkg, iobyte, call, sure>>,
         \A p \in Ports : rx'[p] = Nothing => rx[p] = Nothing,
         tx = Nothing => tx' = Nothing
  PROVE  FoundReady' /\ CallReady'
<1>1. /\ ReadWaits("CON")' => ReadWaits("CON")
      /\ WriteWaits("LIST")' => WriteWaits("LIST")
  <2>1. Config' = Config
    BY DEF Config
  <2>2. genread("CON")' = genread("CON") /\ genwrite("LIST")' = genwrite("LIST")
    BY DEF genread, genwrite, At
  <2>3. PortOf(genread("CON"))' = PortOf(genread("CON"))
    BY <2>1, <2>2 DEF PortOf
  <2>4. PortOf(genread("CON")) \in Ports
    BY PortsOfRoutines DEF DevicesInv, DevicesTypeOK
  <2> QED BY <2>2, <2>3, <2>4 DEF ReadWaits, WriteWaits
<1>2. FoundReady'
  BY <1>1 DEF DevicesInv, FoundReady
<1>3. call.port \in Ports
  BY DEF DevicesInv, CallType
<1> QED BY <1>2, <1>3 DEF DevicesInv, CallReady

LEMMA SettingsStep ==
  ASSUME DevicesInv,
         BiosInit \/ \E dev \in Devices, n \in 0..3 : SetIob(dev, n)
  PROVE  DevicesStep
<1>1. /\ call = Idle /\ heard' = Nothing /\ sure' = "none"
      /\ UNCHANGED <<pkg, latch, printer, call, polls>>
  BY DEF BiosInit, SetIob, uarts
<1>2. /\ iobyte' \in [Devices -> 0..3]
      /\ rx' \in [Ports -> Registers] /\ tx' \in Registers
      /\ rx' = rx \/ BiosInit
  BY DEF BiosInit, SetIob, uarts, DevicesInv, DevicesTypeOK, Registers
<1>3. DevicesTypeOK' /\ InputKept
  BY <1>1, <1>2 DEF DevicesInv, DevicesTypeOK, InputKept, Registers
<1>4. Config' = Config
  BY <1>1 DEF Config
<1> QED BY <1>1, <1>3, <1>4, IdleFacts DEF DevicesInv, DevicesStep, FoundReady, CallReady

\* A call that ends leaves nothing to wait for; none was announced while it lasted.
LEMMA CallEnds ==
  ASSUME DevicesInv, call # Idle, UNCHANGED <<pkg, iobyte, sure>>, call' = Idle
  PROVE  FoundReady' /\ CallReady' /\ call' \in CallType /\ sure' = "none"
BY IdleFacts DEF DevicesInv, FoundReady, CallReady

LEMMA SerInStep ==
  ASSUME DevicesInv, SerIn
  PROVE  DevicesStep
<1> DEFINE p == call.port
<1>1. /\ call.op \in {"ttyrd", "crtrd"} /\ rx[p] # Nothing /\ call' = Idle
      /\ heard' = (IF call.op = "crtrd" THEN crtrd(p, rx[p]) ELSE rx[p])
      /\ rx' = [rx EXCEPT ![p] = Nothing]
      /\ UNCHANGED <<pkg, iobyte, latch, tx, printer, polls, sure>>
  BY DEF SerIn, Return
<1>2. p \in Ports /\ rx[p] \in Registers /\ rx \in [Ports -> Registers]
  BY DEF DevicesInv, DevicesTypeOK, CallType, Registers
<1>3. heard' = rx[p]
  BY <1>1, ConfigFacts DEF crtrd, kbtran, DevicesInv, DevicesTypeOK
<1>4. DevicesTypeOK' /\ InputKept
  BY <1>1, <1>2, <1>3, IdleFacts DEF DevicesInv, DevicesTypeOK, InputKept, Registers, CallType
<1>5. FoundReady' /\ CallReady' /\ call' \in CallType
  BY <1>1, CallEnds, IdleFacts
<1> QED BY <1>1, <1>4, <1>5, IdleFacts DEF DevicesInv, DevicesStep

LEMMA OutputStep ==
  ASSUME DevicesInv, SerOut \/ CrtPut
  PROVE  DevicesStep
<1>1. /\ call.op \in {"ttywr", "crtwr"} /\ call.ch \in Chars
      /\ UNCHANGED <<pkg, iobyte, latch, printer, polls, sure>>
  BY DEF SerOut, CrtPut, DevicesInv
<1>2. /\ rx' = rx \/ (Config.BAUD /\ rx' = [rx EXCEPT !["rs232"] = Nothing])
      /\ tx' \in {tx, call.ch}
      /\ (call' = Idle /\ heard' = Nothing) \/ UNCHANGED <<call, heard, tx>>
  BY DEF SerOut, CrtPut, serout, serout_Baud, Return
<1>3. rx' \in [Ports -> Registers] /\ (pkg # "m20-serial" => rx' = rx)
  BY <1>2, ConfigFacts DEF DevicesInv, DevicesTypeOK, Registers
<1>4. DevicesTypeOK' /\ (pkg # "m20-serial" => InputKept)
  BY <1>1, <1>2, <1>3, IdleFacts DEF DevicesInv, DevicesTypeOK, InputKept, Registers, CallType
<1>5. FoundReady' /\ CallReady' /\ call' \in CallType
  <2>1. sure = "none"
    BY <1>1, IdleFacts DEF DevicesInv, FoundReady
  <2>2. CASE call' = Idle
    BY <1>1, <2>2, CallEnds, IdleFacts
  <2>3. CASE UNCHANGED <<call, heard, tx>>
    BY <1>1, <2>1, <2>3 DEF DevicesInv, FoundReady, CallReady
  <2> QED BY <1>2, <2>2, <2>3
<1>6. Config' = Config
  BY <1>1 DEF Config
<1> QED BY <1>1, <1>2, <1>4, <1>5, <1>6, IdleFacts DEF DevicesInv, DevicesStep

LEMMA ParPollStep ==
  ASSUME DevicesInv, ParPoll
  PROVE  DevicesStep
<1>1. /\ call.op = "lptwr" /\ call.ch \in Chars /\ call \in CallType
      /\ UNCHANGED <<pkg, iobyte, rx, latch, tx, sure>>
  BY DEF ParPoll, uarts, DevicesInv
<1>2. \/ call' = Idle /\ heard' = Nothing /\ polls' = polls /\ printer' = "busy"
      \/ /\ polls < POLLS /\ polls' = polls + 1 /\ UNCHANGED <<printer, heard>>
         /\ call' \in {call, [call EXCEPT !.op = "crtwr", !.port = Config.KBD]}
  BY DEF ParPoll, parout, Return
<1>3. /\ call' \in CallType /\ call'.op \in {"none", "lptwr", "crtwr"}
      /\ call'.op # "none" => call'.ch \in Chars
  <2>1. Config.KBD \in Ports
    BY ConfigFacts DEF DevicesInv, DevicesTypeOK
  <2> QED BY <1>1, <1>2, <2>1, IdleFacts DEF CallType
<1>4. polls' \in 0..POLLS /\ printer' \in {"ready", "busy", "off"} /\ heard' \in Registers
  BY <1>2, DevicesAssumption DEF DevicesInv, DevicesTypeOK, Registers
<1>5. DevicesTypeOK' /\ InputKept
  BY <1>1, <1>3, <1>4 DEF DevicesInv, DevicesTypeOK, InputKept, CallType, Registers
<1>6. FoundReady' /\ CallReady'
  <2>1. sure = "none"
    BY <1>1, IdleFacts DEF DevicesInv, FoundReady
  <2> QED BY <1>1, <1>3, <2>1 DEF FoundReady, CallReady
<1> QED BY <1>1, <1>3, <1>5, <1>6 DEF DevicesInv, DevicesStep

\* The typist, the line and the printer.
LEMMA WorldStep ==
  ASSUME DevicesInv,
         \/ \E port \in Ports, c \in Chars : Type(port, c)
         \/ Shift
         \/ \E to \in {"ready", "off"} : PrinterMoves(to)
  PROVE  DevicesStep
<1>1. UNCHANGED <<pkg, iobyte, call, polls, heard, sure>>
  BY DEF Type, Shift, PrinterMoves
<1>2. /\ rx' \in [Ports -> Registers] /\ latch' \in Registers /\ tx' \in {tx, Nothing}
      /\ printer' \in {printer, "ready", "off"}
      /\ \A p \in Ports : rx'[p] = Nothing => rx[p] = Nothing
  <2>1. rx \in [Ports -> Registers] /\ latch \in Registers
    BY DEF DevicesInv, DevicesTypeOK, Registers
  <2>2. CASE \E port \in Ports, c \in Chars : Type(port, c)
    <3>1. PICK port \in Ports, c \in Chars : Type(port, c)
      BY <2>2
    <3>2. rx' = [rx EXCEPT ![port] = c] /\ latch' \in {c, latch} /\ UNCHANGED <<tx, printer>>
      BY <3>1 DEF Type
    <3> QED BY <2>1, <3>2, DevicesAssumption DEF Registers
  <2>3. CASE Shift
    BY <2>1, <2>3 DEF Shift
  <2>4. CASE \E to \in {"ready", "off"} : PrinterMoves(to)
    BY <2>1, <2>4 DEF PrinterMoves, uarts
  <2> QED BY <2>2, <2>3, <2>4
<1>3. DevicesTypeOK' /\ InputKept
  BY <1>1, <1>2 DEF DevicesInv, DevicesTypeOK, InputKept, Registers
<1>4. FoundReady' /\ CallReady'
  BY <1>1, <1>2, StaysReady
<1>5. Config' = Config
  BY <1>1 DEF Config
<1> QED BY <1>1, <1>3, <1>4, <1>5 DEF DevicesInv, DevicesStep

LEMMA DevicesSteps ==
  ASSUME DevicesInv, DevicesNext
  PROVE  DevicesStep
BY StatusStep, ReadCharStep, WriteCharStep, SettingsStep, SerInStep, OutputStep, ParPollStep,
   WorldStep DEF DevicesNext, InProgress

LEMMA DevicesStutter ==
  ASSUME DevicesInv, UNCHANGED dvars
  PROVE  DevicesInv'
<1>1. UNCHANGED <<pkg, iobyte, rx, latch, tx, printer, call, polls, heard, sure>>
  BY DEF dvars, uarts
<1>2. FoundReady' /\ CallReady'
  BY <1>1, StaysReady
<1>3. Config' = Config
  BY <1>1 DEF Config
<1> QED BY <1>1, <1>2, <1>3 DEF DevicesInv, DevicesTypeOK

-----------------------------------------------------------------------------
(* Theorems.                                                               *)

LEMMA DevicesInvariance == DevicesSpec => []DevicesInv
<1>1. DevicesInv /\ [DevicesNext]_dvars => DevicesInv'
  BY DevicesSteps, DevicesStutter DEF DevicesStep
<1> QED BY DevicesInitial, <1>1, PTL DEF DevicesSpec

\* Registers hold characters, one call is in progress at most, and parout's counter stays
\* within its bound (parout).
THEOREM DevicesTypes == DevicesSpec => []DevicesTypeOK
<1>1. DevicesInv => DevicesTypeOK
  BY DEF DevicesInv
<1> QED BY DevicesInvariance, <1>1, PTL

\* The next call on a device that CONST or LISTST has found ready does not wait, whatever
\* iobyte assigns to it, unless it writes to a CRT that is a UART (sttbl, rdtbl, wrtbl).
THEOREM ReadyIsReady == DevicesSpec => []ReadyMeansNoWait
<1>1. DevicesInv => ReadyMeansNoWait
  <2> SUFFICES ASSUME DevicesInv, call.sure, ~ OnTheUart PROVE NoWait
    BY DEF ReadyMeansNoWait
  <2>1. /\ call.op \in {"ttyrd", "crtrd"} => rx[call.port] # Nothing
        /\ call.op = "ttywr" => tx = Nothing
    BY DEF DevicesInv, CallReady
  <2> QED BY <2>1 DEF NoWait
<1> QED BY DevicesInvariance, <1>1, PTL

\* In the packages without BAUD no poll for output or for status eats a character, and
\* what is read is what was typed (serin, serout, kbtran).
THEOREM InputSurvives == "m20-serial" \notin Packages /\ DevicesSpec => InputIsNotLost
<1> SUFFICES ASSUME "m20-serial" \notin Packages
             PROVE  DevicesSpec => InputIsNotLost
  OBVIOUS
<1>1. DevicesInv /\ [DevicesNext]_dvars
      => [\A p \in Ports : rx[p] # Nothing /\ rx'[p] = Nothing /\ ~ BiosInit
            => heard' = rx[p] /\ call' = Idle]_dvars
  <2>1. DevicesInv => pkg # "m20-serial"
    BY DEF DevicesInv, DevicesTypeOK
  <2> QED BY <2>1, DevicesSteps DEF DevicesStep, InputKept
<1> QED BY DevicesInvariance, <1>1, PTL DEF DevicesSpec, InputIsNotLost

-----------------------------------------------------------------------------
(* Where the data of programs are.                                         *)

MapInv ==
  /\ board \in Boards /\ {usrseg, usrdseg} \subseteq Banks
  /\ \/ stage = "ccp" /\ nbank = <<0, 0>>
     \/ stage = "base" /\ nbank = <<0, 0>> /\ usrseg = 1 /\ usrdseg = 1 /\ board # "plasmo"
     \/ stage = "merged" /\ nbank \in {<<0, 0>>, <<1, 1>>} /\ usrseg = 1 /\ usrdseg = 1
     \/ stage = "split" /\ nbank \in {<<0, 0>>, <<1, 2>>} /\ usrseg = 1 /\ usrdseg = 2 /\ board # "plasmo"

LEMMA BanksThere ==
  /\ 0 \in Banks /\ 1 \in Banks /\ Banks \subseteq {0, 1, 2}
  /\ board = "plasmo" => Banks = {0, 1}
  /\ board # "plasmo" => 2 \in Banks
BY DEF Banks

LEMMA MapInitial == BanksInit => MapInv
BY BanksThere DEF BanksInit, MapInv

LEMMA MapAdrKeeps ==
  ASSUME MapInv, MapAdr
  PROVE  MapInv'
<1>0. board' = board /\ Banks' = Banks /\ board \in Boards
  BY DEF MapAdr, Banks, MapInv
<1>1. CASE \E kind \in {"merged", "split"} : LoadProgram(kind)
  <2>1. usrseg' = 1 /\ usrdseg' = 1 /\ nbank' = nbank /\ nbank = <<0, 0>>
    BY <1>1 DEF LoadProgram, set_usr, MapInv
  <2>2. stage' = "merged" \/ (stage' = "base" /\ board # "plasmo")
    BY <1>1 DEF LoadProgram
  <2> QED BY <1>0, <2>1, <2>2, BanksThere DEF MapInv
<1>2. CASE LoadData
  <2>1. usrseg' = 1 /\ usrdseg' = 2 /\ nbank' = nbank /\ nbank = <<0, 0>> /\ stage' = "split" /\ board # "plasmo"
    BY <1>2 DEF LoadData, usr_data, MapInv
  <2> QED BY <1>0, <2>1, BanksThere DEF MapInv
<1>3. CASE Transfer
  <2>1. usrseg' = usrseg /\ usrdseg' = usrdseg /\ stage' = stage /\ nbank' = <<usrseg, usrdseg>>
    BY <1>3 DEF Transfer
  <2>2. stage \in {"merged", "split"}
    BY <1>3 DEF Transfer
  <2> QED BY <1>0, <2>1, <2>2 DEF MapInv
<1>4. CASE FpeOperand(1)
  <2>1. usrseg' = usrseg /\ usrdseg' = usrdseg /\ stage' = stage /\ nbank' = nbank
    BY <1>4 DEF FpeOperand, usr_data
  <2> QED BY <1>0, <2>1 DEF MapInv
<1>5. CASE WarmBoot
  <2>1. usrseg' = usrseg /\ usrdseg' = usrdseg /\ stage' = "ccp" /\ nbank' = <<0, 0>>
    BY <1>5 DEF WarmBoot
  <2> QED BY <1>0, <2>1 DEF MapInv
<1> QED BY <1>1, <1>2, <1>3, <1>4, <1>5 DEF MapAdr

LEMMA MapStep ==
  ASSUME MapInv, [BanksNext]_bvars
  PROVE  MapInv'
<1>1. CASE UNCHANGED <<board, mapping>>
  <2>1. Banks' = Banks /\ UNCHANGED <<board, usrseg, usrdseg, nbank, stage>>
    BY <1>1 DEF Banks, mapping
  <2> QED BY <2>1 DEF MapInv
<1>2. CASE MapAdr
  BY <1>2, MapAdrKeeps
<1>3. CASE MemBcp
  BY <1>1, <1>3 DEF MemBcp
<1>4. CASE MemCopyReturns
  BY <1>1, <1>4 DEF MemCopyReturns
<1>5. CASE UNCHANGED bvars
  BY <1>1, <1>5 DEF bvars
<1>6. CASE \E c : MemCopy(c)
  BY <1>1, <1>6 DEF MemCopy
<1>7. MemBcp \/ MemCopyReturns \/ MapAdr \/ UNCHANGED bvars \/ \E c : MemCopy(c)
  BY DEF BanksNext
<1> QED BY <1>2, <1>3, <1>4, <1>5, <1>6, <1>7

\* A program's data are in the bank after its code's when it has separate data and in its
\* code's bank otherwise, and usrdseg names that bank however often the floating-point
\* emulator asks (set_usr, usr_data, xfersc).
THEOREM DataBank == BanksSpec => []CallerDataIsTheProgramsData
<1>1. MapInv /\ [BanksNext]_bvars => MapInv'
  BY MapStep
<1>2. MapInv => CallerDataIsTheProgramsData
  BY DEF MapInv, CallerDataIsTheProgramsData
<1> QED BY MapInitial, <1>1, <1>2, PTL DEF BanksSpec

-----------------------------------------------------------------------------
(* Arithmetic.                                                             *)

LEMMA Sizes ==
  /\ CHUNK \in Nat /\ CHUNK > 0 /\ BOUNCE \in Nat /\ BOUNCE > 0 /\ BOUNCE <= CHUNK
  /\ BANK = 4 * CHUNK /\ AWIN = 3 * CHUNK /\ HALF = 2 * CHUNK
  /\ BANK \in Nat /\ AWIN \in Nat /\ HALF \in Nat /\ HALF > 0
  /\ \A n \in Lengths : n \in Nat /\ n > 0 /\ n < BANK
BY BanksAssumption DEF BANK, AWIN, HALF

LEMMA DivMod ==
  ASSUME NEW a \in Nat, NEW m \in Nat, m > 0
  PROVE  a \div m \in Nat /\ a % m \in 0 .. m - 1 /\ a = m * (a \div m) + (a % m)
OBVIOUS

LEMMA ModSmall ==
  ASSUME NEW m \in Nat, NEW a \in 0 .. m - 1
  PROVE  a % m = a
OBVIOUS

\* A place in a bank of four chunks, and in one of two halves.
LEMMA InChunks ==
  ASSUME NEW m \in Nat, m > 0, NEW a \in 0 .. 4 * m - 1
  PROVE  a \div m \in 0 .. 3
<1> DEFINE q == a \div m
           r == a % m
<1>1. q \in Nat /\ r \in 0 .. m - 1 /\ a = m * q + r
  BY DivMod
<1> HIDE DEF q, r
<1>2. ~ (q >= 4)
  <2> SUFFICES ASSUME q >= 4 PROVE FALSE
    OBVIOUS
  <2>1. m * q >= m * 4
    BY <1>1
  <2> QED BY <1>1, <2>1
<1> QED BY <1>1, <1>2 DEF q

LEMMA WindowNumber ==
  ASSUME NEW b \in {1, 2}, NEW q \in 0 .. 3
  PROVE  (4 * b + q) \div 4 = b /\ (4 * b + q) % 4 = q /\ 4 * b + q \in 4 .. 11
OBVIOUS

LEMMA LeastOfTwo ==
  ASSUME NEW x \in Int, NEW y \in Int
  PROVE  Least({x, y}) = IF x <= y THEN x ELSE y
<1>1. \E z \in {x, y} : \A t \in {x, y} : z <= t
  OBVIOUS
<1>2. Least({x, y}) \in {x, y} /\ Least({x, y}) <= x /\ Least({x, y}) <= y
  BY <1>1 DEF Least
<1> QED BY <1>2

-----------------------------------------------------------------------------
(* Runs of bytes.                                                          *)

\* The places of a run of n bytes, in their order.
Line(bank, a, n) == [i \in 0..n - 1 |-> <<bank, a + i>>]

LEMMA PlaceIs ==
  ASSUME NEW p \in Places
  PROVE  p = <<p[1], p[2]>> /\ p[1] \in Banks /\ p[2] \in 0..BANK - 1
BY DEF Places

LEMMA InRun ==
  ASSUME NEW p \in Places, NEW b \in Banks, NEW a \in Nat, NEW n \in Nat
  PROVE  p \in Run(b, a, n) <=> p[1] = b /\ p[2] >= a /\ p[2] < a + n
<1>1. p = <<p[1], p[2]>> /\ p[2] \in Int
  BY PlaceIs, Sizes
<1>2. ASSUME p \in Run(b, a, n) PROVE p[1] = b /\ p[2] >= a /\ p[2] < a + n
  <2>1. PICK i \in 0..n - 1 : p = <<b, a + i>>
    BY <1>2 DEF Run
  <2> QED BY <2>1
<1>3. ASSUME p[1] = b, p[2] >= a, p[2] < a + n PROVE p \in Run(b, a, n)
  <2>1. p[2] - a \in 0..n - 1 /\ a + (p[2] - a) = p[2]
    BY <1>1, <1>3
  <2>2. p = <<b, a + (p[2] - a)>>
    BY <1>1, <1>3, <2>1
  <2> QED BY <2>1, <2>2 DEF Run
<1> QED BY <1>2, <1>3

\* What a move of one run to another does to a byte.
LEMMA MovedLine ==
  ASSUME NEW o, NEW sb \in Banks, NEW s \in Nat, NEW db \in Banks, NEW d \in Nat, NEW n \in Nat,
         NEW p \in Places
  PROVE  Moved(o, Line(sb, s, n), Line(db, d, n))[p] =
           IF p \in Run(db, d, n) THEN o[<<sb, s + (p[2] - d)>>] ELSE o[p]
<1> DEFINE src == Line(sb, s, n)
           dst == Line(db, d, n)
           I   == {i \in DOMAIN dst : dst[i] = p}
<1>1. Moved(o, src, dst)[p] = IF I = {} THEN o[p] ELSE o[src[CHOOSE i \in I : TRUE]]
  BY DEF Moved
<1>2. DOMAIN dst = 0..n - 1 /\ \A i \in 0..n - 1 : dst[i] = <<db, d + i>> /\ src[i] = <<sb, s + i>>
  BY DEF Line
<1>3. p = <<p[1], p[2]>> /\ p[2] \in Int
  BY PlaceIs, Sizes
<1> HIDE DEF src, dst
<1>4. CASE p \in Run(db, d, n)
  <2>1. p[1] = db /\ p[2] >= d /\ p[2] < d + n
    BY <1>4, InRun
  <2>2. p[2] - d \in 0..n - 1 /\ dst[p[2] - d] = p
    BY <1>2, <1>3, <2>1
  <2>3. \A i \in I : i = p[2] - d
    BY <1>2, <1>3
  <2>4. I # {} /\ (CHOOSE i \in I : TRUE) = p[2] - d
    BY <1>2, <2>2, <2>3
  <2>5. src[p[2] - d] = <<sb, s + (p[2] - d)>>
    BY <1>2, <2>2
  <2> HIDE DEF I
  <2> QED BY <1>1, <1>4, <2>4, <2>5 DEF src, dst
<1>5. CASE p \notin Run(db, d, n)
  <2>1. I = {}
    BY <1>2, <1>5 DEF Run
  <2> HIDE DEF I
  <2> QED BY <1>1, <1>5, <2>1 DEF src, dst
<1> QED BY <1>4, <1>5

-----------------------------------------------------------------------------
(* What the processor sees.                                                *)

\* The OS at its own addresses, below the window or with the window closed.
LEMMA SeesItself ==
  ASSUME NEW w \in Int, NEW a \in Nat, NEW n \in Nat, a + n <= BANK,
         w = -1 \/ a + n <= AWIN
  PROVE  SeenRun(w, a, n) = Line(0, a, n)
<1>1. ASSUME NEW i \in 0..n - 1 PROVE Seen(w, a + i) = <<0, a + i>>
  <2>1. a + i \in 0..BANK - 1
    BY Sizes
  <2>2. (a + i) % BANK = a + i
    BY <2>1, ModSmall, Sizes
  <2>3. w = -1 \/ ~ (a + i >= AWIN)
    BY Sizes
  <2> QED BY <2>2, <2>3 DEF Seen
<1> QED BY <1>1 DEF SeenRun, Line

\* The TPA, in the chunk that the window is opened on.
LEMMA SeesTheChunk ==
  ASSUME NEW b \in {1, 2}, NEW a \in 0..BANK - 1, NEW n \in Nat, n <= CHUNK - (a % CHUNK)
  PROVE  LET w == 4 * b + a \div CHUNK IN
         SeenRun(w, AWIN + (a % CHUNK), n) = Line(b, a, n) /\ w \in 4..11
<1> DEFINE q == a \div CHUNK
           r == a % CHUNK
           w == 4 * b + q
<1>1. r \in 0..CHUNK - 1 /\ a = CHUNK * q + r
  BY DivMod, Sizes
<1>2. q \in 0..3
  BY InChunks, Sizes
<1>3. w \div 4 = b /\ w % 4 = q /\ w \in 4..11
  BY <1>2, WindowNumber
<1> HIDE DEF q, r, w
<1>4. ASSUME NEW i \in 0..n - 1 PROVE Seen(w, AWIN + r + i) = <<b, a + i>>
  <2>1. AWIN + r + i \in 0..BANK - 1 /\ AWIN + r + i >= AWIN
    BY <1>1, Sizes DEF r
  <2>2. (AWIN + r + i) % BANK = AWIN + r + i
    BY <2>1, ModSmall, Sizes
  <2>3. Seen(w, AWIN + r + i) = <<b, q * CHUNK + (AWIN + r + i) - AWIN>>
    BY <1>3, <2>1, <2>2 DEF Seen
  <2>4. q * CHUNK + (AWIN + r + i) - AWIN = a + i
    BY <1>1, <1>2, Sizes
  <2> QED BY <2>3, <2>4
<1>5. SeenRun(w, AWIN + r, n) = Line(b, a, n)
  BY <1>4 DEF SeenRun, Line
<1> QED BY <1>3, <1>5 DEF w, q, r

\* Plasmo's window on a half of the TPA.
LEMMA SeesTheHalf ==
  ASSUME NEW a \in Nat, NEW n \in Nat, n <= HALF - (a % HALF)
  PROVE  [i \in 0..n - 1 |-> InHalf(a \div HALF, (a % HALF) + i)] = Line(1, a, n)
<1> DEFINE q == a \div HALF
           r == a % HALF
<1>1. r \in 0..HALF - 1 /\ a = HALF * q + r /\ q \in Nat
  BY DivMod, Sizes
<1>2. n <= HALF - r
  OBVIOUS
<1> HIDE DEF q, r
<1>3. ASSUME NEW i \in 0..n - 1 PROVE InHalf(q, r + i) = <<1, a + i>>
  <2>1. r + i < HALF
    BY <1>1, <1>2, Sizes
  <2>2. q * HALF + (r + i) = a + i
    BY <1>1, Sizes
  <2>3. q * HALF + r + i = a + i
    BY <1>1, Sizes
  <2> QED BY <2>1, <2>2, <2>3 DEF InHalf
<1>4. [i \in 0..n - 1 |-> InHalf(q, r + i)] = Line(1, a, n)
  BY <1>3 DEF Line
<1> QED BY <1>4 DEF q, r

-----------------------------------------------------------------------------
(***************************************************************************)
(* The copy asked for, k bytes of it done: those are where they belong,    *)
(* and nothing else outside the bounce buffer has moved.  Held: bytes k to *)
(* k + n are in the bounce buffer.                                         *)
(***************************************************************************)
Asked(c) ==
  /\ c \in [sb : Banks, source : 0..BANK - 1, db : Banks, dest : 0..BANK - 1, length : Lengths]
  /\ Buffer(c.sb, c.source, c.length) /\ Buffer(c.db, c.dest, c.length)
  /\ Run(c.sb, c.source, c.length) \cap Run(c.db, c.dest, c.length) = {}

Done(o, c, k) ==
  \A p \in Places \ Run(0, 0, BOUNCE) :
    o[p] = IF p \in Run(c.db, c.dest, k) THEN <<c.sb, c.source + p[2] - c.dest>> ELSE p

Held(o, c, k, n) == \A i \in 0..n - 1 : o[<<0, i>>] = <<c.sb, c.source + k + i>>

LEMMA AskedFacts ==
  ASSUME NEW c, Asked(c)
  PROVE  /\ c.sb \in Banks /\ c.db \in Banks
         /\ c.source \in Nat /\ c.dest \in Nat /\ c.length \in Nat /\ c.length > 0
         /\ c.source + c.length <= BANK /\ c.dest + c.length <= BANK
         /\ c.sb = 0 => c.source >= BOUNCE /\ c.source + c.length <= OSEnd
         /\ c.db = 0 => c.dest >= BOUNCE /\ c.dest + c.length <= OSEnd
BY Sizes DEF Asked, Buffer

LEMMA InBounce ==
  ASSUME NEW p \in Places
  PROVE  p \in Run(0, 0, BOUNCE) <=> p[1] = 0 /\ p[2] < BOUNCE
<1>1. p[2] \in Nat
  BY PlaceIs, Sizes
<1>2. p \in Run(0, 0, BOUNCE) <=> p[1] = 0 /\ p[2] >= 0 /\ p[2] < 0 + BOUNCE
  BY InRun, BanksThere, Sizes
<1> QED BY <1>1, <1>2, Sizes

\* A byte still to be copied is its own.
LEMMA Awaiting ==
  ASSUME NEW c, Asked(c), NEW o, NEW k \in Nat, Done(o, c, k),
         NEW i \in Nat, k <= i, i < c.length
  PROVE  o[<<c.sb, c.source + i>>] = <<c.sb, c.source + i>>
<1> DEFINE p == <<c.sb, c.source + i>>
<1>1. p \in Places /\ p[1] = c.sb /\ p[2] = c.source + i
  BY AskedFacts, Sizes DEF Places
<1>2. p \in Run(c.sb, c.source, c.length)
  BY <1>1, AskedFacts, InRun
<1>3. p \notin Run(c.db, c.dest, c.length)
  BY <1>2 DEF Asked
<1>4. p \notin Run(c.db, c.dest, k)
  BY <1>1, <1>3, AskedFacts, InRun, PlaceIs
<1>5. p \notin Run(0, 0, BOUNCE)
  BY <1>1, AskedFacts, InBounce, Sizes
<1> HIDE DEF p
<1>6. o[p] = p
  BY <1>1, <1>4, <1>5 DEF Done
<1> QED BY <1>6 DEF p

\* The next m bytes come to their places.
LEMMA DoneMore ==
  ASSUME NEW c, Asked(c), NEW o, NEW k \in Nat, NEW m \in Nat, Done(o, c, k), NEW new,
         \A p \in Places \ Run(0, 0, BOUNCE) :
           new[p] = IF p \in Run(c.db, c.dest + k, m) THEN <<c.sb, c.source + p[2] - c.dest>> ELSE o[p]
  PROVE  Done(new, c, k + m)
<1> SUFFICES ASSUME NEW p \in Places \ Run(0, 0, BOUNCE)
             PROVE  new[p] = IF p \in Run(c.db, c.dest, k + m)
                             THEN <<c.sb, c.source + p[2] - c.dest>> ELSE p
  BY DEF Done
<1>1. p[2] \in Nat
  BY PlaceIs, Sizes
<1>2. p \in Run(c.db, c.dest, k + m)
        <=> p \in Run(c.db, c.dest, k) \/ p \in Run(c.db, c.dest + k, m)
  BY <1>1, AskedFacts, InRun
<1>3. o[p] = IF p \in Run(c.db, c.dest, k) THEN <<c.sb, c.source + p[2] - c.dest>> ELSE p
  BY DEF Done
<1> QED BY <1>2, <1>3

\* new is o after the n bytes from s on in bank sb have come to d in bank db.
Copied(new, o, sb, s, db, d, n) ==
  \A p \in Places : new[p] = IF p \in Run(db, d, n) THEN o[<<sb, s + (p[2] - d)>>] ELSE o[p]

LEMMA MovedCopies ==
  ASSUME NEW o, NEW sb \in Banks, NEW s \in Nat, NEW db \in Banks, NEW d \in Nat, NEW n \in Nat
  PROVE  Copied(Moved(o, Line(sb, s, n), Line(db, d, n)), o, sb, s, db, d, n)
<1> DEFINE new == Moved(o, Line(sb, s, n), Line(db, d, n))
<1>1. ASSUME NEW p \in Places
      PROVE  new[p] = IF p \in Run(db, d, n) THEN o[<<sb, s + (p[2] - d)>>] ELSE o[p]
  BY MovedLine
<1> HIDE DEF new
<1>2. Copied(new, o, sb, s, db, d, n)
  BY <1>1 DEF Copied
<1> QED BY <1>2 DEF new

\* The processor moves them there, m bytes in one instruction.
LEMMA Directly ==
  ASSUME NEW c, Asked(c), NEW o, NEW k \in Nat, NEW m \in Nat, k + m <= c.length, Done(o, c, k)
  PROVE  Done(Moved(o, Line(c.sb, c.source + k, m), Line(c.db, c.dest + k, m)), c, k + m)
<1> DEFINE s   == c.source + k
           d   == c.dest + k
           new == Moved(o, Line(c.sb, s, m), Line(c.db, d, m))
<1>1. /\ s \in Nat /\ d \in Nat /\ s - d = c.source - c.dest /\ d - c.dest = k
      /\ c.sb \in Banks /\ c.db \in Banks /\ c.source \in Nat /\ c.dest \in Nat
  BY AskedFacts
<1> HIDE DEF s, d
<1>2. Copied(new, o, c.sb, s, c.db, d, m)
  BY <1>1, MovedCopies
<1> HIDE DEF new
<1>3. ASSUME NEW p \in Places
      PROVE  new[p] = IF p \in Run(c.db, d, m) THEN <<c.sb, c.source + p[2] - c.dest>> ELSE o[p]
  <2>1. CASE p \in Run(c.db, d, m)
    <3> DEFINE i == p[2] - c.dest
    <3>1. p[2] \in Nat /\ p[2] >= d /\ p[2] < d + m
      BY <1>1, <2>1, InRun, PlaceIs, Sizes
    <3>2. /\ i \in Nat /\ k <= i /\ i < c.length
          /\ s + (p[2] - d) = c.source + i /\ c.source + p[2] - c.dest = c.source + i
      BY <1>1, <3>1, AskedFacts
    <3> HIDE DEF i
    <3>3. o[<<c.sb, c.source + i>>] = <<c.sb, c.source + i>>
      BY <3>2, Awaiting
    <3> QED BY <1>2, <2>1, <3>2, <3>3 DEF Copied
  <2> QED BY <1>2, <2>1 DEF Copied
<1>4. Done(new, c, k + m)
  BY <1>3, DoneMore DEF d
<1> QED BY <1>4 DEF new, s, d

\* They come into the bounce buffer, which holds j already.
LEMMA ToBounce ==
  ASSUME NEW c, Asked(c), NEW o, NEW k \in Nat, NEW j \in Nat, NEW m \in Nat,
         j + m <= BOUNCE, k + j + m <= c.length, Done(o, c, k), Held(o, c, k, j)
  PROVE  LET new == Moved(o, Line(c.sb, c.source + k + j, m), Line(0, j, m)) IN
         Done(new, c, k) /\ Held(new, c, k, j + m)
<1> DEFINE s   == c.source + k + j
           new == Moved(o, Line(c.sb, s, m), Line(0, j, m))
<1>1. s \in Nat /\ c.sb \in Banks /\ 0 \in Banks /\ c.source \in Nat /\ s = c.source + k + j
  BY AskedFacts, BanksThere
<1> HIDE DEF s
<1>2. Copied(new, o, c.sb, s, 0, j, m)
  BY <1>1, MovedCopies
<1> HIDE DEF new
<1>3. ASSUME NEW p \in Places \ Run(0, 0, BOUNCE) PROVE new[p] = o[p]
  <2>1. p \notin Run(0, j, m)
    BY InRun, InBounce, BanksThere, PlaceIs, Sizes
  <2> QED BY <1>2, <2>1 DEF Copied
<1>4. Done(new, c, k)
  BY <1>3 DEF Done
<1>5. ASSUME NEW i \in 0..(j + m) - 1 PROVE new[<<0, i>>] = <<c.sb, c.source + k + i>>
  <2> DEFINE p == <<0, i>>
  <2>1. p \in Places /\ p[1] = 0 /\ p[2] = i
    BY BanksThere, Sizes DEF Places
  <2>2. p \in Run(0, j, m) <=> i >= j
    BY <2>1, InRun, BanksThere
  <2> HIDE DEF p
  <2>3. CASE i >= j
    <3> DEFINE e == k + i
    <3>1. /\ e \in Nat /\ k <= e /\ e < c.length
          /\ s + (i - j) = c.source + e /\ c.source + k + i = c.source + e
      BY <1>1, <2>3, AskedFacts
    <3> HIDE DEF e
    <3>2. o[<<c.sb, c.source + e>>] = <<c.sb, c.source + e>>
      BY <3>1, Awaiting
    <3>3. new[p] = o[<<c.sb, s + (i - j)>>]
      BY <1>2, <2>1, <2>2, <2>3 DEF Copied
    <3> QED BY <3>1, <3>2, <3>3 DEF p
  <2>4. CASE ~ (i >= j)
    <3>1. new[p] = o[p]
      BY <1>2, <2>1, <2>2, <2>4 DEF Copied
    <3>2. i \in 0..j - 1
      BY <2>4
    <3>3. o[<<0, i>>] = <<c.sb, c.source + k + i>>
      BY <3>2 DEF Held
    <3> QED BY <3>1, <3>3 DEF p
  <2> QED BY <2>3, <2>4
<1>6. Held(new, c, k, j + m)
  BY <1>5 DEF Held
<1> QED BY <1>4, <1>6 DEF new, s

\* They leave it, j of its n bytes having left before.
LEMMA FromBounce ==
  ASSUME NEW c, Asked(c), NEW o, NEW k \in Nat, NEW j \in Nat, NEW m \in Nat, NEW n \in Nat,
         j + m <= n, n <= BOUNCE, k + n <= c.length, Done(o, c, k + j), Held(o, c, k, n)
  PROVE  LET new == Moved(o, Line(0, j, m), Line(c.db, c.dest + k + j, m)) IN
         Done(new, c, k + j + m) /\ (c.db # 0 => Held(new, c, k, n))
<1> DEFINE d   == c.dest + k + j
           new == Moved(o, Line(0, j, m), Line(c.db, d, m))
<1>1. /\ d \in Nat /\ c.db \in Banks /\ 0 \in Banks /\ c.source \in Nat /\ c.dest \in Nat
      /\ d = c.dest + k + j /\ d = c.dest + (k + j)
  BY AskedFacts, BanksThere
<1> HIDE DEF d
<1>2. Copied(new, o, 0, j, c.db, d, m)
  BY <1>1, MovedCopies
<1> HIDE DEF new
<1>3. ASSUME NEW p \in Places, p \in Run(c.db, d, m)
      PROVE  new[p] = <<c.sb, c.source + p[2] - c.dest>>
  <2> DEFINE i == p[2] - (c.dest + k)
  <2>1. p[2] \in Nat /\ p[2] >= d /\ p[2] < d + m
    BY <1>1, <1>3, InRun, PlaceIs, Sizes
  <2>2. i \in 0..n - 1 /\ j + (p[2] - d) = i /\ c.source + k + i = c.source + p[2] - c.dest
    BY <1>1, <2>1
  <2> HIDE DEF i
  <2>3. o[<<0, i>>] = <<c.sb, c.source + k + i>>
    BY <2>2 DEF Held
  <2> QED BY <1>2, <1>3, <2>2, <2>3 DEF Copied
<1>4. ASSUME NEW p \in Places
      PROVE  new[p] = IF p \in Run(c.db, c.dest + (k + j), m)
                      THEN <<c.sb, c.source + p[2] - c.dest>> ELSE o[p]
  BY <1>1, <1>2, <1>3 DEF Copied
<1>5. Done(new, c, k + j + m)
  <2> DEFINE e == k + j
  <2>1. e \in Nat
    OBVIOUS
  <2> HIDE DEF e
  <2>2. Done(new, c, e + m)
    BY <1>4, <2>1, DoneMore DEF e
  <2> QED BY <2>2 DEF e
<1>6. ASSUME c.db # 0 PROVE Held(new, c, k, n)
  <2>1. ASSUME NEW i \in 0..n - 1 PROVE new[<<0, i>>] = o[<<0, i>>]
    <3> DEFINE p == <<0, i>>
    <3>1. p \in Places /\ p[1] = 0
      BY BanksThere, Sizes DEF Places
    <3>2. p \notin Run(c.db, d, m)
      BY <1>1, <1>6, <3>1, InRun
    <3> HIDE DEF p
    <3>3. new[p] = o[p]
      BY <1>2, <3>1, <3>2 DEF Copied
    <3> QED BY <3>3 DEF p
  <2> QED BY <2>1 DEF Held
<1> QED BY <1>5, <1>6 DEF new, d

-----------------------------------------------------------------------------
(* Calls of mem_bcp: one round, wherever the window is opened.             *)

Piece(sb, s, db, d, n) == [sb |-> sb, source |-> s, db |-> db, dest |-> d, length |-> n]

Pieces == [sb : Int, source : Int, db : Int, dest : Int, length : Int]

LEMMA RestIsPiece ==
  ASSUME NEW c \in Pieces, NEW k \in Int
  PROVE  Rest(c, k) = Piece(c.sb, c.source + k, c.db, c.dest + k, c.length - k)
<1> DEFINE c1 == [c EXCEPT !.source = c.source + k]
           c2 == [c1 EXCEPT !.dest = c.dest + k]
           c3 == [c2 EXCEPT !.length = c.length - k]
<1>1. c1 = Piece(c.sb, c.source + k, c.db, c.dest, c.length) /\ c1 \in Pieces
  BY DEF Piece, Pieces
<1>2. c2 = Piece(c.sb, c.source + k, c.db, c.dest + k, c.length) /\ c2 \in Pieces
  <2> HIDE DEF c1
  <2> QED BY <1>1 DEF Piece, Pieces
<1>3. c3 = Piece(c.sb, c.source + k, c.db, c.dest + k, c.length - k)
  <2> HIDE DEF c2
  <2> QED BY <1>2 DEF Piece, Pieces
<1>4. Rest(c, k) = c3
  BY DEF Rest, Pieces
<1> QED BY <1>3, <1>4

LEMMA RestIs ==
  ASSUME NEW c, Asked(c), NEW k \in Int
  PROVE  Rest(c, k) = Piece(c.sb, c.source + k, c.db, c.dest + k, c.length - k)
<1>1. Banks \subseteq Int /\ Lengths \subseteq Int /\ 0..BANK - 1 \subseteq Int
  BY BanksThere, Sizes
<1>2. c \in [sb : Banks, source : 0..BANK - 1, db : Banks, dest : 0..BANK - 1, length : Lengths]
  BY DEF Asked
<1>3. c \in Pieces
  BY <1>1, <1>2 DEF Pieces
<1> QED BY <1>3, RestIsPiece

LEMMA RestOfNothing ==
  ASSUME NEW c, Asked(c)
  PROVE  Rest(c, 0) = c
<1>1. c.source + 0 = c.source /\ c.dest + 0 = c.dest /\ c.length - 0 = c.length
  BY AskedFacts
<1>2. c = Piece(c.sb, c.source, c.db, c.dest, c.length)
  BY DEF Asked, Piece
<1> QED BY <1>1, <1>2, RestIs

LEMMA RestOfRest ==
  ASSUME NEW c, Asked(c), NEW k \in Nat, NEW n \in Nat
  PROVE  Rest(Rest(c, k), n) = Rest(c, k + n)
<1> DEFINE g == Rest(c, k)
<1>1. Banks \subseteq Int /\ k \in Int /\ n \in Int /\ k + n \in Int
  BY BanksThere
<1>2. g = Piece(c.sb, c.source + k, c.db, c.dest + k, c.length - k)
  BY <1>1, RestIs
<1> HIDE DEF g
<1>3. /\ g.sb = c.sb /\ g.source = c.source + k /\ g.db = c.db /\ g.dest = c.dest + k
      /\ g.length = c.length - k
  BY <1>2 DEF Piece
<1>4. g \in Pieces
  <2>1. c.sb \in Banks /\ c.db \in Banks
    BY AskedFacts
  <2>2. c.sb \in Int /\ c.db \in Int
    BY <1>1, <2>1
  <2>3. c.source + k \in Int /\ c.dest + k \in Int /\ c.length - k \in Int
    BY AskedFacts
  <2> QED BY <1>2, <2>2, <2>3 DEF Piece, Pieces
<1>5. Rest(g, n) = Piece(g.sb, g.source + n, g.db, g.dest + n, g.length - n)
  BY <1>1, <1>4, RestIsPiece
<1>6. /\ g.source + n = c.source + (k + n) /\ g.dest + n = c.dest + (k + n)
      /\ g.length - n = c.length - (k + n)
  BY <1>3, AskedFacts
<1>7. Rest(c, k + n) = Piece(c.sb, c.source + (k + n), c.db, c.dest + (k + n), c.length - (k + n))
  BY <1>1, RestIs
<1> QED BY <1>3, <1>5, <1>6, <1>7 DEF g

\* A whole piece, from the TPA to the bounce buffer and on.
LEMMA BouncedPieces ==
  ASSUME NEW c \in Pieces, NEW n \in Int
  PROVE  /\ [c EXCEPT !.db = 0, !.dest = 0, !.length = n] = Piece(c.sb, c.source, 0, 0, n)
         /\ [c EXCEPT !.sb = 0, !.source = 0, !.length = n] = Piece(0, 0, c.db, c.dest, n)
<1> DEFINE i1 == [c EXCEPT !.db = 0]
           i2 == [i1 EXCEPT !.dest = 0]
           i3 == [i2 EXCEPT !.length = n]
           o1 == [c EXCEPT !.sb = 0]
           o2 == [o1 EXCEPT !.source = 0]
           o3 == [o2 EXCEPT !.length = n]
<1>1. i1 = Piece(c.sb, c.source, 0, c.dest, c.length) /\ i1 \in Pieces
  BY DEF Piece, Pieces
<1>2. i2 = Piece(c.sb, c.source, 0, 0, c.length) /\ i2 \in Pieces
  <2> HIDE DEF i1
  <2> QED BY <1>1 DEF Piece, Pieces
<1>3. i3 = Piece(c.sb, c.source, 0, 0, n)
  <2> HIDE DEF i2
  <2> QED BY <1>2 DEF Piece, Pieces
<1>4. o1 = Piece(0, c.source, c.db, c.dest, c.length) /\ o1 \in Pieces
  BY DEF Piece, Pieces
<1>5. o2 = Piece(0, 0, c.db, c.dest, c.length) /\ o2 \in Pieces
  <2> HIDE DEF o1
  <2> QED BY <1>4 DEF Piece, Pieces
<1>6. o3 = Piece(0, 0, c.db, c.dest, n)
  <2> HIDE DEF o2
  <2> QED BY <1>5 DEF Piece, Pieces
<1>7. [c EXCEPT !.db = 0, !.dest = 0, !.length = n] = i3
  BY DEF Pieces
<1>8. [c EXCEPT !.sb = 0, !.source = 0, !.length = n] = o3
  BY DEF Pieces
<1> QED BY <1>3, <1>6, <1>7, <1>8

LEMMA OneList == \A x : <<x>> \o <<>> = <<x>>
OBVIOUS

LEMMA ThreeList ==
  ASSUME NEW x, NEW y, NEW z
  PROVE  <<x, y, z>> \o <<>> = <<x, y, z>>
OBVIOUS

LEMMA PairList ==
  ASSUME NEW x, NEW y
  PROVE  <<x>> \o <<y>> = <<x, y>>
<1> DEFINE s == <<x>> \o <<y>>
<1>1. s \in Seq({x, y}) /\ Len(s) = 2 /\ s[1] = x /\ s[2] = y
  OBVIOUS
<1> HIDE DEF s
<1>2. s = [i \in 1..2 |-> s[i]] /\ <<x, y>> = [i \in 1..2 |-> <<x, y>>[i]]
  BY <1>1
<1>3. \A i \in 1..2 : s[i] = <<x, y>>[i]
  BY <1>1
<1> QED BY <1>2, <1>3, Zenon DEF s

LEMMA TripleList ==
  ASSUME NEW x, NEW y, NEW z
  PROVE  <<x>> \o <<y, z>> = <<x, y, z>>
<1> DEFINE s == <<x>> \o <<y, z>>
<1>1. s \in Seq({x, y, z}) /\ Len(s) = 3 /\ s[1] = x /\ s[2] = y /\ s[3] = z
  OBVIOUS
<1> HIDE DEF s
<1>2. s = [i \in 1..3 |-> s[i]] /\ <<x, y, z>> = [i \in 1..3 |-> <<x, y, z>>[i]]
  BY <1>1
<1>3. \A i \in 1..3 : s[i] = <<x, y, z>>[i]
  BY <1>1
<1> QED BY <1>2, <1>3, Zenon DEF s

\* A piece between the OS, below the window, and the TPA.
OneSide(sb, s, db, d, n) ==
  /\ sb \in Banks /\ db \in Banks /\ s \in Nat /\ d \in Nat /\ n \in Nat /\ n > 0
  /\ s + n <= BANK /\ d + n <= BANK /\ (sb = 0) # (db = 0)
  /\ (sb = 0 => s + n <= AWIN) /\ (db = 0 => d + n <= AWIN)

\* A first part of its bytes moves.
MovesOne(c, sb, s, db, d, n) ==
  \E m \in 1..n : /\ origin' = Moved(origin, Line(sb, s, m), Line(db, d, m))
                  /\ work' = <<Rest(c, m)>> \o Tail(work)

LEMMA WindowMoves ==
  ASSUME NEW sb, NEW s, NEW db, NEW d, NEW n, OneSide(sb, s, db, d, n),
         NEW c, c = Piece(sb, s, db, d, n), Windowed(c)
  PROVE  MovesOne(c, sb, s, db, d, n)
<1>0. /\ sb \in Banks /\ db \in Banks /\ s \in Nat /\ d \in Nat /\ n \in Nat /\ n > 0
      /\ s + n <= BANK /\ d + n <= BANK /\ (sb = 0) # (db = 0)
      /\ (sb = 0 => s + n <= AWIN) /\ (db = 0 => d + n <= AWIN)
  BY DEF OneSide
<1> DEFINE out == db # 0
           a   == IF out THEN d ELSE s
           b   == IF out THEN db ELSE sb
           m   == ClipToChunk(a, n)
           w   == 4 * b + a \div CHUNK
           tpa == SeenRun(w, AWIN + (a % CHUNK), m)
<1>1. c.sb = sb /\ c.source = s /\ c.db = db /\ c.dest = d /\ c.length = n
  BY DEF Piece
<1>2. n # 0
  BY <1>0
<1>3. /\ window' = w
      /\ origin' = IF out THEN Moved(origin, SeenRun(w, s, m), tpa)
                          ELSE Moved(origin, tpa, SeenRun(w, d, m))
      /\ work' = <<Rest(c, m)>> \o Tail(work)
  BY <1>1, <1>2 DEF Windowed
<1>4. b \in {1, 2} /\ a \in 0..BANK - 1 /\ a + n <= BANK
  BY <1>0, BanksThere, Sizes
<1>5. a % CHUNK \in 0..CHUNK - 1
  BY <1>4, DivMod, Sizes
<1> HIDE DEF a, b
<1>6. m \in Nat /\ m \in 1..n /\ m <= CHUNK - (a % CHUNK)
  <2> DEFINE room == CHUNK - (a % CHUNK)
  <2>1. room \in 1..CHUNK
    BY <1>5, Sizes
  <2>2. m = Least({n, room})
    BY DEF ClipToChunk
  <2> HIDE DEF m, room
  <2>3. n \in Int /\ room \in Int
    BY <1>0, <2>1, Sizes
  <2>4. m = IF n <= room THEN n ELSE room
    BY <2>2, <2>3, LeastOfTwo, Zenon
  <2>5. m \in Nat /\ m \in 1..n /\ m <= room
    BY <1>0, <2>1, <2>3, <2>4
  <2> QED BY <2>5 DEF room
<1> HIDE DEF m
<1>7. tpa = Line(b, a, m) /\ w \in 4..11
  BY <1>4, <1>6, SeesTheChunk
<1> HIDE DEF tpa, w
<1>8. w \in Int
  BY <1>7
<1>9. origin' = Moved(origin, Line(sb, s, m), Line(db, d, m))
  <2>1. CASE out
    <3>1. s + m <= AWIN /\ s + m <= BANK
      BY <1>0, <1>6, <2>1, Sizes
    <3>2. SeenRun(w, s, m) = Line(0, s, m)
      BY <1>0, <1>6, <1>8, <3>1, SeesItself
    <3> QED BY <1>0, <1>3, <1>7, <2>1, <3>2 DEF a, b
  <2>2. CASE ~ out
    <3>1. d + m <= AWIN /\ d + m <= BANK
      BY <1>0, <1>6, <2>2, Sizes
    <3>2. SeenRun(w, d, m) = Line(0, d, m)
      BY <1>0, <1>6, <1>8, <3>1, SeesItself
    <3> QED BY <1>0, <1>3, <1>7, <2>2, <3>2 DEF a, b
  <2> QED BY <2>1, <2>2
<1> QED BY <1>3, <1>6, <1>9 DEF MovesOne

\* Plasmo: they move through the bounce buffer.
LEMMA HalvesMove ==
  ASSUME board = "plasmo",
         NEW sb \in Banks, NEW db \in Banks, NEW s \in Nat, NEW d \in Nat, NEW n \in Nat, n > 0,
         ThroughBounce(Piece(sb, s, db, d, n))
  PROVE  \E m \in 1..n :
           /\ m <= BOUNCE
           /\ origin' = Moved(Moved(origin, Line(sb, s, m), Line(0, 0, m)), Line(0, 0, m), Line(db, d, m))
           /\ work' = <<Rest(Piece(sb, s, db, d, n), m)>> \o Tail(work)
           /\ window' = window
<1> DEFINE c  == Piece(sb, s, db, d, n)
           m1 == Least({n, BOUNCE})
           m2 == ClipToHalf(sb, s, m1)
           m  == ClipToHalf(db, d, m2)
           Cells(bank, a) == [i \in 0..m - 1 |-> IF bank = 0 THEN <<0, a + i>>
                                              ELSE InHalf(a \div HALF, (a % HALF) + i)]
<1>1. c.sb = sb /\ c.source = s /\ c.db = db /\ c.dest = d /\ c.length = n /\ n # 0
  BY DEF Piece
<1>2. /\ window' = window
      /\ origin' = Moved(Moved(origin, Cells(sb, s), Cells(0, 0)), Cells(0, 0), Cells(db, d))
      /\ work' = <<Rest(c, m)>> \o Tail(work)
  BY <1>1 DEF ThroughBounce
<1>3. m1 \in 1..n /\ m1 <= BOUNCE
  <2> HIDE DEF m1
  <2>1. n \in Int /\ BOUNCE \in Int
    BY Sizes
  <2>2. m1 = IF n <= BOUNCE THEN n ELSE BOUNCE
    BY <2>1, LeastOfTwo, Zenon DEF m1
  <2> QED BY <2>2, Sizes
<1> HIDE DEF m1
<1>4. ASSUME NEW bank \in Banks, NEW a \in Nat, NEW x \in Nat, x > 0
      PROVE  LET y == ClipToHalf(bank, a, x) IN
             y \in Nat /\ y > 0 /\ y <= x /\ (bank # 0 => y <= HALF - (a % HALF))
  <2> DEFINE room == HALF - (a % HALF)
             y    == ClipToHalf(bank, a, x)
  <2>1. room \in 1..HALF
    <3>1. a % HALF \in 0..HALF - 1
      BY DivMod, Sizes
    <3> QED BY <3>1, Sizes
  <2>2. y = IF bank = 0 THEN x ELSE Least({x, room})
    BY DEF ClipToHalf
  <2> HIDE DEF y, room
  <2>3. x \in Int /\ room \in Int
    BY <2>1
  <2>4. Least({x, room}) = IF x <= room THEN x ELSE room
    BY <2>3, LeastOfTwo, Zenon
  <2>5. y \in Nat /\ y > 0 /\ y <= x /\ (bank # 0 => y <= room)
    BY <1>4, <2>1, <2>2, <2>4
  <2> QED BY <2>5 DEF y, room
<1>5. m2 \in Nat /\ m2 > 0 /\ m2 <= m1 /\ (sb # 0 => m2 <= HALF - (s % HALF))
  <2>1. m1 \in Nat /\ m1 > 0
    BY <1>3
  <2> QED BY <1>4, <2>1
<1> HIDE DEF m2
<1>6. m \in Nat /\ m > 0 /\ m <= m2 /\ (db # 0 => m <= HALF - (d % HALF))
  BY <1>4, <1>5
<1> HIDE DEF m
<1>7. sb # 0 => m <= HALF - (s % HALF)
  <2> DEFINE room == HALF - (s % HALF)
  <2>1. s % HALF \in Int
    BY DivMod, Sizes
  <2> QED BY <1>5, <1>6, <2>1, Sizes
<1>8. ASSUME NEW bank \in Banks, NEW a \in Nat, bank # 0 => m <= HALF - (a % HALF)
      PROVE  Cells(bank, a) = Line(bank, a, m)
  <2>1. CASE bank = 0
    BY <2>1 DEF Line
  <2>2. CASE bank # 0
    <3>1. bank = 1
      BY <2>2, BanksThere
    <3>2. [i \in 0..m - 1 |-> InHalf(a \div HALF, (a % HALF) + i)] = Line(1, a, m)
      BY <1>6, <1>8, <2>2, SeesTheHalf
    <3> QED BY <3>1, <3>2
  <2> QED BY <2>1, <2>2
<1>9. Cells(sb, s) = Line(sb, s, m) /\ Cells(db, d) = Line(db, d, m) /\ Cells(0, 0) = Line(0, 0, m)
  BY <1>6, <1>7, <1>8, BanksThere
<1> HIDE DEF Cells
<1>10. m \in 1..n /\ m <= BOUNCE
  BY <1>3, <1>5, <1>6, Sizes
<1> QED BY <1>2, <1>9, <1>10

-----------------------------------------------------------------------------
(***************************************************************************)
(* The memory manager between its steps.  A copy that uses one side of the *)
(* window is a row of rounds.  One within the TPA collects a bounce buffer *)
(* and delivers it, and both again are rows of rounds: that no byte is in  *)
(* the buffer that is not the next to be delivered is what makes it exact. *)
(***************************************************************************)
Across(c) == (c.sb = 0) # (c.db = 0)

Round(k) ==
  /\ k <= req.length
  /\ work = <<Rest(req, k)>> /\ Done(origin, req, k)
  /\ board = "plasmo" \/ ~ Across(req) => window = -1

Finished == work = <<>> /\ window = -1 /\ Done(origin, req, req.length)

Within(k, n, j) ==
  /\ board # "plasmo" /\ req.sb # 0 /\ req.db # 0
  /\ n > 0 /\ n <= BOUNCE /\ k + n <= req.length /\ j <= n

Collecting(k, n, j) ==
  /\ Within(k, n, j)
  /\ work = << Piece(req.sb, req.source + k + j, 0, j, n - j),
               Piece(0, 0, req.db, req.dest + k, n), Rest(req, k + n) >>
  /\ Done(origin, req, k) /\ Held(origin, req, k, j)

Delivering(k, n, j) ==
  /\ Within(k, n, j)
  /\ work = << Piece(0, j, req.db, req.dest + k + j, n - j), Rest(req, k + n) >>
  /\ Done(origin, req, k + j) /\ Held(origin, req, k, n)

AtRest == req = NoCopy /\ work = <<>> /\ window = -1

Copying ==
  /\ req # NoCopy /\ Asked(req)
  /\ \/ Finished
     \/ \E k \in Nat : Round(k)
     \/ \E k, n, j \in Nat : Collecting(k, n, j) \/ Delivering(k, n, j)

CopyInv == (AtRest /\ origin = Here) \/ Copying

\* What a step keeps while a copy goes on.
LEMMA StillAsked ==
  ASSUME board' = board, req' = req, req # NoCopy, Asked(req)
  PROVE  /\ req' # NoCopy' /\ Asked(req)'
         /\ \A k : Done(origin', req, k) => Done(origin, req, k)'
<1>1. Banks' = Banks /\ OSEnd' = OSEnd /\ Places' = Places
  BY DEF Banks, OSEnd, Places
<1>2. NoCopy' = NoCopy
  BY DEF NoCopy
<1> QED BY <1>1, <1>2 DEF Asked, Buffer, Done, Run

LEMMA CopyInvExact == CopyInv => CopyIsExact
<1> SUFFICES ASSUME CopyInv, work = <<>> PROVE CopyIsExact
  BY DEF CopyIsExact
<1>1. AtRest \/ Copying
  BY DEF CopyInv
<1>2. CASE AtRest
  BY <1>2 DEF AtRest, CopyIsExact
<1>3. CASE Copying
  <2>1. Finished
    BY <1>3 DEF Copying, Round, Collecting, Delivering
  <2> QED BY <2>1 DEF Finished, Done, CopyIsExact
<1> QED BY <1>1, <1>2, <1>3

LEMMA NothingDone ==
  ASSUME NEW c, Asked(c)
  PROVE  Done(Here, c, 0)
<1>1. ASSUME NEW p \in Places PROVE p \notin Run(c.db, c.dest, 0) /\ Here[p] = p
  BY AskedFacts, InRun, PlaceIs, Sizes DEF Here
<1> QED BY <1>1 DEF Done

LEMMA CopyBegins ==
  ASSUME CopyInv, NEW c, MemCopy(c), c.sb \in Banks, c.db \in Banks,
         c \in [sb : Banks, source : 0..BANK - 1, db : Banks, dest : 0..BANK - 1, length : Lengths]
  PROVE  CopyInv'
<1>1. /\ req' = c /\ work' = <<c>> /\ UNCHANGED <<board, window, origin>>
      /\ req = NoCopy /\ Asked(c)
  BY DEF MemCopy, Asked
<1>2. AtRest /\ origin = Here
  BY <1>1 DEF CopyInv, Copying
<1>3. c # NoCopy
  BY <1>1, AskedFacts DEF NoCopy
<1>4. Banks' = Banks /\ OSEnd' = OSEnd /\ Places' = Places /\ NoCopy' = NoCopy
  BY <1>1 DEF Banks, OSEnd, Places, NoCopy
<1>5. Asked(req)'
  BY <1>1, <1>4 DEF Asked, Buffer, Run
<1>6. Done(origin, req, 0)'
  BY <1>1, <1>2, <1>4, NothingDone DEF Done, Run
<1>7. Round(0)'
  <2>1. work' = <<Rest(req', 0)>> /\ 0 <= req'.length /\ window' = -1
    BY <1>1, <1>2, RestOfNothing, AskedFacts DEF AtRest
  <2> QED BY <1>6, <2>1 DEF Round
<1> QED BY <1>1, <1>3, <1>4, <1>5, <1>7 DEF CopyInv, Copying

\* What goes on is again one of the phases of the copy.
LEMMA GoesOn ==
  ASSUME board' = board, req' = req, req # NoCopy, Asked(req),
         \/ Finished'
         \/ \E k \in Nat : Round(k)'
         \/ \E k, n, j \in Nat : Collecting(k, n, j)' \/ Delivering(k, n, j)'
  PROVE  CopyInv'
BY StillAsked DEF CopyInv, Copying

LEMMA NextRound ==
  ASSUME board' = board, req' = req, req # NoCopy, Asked(req),
         NEW k \in Nat, k <= req.length, Done(origin', req, k), work' = <<Rest(req, k)>>,
         board = "plasmo" \/ ~ Across(req) => window' = -1
  PROVE  CopyInv'
<1>1. Round(k)'
  BY StillAsked DEF Round, Across
<1> QED BY <1>1, GoesOn

LEMMA NextFinished ==
  ASSUME board' = board, req' = req, req # NoCopy, Asked(req),
         Done(origin', req, req.length), work' = <<>>, window' = -1
  PROVE  CopyInv'
<1>1. Finished'
  BY StillAsked DEF Finished
<1> QED BY <1>1, GoesOn

LEMMA NextCollecting ==
  ASSUME board' = board, req' = req, req # NoCopy, Asked(req),
         NEW k \in Nat, NEW n \in Nat, NEW j \in Nat, Within(k, n, j),
         work' = << Piece(req.sb, req.source + k + j, 0, j, n - j),
                    Piece(0, 0, req.db, req.dest + k, n), Rest(req, k + n) >>,
         Done(origin', req, k), Held(origin', req, k, j)
  PROVE  CopyInv'
<1>1. Collecting(k, n, j)'
  BY StillAsked DEF Collecting, Within, Held
<1> QED BY <1>1, GoesOn

LEMMA NextDelivering ==
  ASSUME board' = board, req' = req, req # NoCopy, Asked(req),
         NEW k \in Nat, NEW n \in Nat, NEW j \in Nat, Within(k, n, j),
         work' = << Piece(0, j, req.db, req.dest + k + j, n - j), Rest(req, k + n) >>,
         Done(origin', req, k + j), Held(origin', req, k, n)
  PROVE  CopyInv'
<1>1. Delivering(k, n, j)'
  BY StillAsked DEF Delivering, Within, Held
<1> QED BY <1>1, GoesOn

LEMMA RoundStep ==
  ASSUME req # NoCopy, Asked(req), MemBcp, NEW k \in Nat, Round(k)
  PROVE  CopyInv'
<1> DEFINE c == Rest(req, k)
           s == req.source + k
           d == req.dest + k
           n == req.length - k
<1>1. /\ board' = board /\ req' = req /\ work = <<c>> /\ k <= req.length /\ Done(origin, req, k)
      /\ board = "plasmo" \/ ~ Across(req) => window = -1
  BY DEF MemBcp, Round
<1>2. Head(work) = c /\ Tail(work) = <<>>
  BY <1>1
<1>3. \/ board = "plasmo" /\ ~ (c.sb = 0 /\ c.db = 0) /\ ThroughBounce(c)
      \/ ~ (board = "plasmo" /\ ~ (c.sb = 0 /\ c.db = 0)) /\ (FlatCopy(c) \/ Bounced(c) \/ Windowed(c))
  BY <1>2 DEF MemBcp
<1>4. /\ s \in Nat /\ d \in Nat /\ n \in Nat /\ s + n <= BANK /\ d + n <= BANK
      /\ req.sb \in Banks /\ req.db \in Banks /\ req.length \in Nat /\ k + n = req.length
      /\ req.sb = 0 => s + n <= OSEnd
      /\ req.db = 0 => d + n <= OSEnd
  BY <1>1, AskedFacts, Sizes DEF OSEnd
<1>5. c = Piece(req.sb, s, req.db, d, n)
  BY RestIs
<1>6. c.sb = req.sb /\ c.db = req.db /\ c.source = s /\ c.dest = d /\ c.length = n
  BY <1>5 DEF Piece
<1>7. \A m : <<Rest(c, m)>> \o Tail(work) = <<Rest(c, m)>>
  <2> HIDE DEF c
  <2> QED BY <1>2, OneList
<1>8. \A m \in Nat : Rest(c, m) = Rest(req, k + m)
  BY RestOfRest
<1> HIDE DEF c, s, d, n
<1>9. ASSUME n = 0, work' = Tail(work), origin' = origin, window' = -1 PROVE CopyInv'
  <2>1. k = req.length
    BY <1>4, <1>9
  <2> QED BY <1>1, <1>2, <1>9, <2>1, NextFinished
<1>10. CASE board = "plasmo" /\ ~ (c.sb = 0 /\ c.db = 0) /\ ThroughBounce(c)
  <2>1. CASE n = 0
    BY <1>1, <1>6, <1>9, <1>10, <2>1 DEF ThroughBounce
  <2>2. CASE n # 0
    <3>1. PICK m \in 1..n :
            /\ m <= BOUNCE
            /\ origin' = Moved(Moved(origin, Line(req.sb, s, m), Line(0, 0, m)),
                               Line(0, 0, m), Line(req.db, d, m))
            /\ work' = <<Rest(c, m)>> \o Tail(work)
            /\ window' = window
      <4>1. n > 0 /\ ThroughBounce(Piece(req.sb, s, req.db, d, n))
        BY <1>4, <1>5, <1>10, <2>2
      <4> QED BY <1>4, <1>5, <1>10, <4>1, HalvesMove
    <3>2. /\ m \in Nat /\ 0 + m <= BOUNCE /\ k + 0 + m <= req.length /\ k + m <= req.length
          /\ s = req.source + k + 0 /\ d = req.dest + k + 0 /\ k + 0 = k /\ k + 0 + m = k + m
          /\ 0 + m = m
      BY <1>4, <3>1, AskedFacts DEF s, d
    <3> DEFINE mid == Moved(origin, Line(req.sb, s, m), Line(0, 0, m))
    <3>3. Held(origin, req, k, 0)
      BY DEF Held
    <3>4. Done(mid, req, k) /\ Held(mid, req, k, m)
      BY <1>1, <3>2, <3>3, ToBounce
    <3> HIDE DEF mid
    <3>5. Done(Moved(mid, Line(0, 0, m), Line(req.db, d, m)), req, k + m)
      BY <3>2, <3>4, FromBounce
    <3>6. work' = <<Rest(req, k + m)>> /\ k + m \in Nat
      <4>1. Rest(c, m) = Rest(req, k + m) /\ k + m \in Nat
        BY <1>8, <3>2
      <4> QED BY <1>7, <3>1, <4>1
    <3> QED BY <1>1, <1>10, <3>1, <3>2, <3>5, <3>6, NextRound DEF mid
  <2> QED BY <2>1, <2>2
<1>11. CASE FlatCopy(c)
  <2>1. /\ req.sb = 0 /\ req.db = 0 /\ window = -1 /\ window' = -1 /\ work' = <<>>
        /\ origin' = Moved(origin, SeenRun(window, s, n), SeenRun(window, d, n))
    BY <1>1, <1>2, <1>6, <1>11 DEF FlatCopy, Across
  <2>2. SeenRun(window, s, n) = Line(0, s, n) /\ SeenRun(window, d, n) = Line(0, d, n)
    BY <1>4, <2>1, SeesItself
  <2>3. Done(Moved(origin, Line(req.sb, s, n), Line(req.db, d, n)), req, k + n)
    BY <1>1, <1>4, Directly DEF s, d
  <2> QED BY <1>1, <1>4, <2>1, <2>2, <2>3, NextFinished
<1>12. CASE board # "plasmo" /\ Bounced(c)
  <2>1. req.sb # 0 /\ req.db # 0 /\ window' = window /\ origin' = origin /\ window = -1
    BY <1>1, <1>6, <1>12 DEF Bounced, Across
  <2>2. CASE n = 0
    BY <1>6, <1>9, <1>12, <2>1, <2>2 DEF Bounced
  <2>3. CASE n # 0
    <3> DEFINE m == Least({n, BOUNCE})
    <3>1. work' = << [c EXCEPT !.db = 0, !.dest = 0, !.length = m],
                     [c EXCEPT !.sb = 0, !.source = 0, !.length = m], Rest(c, m) >> \o Tail(work)
      BY <1>6, <1>12, <2>3 DEF Bounced
    <3> HIDE DEF m
    <3>2. m \in Nat /\ m > 0 /\ m <= n /\ m <= BOUNCE
      <4>1. n \in Int /\ BOUNCE \in Int
        BY <1>4, Sizes
      <4>2. m = IF n <= BOUNCE THEN n ELSE BOUNCE
        BY <4>1, LeastOfTwo, Zenon DEF m
      <4> QED BY <1>4, <2>3, <4>2, Sizes
    <3>3. c \in Pieces
      <4>1. req.sb \in Int /\ req.db \in Int
        <5>1. Banks \subseteq Int
          BY BanksThere
        <5> QED BY <1>4, <5>1
      <4> QED BY <1>4, <1>5, <4>1 DEF Piece, Pieces
    <3>4. /\ [c EXCEPT !.db = 0, !.dest = 0, !.length = m] = Piece(req.sb, s, 0, 0, m)
          /\ [c EXCEPT !.sb = 0, !.source = 0, !.length = m] = Piece(0, 0, req.db, d, m)
      <4>1. m \in Int
        BY <3>2
      <4>2. /\ [c EXCEPT !.db = 0, !.dest = 0, !.length = m] = Piece(c.sb, c.source, 0, 0, m)
            /\ [c EXCEPT !.sb = 0, !.source = 0, !.length = m] = Piece(0, 0, c.db, c.dest, m)
        BY <3>3, <4>1, BouncedPieces, Zenon
      <4> QED BY <1>6, <4>2
    <3>5. work' = << Piece(req.sb, s, 0, 0, m), Piece(0, 0, req.db, d, m), Rest(req, k + m) >>
      <4>1. Rest(c, m) = Rest(req, k + m)
        BY <1>8, <3>2
      <4>2. work' = << Piece(req.sb, s, 0, 0, m), Piece(0, 0, req.db, d, m), Rest(req, k + m) >> \o <<>>
        BY <1>2, <3>1, <3>4, <4>1
      <4> QED BY <4>2, ThreeList
    <3>6. s = req.source + k + 0 /\ m = m - 0 /\ k + m <= req.length /\ 0 <= m
      BY <1>4, <3>2, AskedFacts DEF s
    <3>7. Within(k, m, 0)
      BY <1>12, <2>1, <3>2, <3>6 DEF Within
    <3>8. Held(origin, req, k, 0)
      BY DEF Held
    <3> QED BY <1>1, <2>1, <3>2, <3>5, <3>6, <3>7, <3>8, NextCollecting DEF d
  <2> QED BY <2>2, <2>3
<1>13. CASE board # "plasmo" /\ Windowed(c)
  <2>1. (req.sb = 0) # (req.db = 0)
    BY <1>6, <1>13 DEF Windowed
  <2>2. CASE n = 0
    BY <1>6, <1>9, <1>13, <2>2 DEF Windowed
  <2>3. CASE n # 0
    <3>1. OSEnd = AWIN
      BY <1>13 DEF OSEnd
    <3>2. OneSide(req.sb, s, req.db, d, n)
      BY <1>4, <2>1, <2>3, <3>1 DEF OneSide
    <3>3. MovesOne(c, req.sb, s, req.db, d, n)
      BY <1>5, <1>13, <3>2, WindowMoves
    <3>4. PICK m \in 1..n : /\ origin' = Moved(origin, Line(req.sb, s, m), Line(req.db, d, m))
                            /\ work' = <<Rest(c, m)>> \o Tail(work)
      BY <3>3 DEF MovesOne
    <3>5. m \in Nat /\ k + m \in Nat /\ k + m <= req.length
      BY <1>4, <3>4
    <3>6. Done(origin', req, k + m)
      BY <1>1, <3>4, <3>5, Directly DEF s, d
    <3>7. work' = <<Rest(req, k + m)>>
      BY <1>7, <1>8, <3>4, <3>5
    <3> QED BY <1>1, <1>13, <2>1, <3>5, <3>6, <3>7, NextRound DEF Across
  <2> QED BY <2>2, <2>3
<1>14. CASE board = "plasmo" /\ (Bounced(c) \/ Windowed(c)) /\ c.sb = 0 /\ c.db = 0
  BY <1>14 DEF Bounced, Windowed
<1> QED BY <1>3, <1>10, <1>11, <1>12, <1>13, <1>14

LEMMA CollectStep ==
  ASSUME req # NoCopy, Asked(req), MemBcp,
         NEW k \in Nat, NEW n \in Nat, NEW j \in Nat, Collecting(k, n, j)
  PROVE  CopyInv'
<1> DEFINE sb == req.sb
           s  == req.source + k + j
           l  == n - j
           c  == Piece(sb, s, 0, j, l)
           q  == Piece(0, 0, req.db, req.dest + k, n)
           r  == Rest(req, k + n)
<1>1. /\ board' = board /\ req' = req /\ work = <<c, q, r>>
      /\ Within(k, n, j) /\ Done(origin, req, k) /\ Held(origin, req, k, j)
  BY DEF MemBcp, Collecting
<1>2. /\ board # "plasmo" /\ sb # 0 /\ sb \in Banks /\ 0 \in Banks /\ Banks \subseteq Int
      /\ s \in Nat /\ l \in Nat /\ j + l = n /\ n <= BOUNCE /\ k + n <= req.length
      /\ s + l <= BANK /\ j + l <= BANK /\ j + l <= AWIN
  BY <1>1, AskedFacts, BanksThere, Sizes DEF Within
<1>3. c.sb = sb /\ c.db = 0 /\ c.source = s /\ c.dest = j /\ c.length = l
  BY DEF Piece
<1> HIDE DEF sb, s, l, c, q, r
<1>4. Head(work) = c /\ Tail(work) = <<q, r>>
  BY <1>1
<1>5. Windowed(c)
  BY <1>2, <1>3, <1>4 DEF MemBcp, FlatCopy, Bounced
<1>6. CASE l = 0
  <2>1. n = j
    BY <1>2, <1>6
  <2>2. work' = <<q, r>> /\ origin' = origin
    BY <1>3, <1>4, <1>5, <1>6 DEF Windowed
  <2>3. q = Piece(0, 0, req.db, req.dest + k + 0, n - 0) /\ k + 0 = k
    BY AskedFacts DEF q
  <2>4. Within(k, n, 0)
    BY <1>1 DEF Within
  <2> QED BY <1>1, <2>1, <2>2, <2>3, <2>4, NextDelivering DEF r
<1>7. CASE l # 0
  <2>1. OneSide(sb, s, 0, j, l)
    BY <1>2, <1>7 DEF OneSide
  <2>2. MovesOne(c, sb, s, 0, j, l)
    BY <1>5, <2>1, WindowMoves DEF c
  <2>3. PICK m \in 1..l : /\ origin' = Moved(origin, Line(sb, s, m), Line(0, j, m))
                          /\ work' = <<Rest(c, m)>> \o Tail(work)
    BY <2>2 DEF MovesOne
  <2>4. /\ m \in Nat /\ m \in Int /\ j + m \in Nat /\ j + m <= n /\ j + m <= BOUNCE
        /\ k + j + m <= req.length /\ l - m = n - (j + m)
    <3>1. BOUNCE \in Nat /\ req.length \in Nat
      BY Sizes, AskedFacts
    <3> QED BY <1>2, <2>3, <3>1
  <2>5. s + m = req.source + k + (j + m)
    BY <2>4, AskedFacts DEF s
  <2>6. Done(origin', req, k) /\ Held(origin', req, k, j + m)
    BY <1>1, <2>3, <2>4, ToBounce DEF sb, s
  <2>7. c \in Pieces
    BY <1>2 DEF c, Piece, Pieces
  <2>8. Rest(c, m) = Piece(sb, s + m, 0, j + m, l - m)
    BY <1>3, <2>4, <2>7, RestIsPiece
  <2>9. work' = <<Rest(c, m), q, r>>
    BY <1>4, <2>3, TripleList
  <2>10. Within(k, n, j + m)
    BY <1>1, <2>4 DEF Within
  <2>11. work' = << Piece(req.sb, req.source + k + (j + m), 0, j + m, n - (j + m)),
                    Piece(0, 0, req.db, req.dest + k, n), Rest(req, k + n) >>
    BY <2>4, <2>5, <2>8, <2>9 DEF sb, q, r
  <2> QED BY <1>1, <2>4, <2>6, <2>10, <2>11, NextCollecting
<1> QED BY <1>6, <1>7

LEMMA DeliverStep ==
  ASSUME req # NoCopy, Asked(req), MemBcp,
         NEW k \in Nat, NEW n \in Nat, NEW j \in Nat, Delivering(k, n, j)
  PROVE  CopyInv'
<1> DEFINE db == req.db
           d  == req.dest + k + j
           l  == n - j
           c  == Piece(0, j, db, d, l)
           r  == Rest(req, k + n)
<1>1. /\ board' = board /\ req' = req /\ work = <<c, r>>
      /\ Within(k, n, j) /\ Done(origin, req, k + j) /\ Held(origin, req, k, n)
  BY DEF MemBcp, Delivering
<1>2. /\ board # "plasmo" /\ db # 0 /\ db \in Banks /\ 0 \in Banks /\ Banks \subseteq Int
      /\ d \in Nat /\ l \in Nat /\ j + l = n /\ n <= BOUNCE /\ k + n <= req.length
      /\ d + l <= BANK /\ j + l <= BANK /\ j + l <= AWIN
  BY <1>1, AskedFacts, BanksThere, Sizes DEF Within
<1>3. c.sb = 0 /\ c.db = db /\ c.source = j /\ c.dest = d /\ c.length = l
  BY DEF Piece
<1> HIDE DEF db, d, l, c, r
<1>4. Head(work) = c /\ Tail(work) = <<r>>
  BY <1>1
<1>5. Windowed(c)
  BY <1>2, <1>3, <1>4 DEF MemBcp, FlatCopy, Bounced
<1>6. CASE l = 0
  <2>1. n = j
    BY <1>2, <1>6
  <2>2. work' = <<r>> /\ window' = -1 /\ origin' = origin
    BY <1>3, <1>4, <1>5, <1>6 DEF Windowed
  <2>3. k + n \in Nat /\ k + n <= req.length /\ Done(origin', req, k + n)
    BY <1>1, <1>2, <2>1, <2>2
  <2> QED BY <1>1, <2>2, <2>3, NextRound DEF r
<1>7. CASE l # 0
  <2>1. OneSide(0, j, db, d, l)
    BY <1>2, <1>7 DEF OneSide
  <2>2. MovesOne(c, 0, j, db, d, l)
    BY <1>5, <2>1, WindowMoves DEF c
  <2>3. PICK m \in 1..l : /\ origin' = Moved(origin, Line(0, j, m), Line(db, d, m))
                          /\ work' = <<Rest(c, m)>> \o Tail(work)
    BY <2>2 DEF MovesOne
  <2>4. /\ m \in Nat /\ m \in Int /\ j + m \in Nat /\ j + m <= n /\ n <= BOUNCE
        /\ k + n <= req.length /\ l - m = n - (j + m) /\ k + j + m = k + (j + m)
    BY <1>2, <2>3, AskedFacts DEF l
  <2>5. d + m = req.dest + k + (j + m)
    BY <2>4, AskedFacts DEF d
  <2>6. Done(origin', req, k + j + m) /\ Held(origin', req, k, n)
    BY <1>1, <1>2, <2>3, <2>4, FromBounce DEF db, d
  <2>7. c \in Pieces
    BY <1>2 DEF c, Piece, Pieces
  <2>8. Rest(c, m) = Piece(0, j + m, db, d + m, l - m)
    BY <1>3, <2>4, <2>7, RestIsPiece
  <2>9. work' = <<Rest(c, m), r>>
    BY <1>4, <2>3, PairList
  <2>10. Within(k, n, j + m)
    BY <1>1, <2>4 DEF Within
  <2>11. work' = << Piece(0, j + m, req.db, req.dest + k + (j + m), n - (j + m)), Rest(req, k + n) >>
    BY <2>4, <2>5, <2>8, <2>9 DEF db, r
  <2>12. Done(origin', req, k + (j + m))
    BY <2>4, <2>6
  <2> QED BY <1>1, <2>4, <2>6, <2>10, <2>11, <2>12, NextDelivering
<1> QED BY <1>6, <1>7

LEMMA CopyStep ==
  ASSUME MapInv, CopyInv, [BanksNext]_bvars
  PROVE  CopyInv'
<1>1. CASE UNCHANGED <<board, req, work, window, origin>>
  <2>1. CASE AtRest /\ origin = Here
    <3>1. NoCopy' = NoCopy /\ Here' = Here
      BY <1>1 DEF NoCopy, Here, Places, Banks
    <3> QED BY <1>1, <2>1, <3>1 DEF CopyInv, AtRest
  <2>2. CASE Copying
    <3>1. req # NoCopy /\ Asked(req)
      BY <2>2 DEF Copying
    <3>2. \A k : Done(origin, req, k) => Done(origin, req, k)'
      BY <1>1, <3>1, StillAsked
    <3>3. Finished => Finished'
      BY <1>1, <3>2 DEF Finished
    <3>4. \A k : Round(k) => Round(k)'
      BY <1>1, <3>2 DEF Round, Across
    <3>5. \A k, n, j : Within(k, n, j) => Within(k, n, j)'
      BY <1>1 DEF Within
    <3>6. \A k, n : Held(origin, req, k, n) => Held(origin, req, k, n)'
      BY <1>1 DEF Held
    <3>7. \A k, n, j : Collecting(k, n, j) => Collecting(k, n, j)'
      BY <1>1, <3>2, <3>5, <3>6 DEF Collecting
    <3>8. \A k, n, j : Delivering(k, n, j) => Delivering(k, n, j)'
      BY <1>1, <3>2, <3>5, <3>6 DEF Delivering
    <3> QED BY <1>1, <2>2, <3>1, <3>3, <3>4, <3>7, <3>8, GoesOn DEF Copying
  <2> QED BY <2>1, <2>2 DEF CopyInv
<1>2. CASE MapAdr \/ UNCHANGED bvars
  BY <1>1, <1>2 DEF MapAdr, bvars
<1>3. CASE MemCopyReturns
  <2>1. req' = NoCopy /\ work' = <<>> /\ window' = window /\ board' = board /\ origin' = Here
        /\ req # NoCopy /\ work = <<>>
    BY <1>3 DEF MemCopyReturns
  <2>2. window = -1
    BY <2>1, CopyInvExact DEF CopyIsExact
  <2>3. NoCopy' = NoCopy /\ Here' = Here
    BY <2>1 DEF NoCopy, Here, Places, Banks
  <2> QED BY <2>1, <2>2, <2>3 DEF CopyInv, AtRest
<1>4. CASE MemBcp
  <2>1. work # <<>>
    BY <1>4 DEF MemBcp
  <2>2. Copying
    BY <2>1 DEF CopyInv, AtRest
  <2>3. \/ \E k \in Nat : Round(k)
        \/ \E k, n, j \in Nat : Collecting(k, n, j)
        \/ \E k, n, j \in Nat : Delivering(k, n, j)
    BY <2>1, <2>2 DEF Copying, Finished
  <2>4. req # NoCopy /\ Asked(req)
    BY <2>2 DEF Copying
  <2> QED BY <1>4, <2>3, <2>4, RoundStep, CollectStep, DeliverStep
<1>5. CASE \E sb, db \in {0, usrseg, usrdseg}, source, dest \in 0..BANK - 1, length \in Lengths :
             MemCopy([sb |-> sb, source |-> source, db |-> db, dest |-> dest, length |-> length])
  <2>1. {0, usrseg, usrdseg} \subseteq Banks
    BY BanksThere DEF MapInv
  <2>2. PICK sb \in Banks, db \in Banks, source \in 0..BANK - 1, dest \in 0..BANK - 1, length \in Lengths :
          MemCopy([sb |-> sb, source |-> source, db |-> db, dest |-> dest, length |-> length])
    BY <1>5, <2>1
  <2> DEFINE c == [sb |-> sb, source |-> source, db |-> db, dest |-> dest, length |-> length]
  <2>3. c.sb \in Banks /\ c.db \in Banks
        /\ c \in [sb : Banks, source : 0..BANK - 1, db : Banks, dest : 0..BANK - 1, length : Lengths]
    BY <2>2
  <2>4. MemCopy(c)
    BY <2>2
  <2> HIDE DEF c
  <2> QED BY <2>3, <2>4, CopyBegins
<1> QED BY <1>2, <1>3, <1>4, <1>5 DEF BanksNext

\* A finished copy has moved the bytes asked for and nothing else outside the bounce buffers,
\* and has closed the window, for any size of the chunks and of the buffers and any length
\* (mem_bcp, win_rd, win_wr, unwdw).
THEOREM ExactCopies == BanksSpec => []CopyIsExact
<1>1. BanksInit => CopyInv
  BY DEF BanksInit, CopyInv, AtRest
<1>2. MapInv /\ CopyInv /\ [BanksNext]_bvars => MapInv' /\ CopyInv'
  BY MapStep, CopyStep
<1>3. CopyInv => CopyIsExact
  BY CopyInvExact
<1> QED BY MapInitial, <1>1, <1>2, <1>3, PTL DEF BanksSpec
=============================================================================
