---------------------------- MODULE BiosDevices -----------------------------
(***************************************************************************)
(* Character devices of the C BIOS: the four logical devices, the iobyte   *)
(* that assigns physical ones to them, and the polled serial and parallel  *)
(* ports below (src/cpm8k/bios.c and its three descendants in src/bios).   *)
(*                                                                         *)
(* A BIOS call that polls a port lasts until the port answers; meanwhile   *)
(* the line, the typist and the printer go on.  A poll that changes        *)
(* nothing is no step.  A UART has one receive register (rx) and one       *)
(* transmit register (tx, of RS232 only: nothing is sent to the keyboard); *)
(* its data port shows the last character received (latch), even one that  *)
(* has been read.  A character that arrives before the one before it was   *)
(* read is not in the model.                                               *)
(***************************************************************************)
EXTENDS Integers

CONSTANTS Packages,   \* the BIOS packages looked at
          Chars,      \* characters
          XOFF,       \* one of them
          Nothing,    \* in place of a character
          POLLS       \* polls after which parout gives up: 65535 in the code

ASSUME DevicesAssumption ==
  /\ Packages \subseteq {"m20", "m20-serial", "plasmo", "z8002-demo"}
  /\ XOFF \in Chars /\ Nothing \notin Chars /\ POLLS \in Nat \ {0}

VARIABLES pkg, iobyte, rx, latch, tx, printer,
          call,      \* the call in progress
          polls,     \* of the printer in it
          heard,     \* what a call that reads has just returned
          sure       \* history: the device the last call found ready, if any

uarts == <<rx, latch, tx>>
dvars == <<pkg, iobyte, uarts, printer, call, polls, heard, sure>>

Ports == {"kbd", "rs232"}
Devices == {"CON", "READER", "PUNCH", "LIST"}

-----------------------------------------------------------------------------
(* What the packages configure.                                            *)

\* The M20 has a keyboard UART besides the RS232 port; the boards have one console UART.
M20_Config        == [KBD |-> "kbd", CON |-> 1, BAUD |-> FALSE, printer |-> TRUE]
M20Serial_Config  == [KBD |-> "kbd", CON |-> 0, BAUD |-> TRUE, printer |-> TRUE]
Plasmo_Config     == [KBD |-> "rs232", CON |-> 1, BAUD |-> FALSE, printer |-> FALSE]
Z8002Demo_Config  == [KBD |-> "rs232", CON |-> 1, BAUD |-> FALSE, printer |-> FALSE]

Config == CASE pkg = "m20" -> M20_Config [] pkg = "m20-serial" -> M20Serial_Config
            [] pkg = "plasmo" -> Plasmo_Config [] pkg = "z8002-demo" -> Z8002Demo_Config

\* The rows of the tables; the columns are the four values of a field of iobyte.
sttbl_BatchReady == [CON    |-> <<"ttyrs", "crtrs", "nulst", "nulst">>,
                     READER |-> <<"ttyrs", "nulst", "nulst", "nulst">>,
                     PUNCH  |-> <<"ttyws", "nulst", "nulst", "nulst">>,
                     LIST   |-> <<"ttyws", "crtws", "lptws", "nulst">>]
sttbl == [CON    |-> <<"ttyrs", "crtrs", "batrs", "nulst">>,
          READER |-> <<"ttyrs", "nulst", "nulst", "nulst">>,
          PUNCH  |-> <<"ttyws", "nulst", "nulst", "nulst">>,
          LIST   |-> <<"ttyws", "crtws", "lptws", "nulst">>]
rdtbl == [CON    |-> <<"ttyrd", "crtrd", "batrd", "nulrd">>,
          READER |-> <<"ttyrd", "nulrd", "nulrd", "nulrd">>]
wrtbl == [CON    |-> <<"ttywr", "crtwr", "batwr", "nulwr">>,
          PUNCH  |-> <<"ttywr", "nulwr", "nulwr", "nulwr">>,
          LIST   |-> <<"ttywr", "crtwr", "lptwr", "nulwr">>]

\* The routine that serves a device; batrs and batrd go on with the reader, batwr with the
\* list device.  The M20-serial package does not look at iobyte for the console.
At(table, dev) == table[dev][iobyte[dev] + 1]
genstat(dev) ==
  IF pkg = "m20-serial" /\ dev = "CON" THEN "ttyrs"
  ELSE IF At(sttbl, dev) = "batrs" THEN At(sttbl, "READER") ELSE At(sttbl, dev)
genread(dev) ==
  IF pkg = "m20-serial" /\ dev = "CON" THEN "ttyrd"
  ELSE IF At(rdtbl, dev) = "batrd" THEN At(rdtbl, "READER") ELSE At(rdtbl, dev)
genwrite(dev) ==
  IF pkg = "m20-serial" /\ dev = "CON" THEN "ttywr"
  ELSE IF At(wrtbl, dev) = "batwr" THEN At(wrtbl, "LIST") ELSE At(wrtbl, dev)

PortOf(routine) == IF routine \in {"crtrs", "crtrd", "crtwr"} THEN Config.KBD ELSE "rs232"

\* parordy.  On the boards the printer's ports are others' or none: never ready.
parordy == Config.printer /\ printer = "ready"

ReadyNow(routine) ==
  CASE routine \in {"ttyrs", "crtrs"} -> rx[PortOf(routine)] # Nothing
    [] routine = "ttyws" -> tx = Nothing
    [] routine = "lptws" -> parordy
    [] OTHER -> TRUE

\* What comes from the M20's keyboard are key codes, which kbtran makes characters; what
\* it makes of a character is something else.
HasPROM == pkg \in {"m20", "m20-serial"}
kbtran(port, c) == IF HasPROM /\ port = "kbd" THEN c ELSE Nothing
crtrd(port, c) == IF HasPROM THEN kbtran(port, c) ELSE c

Idle == [op |-> "none", dev |-> "CON", port |-> "kbd", ch |-> Nothing, sure |-> FALSE]

DevicesInit ==
  /\ pkg \in Packages
  /\ iobyte = [CON |-> Config.CON, READER |-> 0, PUNCH |-> 0, LIST |-> 1]
  /\ rx = [p \in Ports |-> Nothing]
  /\ latch = Nothing /\ tx = Nothing
  /\ printer \in IF Config.printer THEN {"ready", "off"} ELSE {"off"}
  /\ call = Idle /\ polls = 0
  /\ heard = Nothing /\ sure = "none"

-----------------------------------------------------------------------------
(* Calls of the BIOS.                                                      *)

Return(v) == call' = Idle /\ heard' = v

\* CONST and LISTST.
Status(dev) ==
  /\ call = Idle /\ Return(Nothing)
  /\ sure' = IF ReadyNow(genstat(dev)) /\ genstat(dev) # "lptws" THEN dev ELSE "none"
  /\ UNCHANGED <<pkg, iobyte, uarts, printer, polls>>

Begin(op, dev, c, known) ==
  /\ call' = [op |-> op, dev |-> dev, port |-> PortOf(op), ch |-> c, sure |-> known]
  /\ heard' = Nothing

\* CONIN and READER.
ReadChar(dev) ==
  /\ call = Idle
  /\ IF genread(dev) = "nulrd" THEN Return(Nothing) ELSE Begin(genread(dev), dev, Nothing, sure = dev)
  /\ sure' = "none"
  /\ UNCHANGED <<pkg, iobyte, uarts, printer, polls>>

\* CONOUT, LIST and PUNCH.
WriteChar(dev, c) ==
  /\ call = Idle
  /\ IF genwrite(dev) = "nulwr" THEN Return(Nothing)
     ELSE Begin(genwrite(dev), dev, c, sure = dev /\ dev = "LIST")
  /\ sure' = "none" /\ polls' = 0
  /\ UNCHANGED <<pkg, iobyte, uarts, printer>>

\* SETIOB.  Bound: the last three columns of the reader and of the punch are the same.
Columns == [CON |-> 0..3, READER |-> 0..1, PUNCH |-> 0..1, LIST |-> 0..3]
SetIob(dev, n) ==
  /\ call = Idle /\ n \in Columns[dev]
  /\ iobyte' = [iobyte EXCEPT ![dev] = n]
  /\ heard' = Nothing /\ sure' = "none"
  /\ UNCHANGED <<pkg, uarts, printer, call, polls>>

\* INIT and the warm boot: serinit resets the RS232 port, whatever is in its registers;
\* the CPLD of the Plasmo board has nothing to reset.
BiosInit ==
  /\ call = Idle
  /\ IF pkg = "plasmo" THEN UNCHANGED <<rx, tx>>
     ELSE rx' = [rx EXCEPT !["rs232"] = Nothing] /\ tx' = Nothing
  /\ heard' = Nothing /\ sure' = "none"
  /\ UNCHANGED <<pkg, iobyte, latch, printer, call, polls>>

-----------------------------------------------------------------------------
(* Calls in progress.                                                      *)

\* serin: the poll that finds a character.
SerIn ==
  /\ call.op \in {"ttyrd", "crtrd"} /\ rx[call.port] # Nothing
  /\ Return(IF call.op = "crtrd" THEN crtrd(call.port, rx[call.port]) ELSE rx[call.port])
  /\ rx' = [rx EXCEPT ![call.port] = Nothing]
  /\ UNCHANGED <<pkg, iobyte, latch, tx, printer, polls, sure>>

\* serout.  With BAUD every poll also reads the data port, to see an XOFF there.
serout_Baud ==
  /\ rx' = [rx EXCEPT !["rs232"] = Nothing]
  /\ IF tx = Nothing /\ latch # XOFF THEN tx' = call.ch /\ Return(Nothing)
     ELSE UNCHANGED <<tx, call, heard>>
serout ==
  IF Config.BAUD THEN serout_Baud
  ELSE tx = Nothing /\ tx' = call.ch /\ Return(Nothing) /\ rx' = rx

SerOut ==
  /\ call.op = "ttywr" /\ serout
  /\ UNCHANGED <<pkg, iobyte, latch, printer, polls, sure>>

\* crt_put: the PROM of the M20 writes to the screen, the boards to their one UART.
CrtPut ==
  /\ call.op = "crtwr" /\ Return(Nothing)
  /\ IF HasPROM THEN tx' = tx ELSE tx = Nothing /\ tx' = call.ch
  /\ UNCHANGED <<pkg, iobyte, rx, latch, printer, polls, sure>>

\* parout: after POLLS polls the character is given up and the console told so; one
\* character stands for the message.
parout_Forever == parordy
parout == parordy \/ polls < POLLS

ParPoll ==
  /\ call.op = "lptwr" /\ parout
  /\ IF parordy
     THEN printer' = "busy" /\ Return(Nothing) /\ polls' = polls
     ELSE /\ polls' = polls + 1
          /\ call' = IF polls + 1 = POLLS THEN [call EXCEPT !.op = "crtwr", !.port = Config.KBD] ELSE call
          /\ UNCHANGED <<printer, heard>>
  /\ UNCHANGED <<pkg, iobyte, uarts, sure>>

-----------------------------------------------------------------------------
(* The world outside.                                                      *)

Type(port, c) ==
  /\ port \in {"rs232", Config.KBD} /\ rx[port] = Nothing
  /\ rx' = [rx EXCEPT ![port] = c]
  /\ latch' = IF Config.BAUD /\ port = "rs232" THEN c ELSE latch
  /\ UNCHANGED <<pkg, iobyte, tx, printer, call, polls, heard, sure>>

\* The transmitter sends what it holds.
Shift ==
  /\ tx # Nothing /\ tx' = Nothing
  /\ UNCHANGED <<pkg, iobyte, rx, latch, printer, call, polls, heard, sure>>

PrinterMoves(to) ==
  /\ Config.printer /\ printer # to /\ printer' = to
  /\ UNCHANGED <<pkg, iobyte, uarts, call, polls, heard, sure>>

InProgress == SerIn \/ SerOut \/ CrtPut \/ ParPoll

DevicesNext ==
  \/ \E dev \in {"CON", "LIST"} : Status(dev)
  \/ \E dev \in {"CON", "READER"} : ReadChar(dev)
  \/ \E dev \in {"CON", "LIST", "PUNCH"}, c \in Chars : WriteChar(dev, c)
  \/ \E dev \in Devices, n \in 0..3 : SetIob(dev, n)
  \/ BiosInit
  \/ InProgress
  \/ \E port \in Ports, c \in Chars : Type(port, c)
  \/ Shift
  \/ \E to \in {"ready", "off"} : PrinterMoves(to)

\* The processor goes on polling and the line goes on sending; nobody need type, and the
\* printer need not come back.
DevicesFairness == WF_dvars(InProgress) /\ WF_dvars(Shift)
DevicesSpec == DevicesInit /\ [][DevicesNext]_dvars /\ DevicesFairness

-----------------------------------------------------------------------------
(* Properties.                                                             *)

\* Types: registers hold what was typed or is to be sent, one call is in progress at most.
DevicesTypeOK ==
  /\ pkg \in Packages
  /\ iobyte \in [Devices -> 0..3]
  /\ rx \in [Ports -> {Nothing} \cup Chars]
  /\ {latch, tx, heard, call.ch} \subseteq {Nothing} \cup Chars
  /\ printer \in {"ready", "busy", "off"}
  /\ call.op \in {"none", "ttyrd", "crtrd", "ttywr", "crtwr", "lptwr"}
  /\ call.port \in Ports
  /\ polls \in 0..POLLS

\* On the boards the CRT is the console UART: crt_put waits for its transmitter, and
\* crtws says ready without a look at it.
OnTheUart == call.op = "crtwr" /\ ~ HasPROM

\* The call in progress finds its port as it needs it.
NoWait == CASE call.op \in {"ttyrd", "crtrd"} -> rx[call.port] # Nothing
            [] call.op = "ttywr" \/ OnTheUart -> tx = Nothing
            [] OTHER -> TRUE

\* A device that CONST or LISTST has just found ready does not make the next call wait:
\* sttbl agrees with rdtbl and wrtbl in every column but that of a CRT that is a UART, the
\* batch device's included.  (Nothing is said of the parallel printer, which may be
\* switched off after it was found ready: Status does not count it as sure.)
ReadyMeansNoWait == call.sure /\ ~ OnTheUart => NoWait

\* A character typed leaves the receive register only as the result of a call that reads:
\* polling for output or for status does not eat it (serin, serout), and what is handed
\* over is what was typed (kbtran).  An INIT or a warm boot may clear the RS232 port.
InputIsNotLost ==
  [][\A p \in Ports : rx[p] # Nothing /\ rx'[p] = Nothing /\ ~ BiosInit
       => heard' = rx[p] /\ call' = Idle]_dvars

\* An output call returns, however long the printer is off and nobody types: parout counts
\* its polls, and the loop of serout waits for the line only.
OutputReturns == (call.op \in {"ttywr", "crtwr", "lptwr"}) ~> (call = Idle)
=============================================================================
