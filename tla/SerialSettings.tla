--------------------------- MODULE SerialSettings ---------------------------
(***************************************************************************)
(* The termios arithmetic of SerialPort (from                              *)
(* dev/serial/t_serialport_unix.cpp): set_common_props, set_databits,      *)
(* set_parity, set_stopbits, set_flowcontrol and set_baud, each a function *)
(* from termios to termios.                                                *)
(* A flag word is the set of its flags; "|=" is union and "&= ~" is set    *)
(* difference.  The CSIZE field and the speed are fields of their own.     *)
(* What a termios means to the line driver follows at the end.             *)
(***************************************************************************)
EXTENDS Integers

CONSTANT Bauds  \* the speeds set_baud knows, as far as they are used

ASSUME BaudAssumption == Bauds \subseteq Nat \ {0}

CFlags == {"CSTOPB", "CREAD", "PARENB", "PARODD", "CMSPAR", "CRTSCTS", "CLOCAL"}
IFlags == {"IGNPAR", "PARMRK", "INPCK", "IXON", "IXOFF", "IXANY"}

\* Speed 0 is B0.
Termios == [cflag : SUBSET CFlags, size : 5 .. 8, iflag : SUBSET IFlags,
            speed : Bauds \cup {0}]

DataBits    == 5 .. 8
Parity      == {"No", "Even", "Odd", "Space", "Mark"}
StopBits    == {"One", "OneAndHalf", "Two"}
FlowControl == {"None", "Hardware", "Software"}

\* Enumerators and numbers without a case of their own.
Unknown       == "Unknown"
UnknownNumber == -1

Plus(flags, more)  == flags \cup more
Minus(flags, less) == flags \ less

-----------------------------------------------------------------------------
\* What getTermios leaves behind when tcgetattr fails: memset to 0.
Zeroed == [cflag |-> {}, size |-> 5, iflag |-> {}, speed |-> 0]

\* cfmakeraw, as far as the flags above go.
cfmakeraw(tio) ==
  [tio EXCEPT !.iflag = Minus(@, {"PARMRK", "IXON"}),
              !.cflag = Minus(@, {"PARENB"}),
              !.size  = 8]

\* The test `m & O_RDONLY` is never true, O_RDONLY being 0: CREAD is left as
\* it was.
set_common_props(tio) ==
  LET raw == cfmakeraw(tio) IN [raw EXCEPT !.cflag = Plus(@, {"CLOCAL"})]

set_databits(tio, databits) ==
  [tio EXCEPT !.size = IF databits = UnknownNumber THEN 8 ELSE databits]

set_stopbits(tio, stopbits) ==
  [tio EXCEPT !.cflag = IF stopbits = "Two" THEN Plus(@, {"CSTOPB"})
                                            ELSE Minus(@, {"CSTOPB"})]

SoftwareFlags == {"IXON", "IXOFF", "IXANY"}

set_flowcontrol_OnlyAdds(tio, flowcontrol) ==  \* mutant: nothing is cleared
  [tio EXCEPT
     !.cflag = IF flowcontrol = "Hardware" THEN Plus(@, {"CRTSCTS"}) ELSE @,
     !.iflag = IF flowcontrol = "Software" THEN Plus(@, SoftwareFlags) ELSE @]

set_flowcontrol(tio, flowcontrol) ==
  [tio EXCEPT
     !.cflag = IF flowcontrol = "Hardware" THEN Plus(@, {"CRTSCTS"})
                                           ELSE Minus(@, {"CRTSCTS"}),
     !.iflag = IF flowcontrol = "Software" THEN Plus(@, SoftwareFlags)
                                           ELSE Minus(@, SoftwareFlags)]

ParityFlags_OnlyAdds(cflag, parity) ==  \* mutant: PARODD is not cleared
  IF parity = "No" THEN Minus(cflag, {"PARENB"})
  ELSE Plus(cflag, {"PARENB"} \cup (IF parity = "Odd" THEN {"PARODD"} ELSE {}))

\* CMSPAR is set for Space and Mark and cleared by nothing.
ParityFlags(cflag, parity) ==
  CASE parity = "Space" -> Plus(Minus(cflag, {"PARODD"}), {"PARENB", "CMSPAR"})
    [] parity = "Mark"  -> Plus(cflag, {"PARENB", "CMSPAR", "PARODD"})
    [] parity = "No"    -> Minus(cflag, {"PARENB"})
    [] parity = "Even"  -> Plus(Minus(cflag, {"PARODD"}), {"PARENB"})
    [] parity = "Odd"   -> Plus(cflag, {"PARENB", "PARODD"})
    [] OTHER            -> Plus(cflag, {"PARENB"})

set_parity(tio, parity) ==
  [tio EXCEPT
     !.cflag = ParityFlags(@, parity),
     !.iflag = IF parity = Unknown
                 THEN Plus(Minus(@, {"IGNPAR"}), {"PARMRK", "INPCK"})
                 ELSE Plus(Minus(@, {"PARMRK", "INPCK"}), {"IGNPAR"})]

set_baud_Unchecked(tio, baud) == [tio EXCEPT !.speed = baud]  \* mutant

set_baud(tio, baud) == [tio EXCEPT !.speed = IF baud = UnknownNumber THEN @ ELSE baud]

-----------------------------------------------------------------------------
\* What the line driver makes of a termios.
ParityOf(tio) ==
  LET odd == "PARODD" \in tio.cflag
  IN CASE "PARENB" \notin tio.cflag -> "No"
       [] {"PARENB", "CMSPAR"} \subseteq tio.cflag -> IF odd THEN "Mark" ELSE "Space"
       [] OTHER -> IF odd THEN "Odd" ELSE "Even"

StopBitsOf(tio) == IF "CSTOPB" \in tio.cflag THEN "Two" ELSE "One"

\* "Mixed" stands for a line that obeys both kinds, or half of one.
FlowControlOf(tio) ==
  LET soft == tio.iflag \cap SoftwareFlags
  IN CASE "CRTSCTS" \notin tio.cflag /\ soft = {}            -> "None"
       [] "CRTSCTS" \in tio.cflag /\ soft = {}               -> "Hardware"
       [] "CRTSCTS" \notin tio.cflag /\ soft = SoftwareFlags -> "Software"
       [] OTHER                                              -> "Mixed"
=============================================================================
