---------------------------- MODULE MCSerialPort ----------------------------
(* Constants of SerialPort for TLC. *)
EXTENDS SerialPort

\* A device as other programs may leave it.
AnyLine  == {[cflag |-> flags[1], size |-> 7, iflag |-> flags[2], speed |-> 9600] :
               flags \in {<<{"CREAD"}, {"IXON"}>>,
                         <<{"CSTOPB", "PARENB", "CMSPAR"}, {"IXOFF", "IXANY"}>>,
                         <<{"PARODD", "CRTSCTS"}, {"IXON"}>>}}

SomeData  == {7, 8, UnknownNumber}
AllParity == Parity \cup {Unknown}
AllStop   == StopBits \cup {Unknown}
AllFlow   == FlowControl \cup {Unknown}
SomeBauds == {9600, 115200}
BaudCalls == {9600, UnknownNumber}
=============================================================================
