----------------------------- MODULE SerialPort -----------------------------
(***************************************************************************)
(* One object of class SerialPort (dev/serial/t_serialport_unix.cpp), the  *)
(* descriptor table of its process, in which the rest of the program opens *)
(* and closes files too, and the termios of the one device there is.       *)
(*                                                                         *)
(* Descriptors are given out lowest first, so a number that was closed is  *)
(* the next to be used.  The object's calls go to whatever file has the    *)
(* number m_fd when they are made; `foreign` notes that this was a file of *)
(* the rest of the program.                                                *)
(***************************************************************************)
EXTENDS SerialSettings, FiniteSetsExt

CONSTANTS
  MaxFd,      \* the process may have descriptors 0..MaxFd
  StdinOpen,  \* does the program keep descriptor 0 open?
  Lines,      \* what another program may have left in the device's termios
  DataArgs, ParityArgs, StopArgs, FlowArgs, BaudArgs,  \* arguments of the setters
  SystemErrors  \* what getSystemError makes of errno, as far as it is used

ASSUME PortAssumption ==
  /\ MaxFd \in Nat \ {0}
  /\ StdinOpen \in BOOLEAN
  /\ Lines \subseteq Termios
  /\ DataArgs \subseteq DataBits \cup {UnknownNumber}
  /\ ParityArgs \subseteq Parity \cup {Unknown}
  /\ StopArgs \subseteq StopBits \cup {Unknown}
  /\ FlowArgs \subseteq FlowControl \cup {Unknown}
  /\ BaudArgs \subseteq Bauds \cup {UnknownNumber}
  /\ \E b \in Bauds : \A c \in Bauds : b >= c
  /\ SystemErrors \subseteq {"DeviceNotFoundError", "PermissionError", "ResourceError",
                             "UnsupportedOperationError", "UnknownError"}

VARIABLES
  m_fd, m_error,
  m_systemLocation,  \* "empty", "missing" or "device"
  files,             \* the process: the file behind each descriptor
  tio,               \* the device: its termios
  gone,              \* has the object been destroyed?
  asked,             \* history: the settings last asked for
  applied,           \* history: those of them that a call has given the device
  stick,             \* history: the device came with CMSPAR, or was given Space or Mark
  foreign,           \* history: a call of the object went to another's file
  closed             \* history: close() has been called

lineVars == <<tio, asked, applied, stick>>
portVars == <<m_fd, m_error, m_systemLocation, files, lineVars, gone, foreign, closed>>

Fds   == 0 .. MaxFd
Files == {"free", "port", "other"}

\* The m_* fields of the settings are never assigned after construction.
m_dataBits    == 8
m_parity      == "No"
m_stopBits    == "One"
m_flowControl == "None"
m_baudRate    == CHOOSE b \in Bauds : \A c \in Bauds : b >= c

SettingNames == {"data", "parity", "stop", "flow", "baud"}

Settings == [data : DataBits \cup {UnknownNumber}, parity : Parity \cup {Unknown},
             stop : StopBits \cup {Unknown}, flow : FlowControl \cup {Unknown},
             baud : Bauds \cup {UnknownNumber}]

Defaults == [data |-> m_dataBits, parity |-> m_parity, stop |-> m_stopBits,
             flow |-> m_flowControl, baud |-> m_baudRate]

\* All three constructors: SerialPort(name) does not use the name, and a
\* SerialPortInfo has no location.
PortInit_Zero ==  \* mutant: m_fd starts at 0
  /\ m_fd = 0 /\ m_error = "NoError" /\ m_systemLocation = "empty"
  /\ files = [fd \in Fds |-> IF fd = 0 /\ StdinOpen THEN "other" ELSE "free"]
  /\ tio \in Lines /\ gone = FALSE /\ asked = Defaults /\ applied = {}
  /\ stick \in BOOLEAN /\ (stick <=> "CMSPAR" \in tio.cflag)
  /\ foreign = FALSE /\ closed = FALSE

PortInit ==
  /\ m_fd = -1 /\ m_error = "NoError" /\ m_systemLocation = "empty"
  /\ files = [fd \in Fds |-> IF fd = 0 /\ StdinOpen THEN "other" ELSE "free"]
  /\ tio \in Lines
  /\ gone = FALSE
  /\ asked = Defaults /\ applied = {}
  /\ stick \in BOOLEAN /\ (stick <=> "CMSPAR" \in tio.cflag)
  /\ foreign = FALSE /\ closed = FALSE

-----------------------------------------------------------------------------
\* The kernel.
FreeFds  == {fd \in Fds : files[fd] = "free"}
FileOf(fd) == IF fd \in Fds THEN files[fd] ELSE "free"

\* A system call on m_fd.
UsesFd == foreign' = (foreign \/ FileOf(m_fd) = "other")

CloseFd(fd) ==
  files' = IF fd \in Fds THEN [files EXCEPT ![fd] = "free"] ELSE files

-----------------------------------------------------------------------------
isOpen == m_fd > 0

setPortName(location) ==
  /\ m_systemLocation' = location
  /\ UNCHANGED <<m_fd, m_error, files, lineVars, gone, foreign, closed>>

\* setPort: the location of every SerialPortInfo is empty.
setPort == setPortName("empty")

(***************************************************************************)
(* open.  A missing location leaves m_error at NoError; an open port is    *)
(* left as it is.                                                          *)
(***************************************************************************)
MayOpen_Always == TRUE  \* mutant: an open port is opened again

MayOpen == ~isOpen

openMissing ==
  /\ MayOpen /\ m_systemLocation # "device"
  /\ m_error' = "NoError"
  /\ UNCHANGED <<m_fd, m_systemLocation, files, lineVars, gone, foreign, closed>>

openFails ==
  /\ MayOpen /\ m_systemLocation = "device"
  /\ m_fd' = -1 /\ m_error' = "OpenError"
  /\ UNCHANGED <<m_systemLocation, files, lineVars, gone, foreign, closed>>

\* The termios open makes of the one it has read.
OpenTermios(t) ==
  set_baud(set_flowcontrol(set_stopbits(set_parity(set_databits(
    set_common_props(t), m_dataBits), m_parity), m_stopBits), m_flowControl), m_baudRate)

\* Neither result is looked at: when getTermios fails the settings are put into
\* zeros, and when setTermios fails the device keeps what it had.
Configure(got, set) ==
  /\ tio' = IF set THEN OpenTermios(IF got THEN tio ELSE Zeroed) ELSE tio
  /\ asked' = Defaults
  /\ applied' = IF set THEN SettingNames ELSE {}
  /\ stick' = (stick /\ (set => got))

open ==
  /\ MayOpen /\ m_systemLocation = "device" /\ FreeFds # {}
  /\ m_fd' = Min(FreeFds)
  /\ files' = [files EXCEPT ![m_fd'] = "port"]
  /\ \E got, set \in BOOLEAN : Configure(got, set)
  /\ m_error' = "NoError"
  /\ UNCHANGED <<m_systemLocation, gone, foreign, closed>>

\* close: a port that is not open is an error and is closed all the same.
\* m_fd keeps its value.
close ==
  /\ closed' = TRUE
  /\ m_error' = IF isOpen THEN m_error ELSE "NotOpenError"
  /\ UsesFd /\ CloseFd(m_fd)
  /\ UNCHANGED <<m_fd, m_systemLocation, lineVars, gone>>

\* The destructor.
Destroy ==
  /\ gone' = TRUE
  /\ IF isOpen THEN UsesFd /\ CloseFd(m_fd) ELSE UNCHANGED <<files, foreign>>
  /\ UNCHANGED <<m_fd, m_error, m_systemLocation, lineVars, closed>>

-----------------------------------------------------------------------------
(***************************************************************************)
(* The setters read, change and write back the termios of m_fd, and return *)
(* false when the one or the other fails.  A setter that misses fails, or  *)
(* sets the file of another, whose settings are not modelled.              *)
(* The m_* fields stay as they are.                                        *)
(***************************************************************************)
SetterMisses ==
  /\ UsesFd
  /\ UNCHANGED <<m_fd, m_error, m_systemLocation, files, lineVars, gone, closed>>

Setter(changed, nowAsked, names) ==
  /\ FileOf(m_fd) = "port"
  /\ tio' = changed /\ asked' = nowAsked /\ applied' = applied \cup names
  /\ stick' = (stick \/ nowAsked.parity \in {"Space", "Mark"})
  /\ UNCHANGED <<m_fd, m_error, m_systemLocation, files, gone, foreign, closed>>

setDataBits(d)    == Setter(set_databits(tio, d),    [asked EXCEPT !.data = d], {"data"})
setParity(p)      == Setter(set_parity(tio, p),      [asked EXCEPT !.parity = p], {"parity"})
setStopBits(s)    == Setter(set_stopbits(tio, s),    [asked EXCEPT !.stop = s], {"stop"})
setFlowControl(f) == Setter(set_flowcontrol(tio, f), [asked EXCEPT !.flow = f], {"flow"})
setBaudRate(b)    == Setter(set_baud(tio, b),
                            IF b = UnknownNumber THEN asked ELSE [asked EXCEPT !.baud = b],
                            IF b = UnknownNumber THEN {} ELSE {"baud"})

\* readBufferSize, readData, writeData and, for an open port, flush, as far as
\* the descriptor goes.
Transfer ==
  /\ UsesFd
  /\ UNCHANGED <<m_fd, m_error, m_systemLocation, files, lineVars, gone, closed>>

clearError ==
  /\ m_error' = "NoError"
  /\ UNCHANGED <<m_fd, m_systemLocation, files, lineVars, gone, foreign, closed>>

\* getSystemError stores what a system error means.
getSystemError ==
  /\ m_error' \in SystemErrors
  /\ UNCHANGED <<m_fd, m_systemLocation, files, lineVars, gone, foreign, closed>>

PortCall ==
  /\ ~gone
  /\ \/ \E location \in {"empty", "missing", "device"} : setPortName(location)
     \/ setPort \/ openMissing \/ openFails \/ open
     \/ close \/ Destroy
     \/ \E d \in DataArgs : setDataBits(d)
     \/ \E p \in ParityArgs : setParity(p)
     \/ \E s \in StopArgs : setStopBits(s)
     \/ \E f \in FlowArgs : setFlowControl(f)
     \/ \E b \in BaudArgs : setBaudRate(b)
     \/ SetterMisses \/ Transfer \/ clearError \/ getSystemError

\* The rest of the program.
OtherOpens ==
  /\ FreeFds # {}
  /\ files' = [files EXCEPT ![Min(FreeFds)] = "other"]
  /\ UNCHANGED <<m_fd, m_error, m_systemLocation, lineVars, gone, foreign, closed>>

OtherCloses(fd) ==
  /\ files[fd] = "other"
  /\ fd = 0 => ~StdinOpen
  /\ files' = [files EXCEPT ![fd] = "free"]
  /\ UNCHANGED <<m_fd, m_error, m_systemLocation, lineVars, gone, foreign, closed>>

PortNext == PortCall \/ OtherOpens \/ (\E fd \in Fds : OtherCloses(fd))

PortSpec == PortInit /\ [][PortNext]_portVars

-----------------------------------------------------------------------------
\* Every variable has its type.
PortTypeOK ==
  /\ m_fd \in Fds \cup {-1}
  /\ m_error \in {"NoError", "OpenError", "NotOpenError"} \cup SystemErrors
  /\ m_systemLocation \in {"empty", "missing", "device"}
  /\ files \in [Fds -> Files]
  /\ tio \in Termios
  /\ gone \in BOOLEAN /\ foreign \in BOOLEAN /\ closed \in BOOLEAN
  /\ asked \in Settings /\ applied \subseteq SettingNames /\ stick \in BOOLEAN

PortFiles == {fd \in Fds : files[fd] = "port"}

\* A port has at most one file, the one m_fd names, and none once it is
\* destroyed, although opens fail, are refused and are repeated meanwhile.
OneFileWhileAlive == PortFiles \subseteq (IF gone THEN {} ELSE {m_fd})

\* Until the port is closed for the first time, a call acts on the file the
\* port has opened and never on one of the rest of the program, also before
\* open and after one that failed.
OnlyOwnFile == foreign => closed

\* What a setting that was asked for comes to.  Nothing clears CMSPAR, so on a
\* line with stick parity Even is Space and Odd is Mark; one and a half stop bits
\* are one.
ParityGiven(p) == CASE stick /\ p = "Even" -> "Space"
                    [] stick /\ p = "Odd"  -> "Mark"
                    [] OTHER                -> p
StopGiven(s)   == IF s = "Two" THEN "Two" ELSE "One"
DataGiven(d)   == IF d = UnknownNumber THEN 8 ELSE d
FlowGiven(f)   == IF f = Unknown THEN "None" ELSE f

\* Whatever was left in the device, whichever of the calls of open and the
\* setters to the driver failed and in whichever order they came, each setting
\* that a call has given the device is what was last asked for it, or what that
\* comes to.  (An unknown parity is whichever of even and odd the line had.)
LineAsAsked ==
  m_fd \in PortFiles =>
    /\ "data" \in applied => tio.size = DataGiven(asked.data)
    /\ "stop" \in applied => StopBitsOf(tio) = StopGiven(asked.stop)
    /\ "flow" \in applied => FlowControlOf(tio) = FlowGiven(asked.flow)
    /\ "baud" \in applied => tio.speed = asked.baud
    /\ "parity" \in applied /\ asked.parity # Unknown =>
         ParityOf(tio) = ParityGiven(asked.parity)
=============================================================================
