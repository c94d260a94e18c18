-------------------------- MODULE SerialPort_proofs --------------------------
(***************************************************************************)
(* A port never has a file it does not know, never touches another's       *)
(* before it has been closed, and its line has the settings last asked for *)
(* and written, whatever was left in the device and whatever has failed.   *)
(***************************************************************************)
EXTENDS SerialPort, WellFoundedInduction, TLAPS

-----------------------------------------------------------------------------
\* Every set of descriptors that is not empty has a smallest member.
LEMMA SmallestExists ==
  ASSUME NEW S \in SUBSET Nat, S # {}
  PROVE  Min(S) \in S
<1> DEFINE Less == {p \in Nat \X Nat : p[1] < p[2]}
<1>1. IsWellFoundedOn(Less, Nat)
  BY NatLessThanWellFounded DEF OpToRel
<1>2. \A m, n \in Nat : <<n, m>> \notin Less => m <= n
  OBVIOUS
<1> HIDE DEF Less
<1>3. PICK m \in S : \A n \in S : <<n, m>> \notin Less
  BY <1>1, WFMin
<1>4. \A n \in S : m <= n
  BY <1>2, <1>3
<1> QED BY <1>3, <1>4 DEF Min

\* So the number the kernel gives out is one that is free.
LEMMA GivenIsFree ==
  ASSUME FreeFds # {}
  PROVE  Min(FreeFds) \in Fds /\ files[Min(FreeFds)] = "free"
<1>1. FreeFds \in SUBSET Nat
  BY PortAssumption DEF FreeFds, Fds
<1> QED BY <1>1, SmallestExists DEF FreeFds

\* The default speed is one the port knows.
LEMMA DefaultsAreSettings == Defaults \in Settings /\ Defaults.baud \in Bauds
<1>1. m_baudRate \in Bauds
  BY PortAssumption DEF m_baudRate
<1> QED
  BY <1>1 DEF Defaults, Settings, m_dataBits, m_parity, m_stopBits, m_flowControl,
              DataBits, Parity, StopBits, FlowControl

-----------------------------------------------------------------------------
(***************************************************************************)
(* The termios functions, each for itself: it makes its own setting true   *)
(* and leaves the other four as they are.                                  *)
(***************************************************************************)
HasStick(t) == "CMSPAR" \in t.cflag

ParityOn(t, p) == CASE HasStick(t) /\ p = "Even" -> "Space"
                    [] HasStick(t) /\ p = "Odd"  -> "Mark"
                    [] OTHER                     -> p

Matches(t, s, a) ==
  /\ "data" \in a => t.size = DataGiven(s.data)
  /\ "stop" \in a => StopBitsOf(t) = StopGiven(s.stop)
  /\ "flow" \in a => FlowControlOf(t) = FlowGiven(s.flow)
  /\ "baud" \in a => t.speed = s.baud
  /\ "parity" \in a /\ s.parity # Unknown => ParityOf(t) = ParityOn(t, s.parity)

\* stick says that the device has CMSPAR, as it has after Space and Mark.
StickHeld ==
  /\ stick <=> HasStick(tio)
  /\ asked.parity \in {"Space", "Mark"} => stick

\* LineAsAsked says this of the device and what was asked for.
LEMMA LineIsMatch ==
  /\ StickHeld => (LineAsAsked <=> (m_fd \in PortFiles => Matches(tio, asked, applied)))
  /\ StickHeld' => (LineAsAsked' <=> (m_fd' \in PortFiles' => Matches(tio', asked', applied')))
<1>1. /\ StickHeld => ParityGiven(asked.parity) = ParityOn(tio, asked.parity)
      /\ StickHeld' => ParityGiven(asked.parity)' = ParityOn(tio', asked'.parity)
  BY DEF StickHeld, HasStick, ParityGiven, ParityOn
<1> QED BY <1>1 DEF LineAsAsked, Matches, StopBitsOf, FlowControlOf, ParityOf, StopGiven,
                    DataGiven, FlowGiven

\* The number of data bits.
LEMMA DataBitsMatch ==
  ASSUME NEW t \in Termios, NEW s \in Settings, NEW a, Matches(t, s, a),
         NEW d \in DataBits \cup {UnknownNumber}
  PROVE  /\ set_databits(t, d) \in Termios
         /\ [s EXCEPT !.data = d] \in Settings
         /\ Matches(set_databits(t, d), [s EXCEPT !.data = d], a \cup {"data"})
         /\ HasStick(set_databits(t, d)) <=> HasStick(t)
<1> DEFINE u == set_databits(t, d)  z == [s EXCEPT !.data = d]
<1>1. u \in Termios /\ z \in Settings
  BY DEF set_databits, Termios, Settings, DataBits, UnknownNumber
<1>2. u.cflag = t.cflag /\ u.iflag = t.iflag /\ u.speed = t.speed
  BY DEF set_databits, Termios
<1>3. u.size = DataGiven(d)
  BY DEF set_databits, Termios, DataGiven
<1>4. z.data = d /\ z.parity = s.parity /\ z.stop = s.stop /\ z.flow = s.flow /\ z.baud = s.baud
  BY DEF Settings
<1> HIDE DEF u, z
<1>5. StopBitsOf(u) = StopBitsOf(t) /\ FlowControlOf(u) = FlowControlOf(t)
  BY <1>2 DEF StopBitsOf, FlowControlOf
<1>6. ParityOf(u) = ParityOf(t) /\ (HasStick(u) <=> HasStick(t))
      /\ ParityOn(u, s.parity) = ParityOn(t, s.parity)
  BY <1>2 DEF ParityOf, HasStick, ParityOn
<1>7. Matches(u, z, a \cup {"data"})
  BY <1>2, <1>3, <1>4, <1>5, <1>6 DEF Matches
<1> QED BY <1>1, <1>6, <1>7 DEF u, z

\* The speed.
LEMMA BaudMatch ==
  ASSUME NEW t \in Termios, NEW s \in Settings, NEW a, Matches(t, s, a),
         NEW b \in Bauds
  PROVE  /\ set_baud(t, b) \in Termios
         /\ [s EXCEPT !.baud = b] \in Settings
         /\ Matches(set_baud(t, b), [s EXCEPT !.baud = b], a \cup {"baud"})
         /\ HasStick(set_baud(t, b)) <=> HasStick(t)
<1> DEFINE u == set_baud(t, b)  z == [s EXCEPT !.baud = b]
<1>1. u \in Termios /\ z \in Settings
  BY DEF set_baud, Termios, Settings
<1>2. u.cflag = t.cflag /\ u.iflag = t.iflag /\ u.size = t.size
  BY DEF set_baud, Termios
<1>3. u.speed = b
  BY BaudAssumption DEF set_baud, Termios, UnknownNumber
<1>4. z.baud = b /\ z.parity = s.parity /\ z.stop = s.stop /\ z.flow = s.flow /\ z.data = s.data
  BY DEF Settings
<1> HIDE DEF u, z
<1>5. StopBitsOf(u) = StopBitsOf(t) /\ FlowControlOf(u) = FlowControlOf(t)
  BY <1>2 DEF StopBitsOf, FlowControlOf
<1>6. ParityOf(u) = ParityOf(t) /\ (HasStick(u) <=> HasStick(t))
      /\ ParityOn(u, s.parity) = ParityOn(t, s.parity)
  BY <1>2 DEF ParityOf, HasStick, ParityOn
<1>7. Matches(u, z, a \cup {"baud"})
  BY <1>2, <1>3, <1>4, <1>5, <1>6 DEF Matches
<1> QED BY <1>1, <1>6, <1>7 DEF u, z

\* The number of stop bits.
LEMMA StopBitsMatch ==
  ASSUME NEW t \in Termios, NEW s \in Settings, NEW a, Matches(t, s, a),
         NEW n \in StopBits \cup {Unknown}
  PROVE  /\ set_stopbits(t, n) \in Termios
         /\ [s EXCEPT !.stop = n] \in Settings
         /\ Matches(set_stopbits(t, n), [s EXCEPT !.stop = n], a \cup {"stop"})
         /\ HasStick(set_stopbits(t, n)) <=> HasStick(t)
<1> DEFINE u == set_stopbits(t, n)  z == [s EXCEPT !.stop = n]
<1>1. u \in Termios /\ z \in Settings
  BY DEF set_stopbits, Termios, Settings, CFlags, Plus, Minus
<1>2. u.size = t.size /\ u.iflag = t.iflag /\ u.speed = t.speed
  BY DEF set_stopbits, Termios
<1>3. /\ \A f : f # "CSTOPB" => (f \in u.cflag <=> f \in t.cflag)
      /\ "CSTOPB" \in u.cflag <=> n = "Two"
  BY DEF set_stopbits, Termios, Plus, Minus
<1>4. z.stop = n /\ z.parity = s.parity /\ z.data = s.data /\ z.flow = s.flow /\ z.baud = s.baud
  BY DEF Settings
<1> HIDE DEF u, z
<1>5. StopBitsOf(u) = StopGiven(n)
  BY <1>3 DEF StopBitsOf, StopGiven
<1>6. FlowControlOf(u) = FlowControlOf(t)
  BY <1>2, <1>3 DEF FlowControlOf
<1>7. ParityOf(u) = ParityOf(t) /\ (HasStick(u) <=> HasStick(t))
      /\ ParityOn(u, s.parity) = ParityOn(t, s.parity)
  BY <1>3 DEF ParityOf, HasStick, ParityOn
<1>8. Matches(u, z, a \cup {"stop"})
  BY <1>2, <1>4, <1>5, <1>6, <1>7 DEF Matches
<1> QED BY <1>1, <1>7, <1>8 DEF u, z

\* Flow control: each kind clears the other.
LEMMA FlowControlMatch ==
  ASSUME NEW t \in Termios, NEW s \in Settings, NEW a, Matches(t, s, a),
         NEW k \in FlowControl \cup {Unknown}
  PROVE  /\ set_flowcontrol(t, k) \in Termios
         /\ [s EXCEPT !.flow = k] \in Settings
         /\ Matches(set_flowcontrol(t, k), [s EXCEPT !.flow = k], a \cup {"flow"})
         /\ HasStick(set_flowcontrol(t, k)) <=> HasStick(t)
<1> DEFINE u == set_flowcontrol(t, k)  z == [s EXCEPT !.flow = k]
<1>1. u \in Termios /\ z \in Settings
  BY DEF set_flowcontrol, Termios, Settings, CFlags, IFlags, SoftwareFlags, Plus, Minus
<1>2. u.size = t.size /\ u.speed = t.speed
  BY DEF set_flowcontrol, Termios
<1>3. /\ \A f : f # "CRTSCTS" => (f \in u.cflag <=> f \in t.cflag)
      /\ "CRTSCTS" \in u.cflag <=> k = "Hardware"
      /\ u.iflag \cap SoftwareFlags = IF k = "Software" THEN SoftwareFlags ELSE {}
  BY DEF set_flowcontrol, Termios, Plus, Minus
<1>4. z.flow = k /\ z.parity = s.parity /\ z.data = s.data /\ z.stop = s.stop /\ z.baud = s.baud
  BY DEF Settings
<1> HIDE DEF u, z
<1>5. FlowControlOf(u) = FlowGiven(k)
  <2>1. SoftwareFlags # {}
    BY DEF SoftwareFlags
  <2> QED BY <1>3, <2>1 DEF FlowControlOf, FlowControl, FlowGiven, Unknown
<1>6. StopBitsOf(u) = StopBitsOf(t)
  BY <1>3 DEF StopBitsOf
<1>7. ParityOf(u) = ParityOf(t) /\ (HasStick(u) <=> HasStick(t))
      /\ ParityOn(u, s.parity) = ParityOn(t, s.parity)
  BY <1>3 DEF ParityOf, HasStick, ParityOn
<1>8. Matches(u, z, a \cup {"flow"})
  BY <1>2, <1>4, <1>5, <1>6, <1>7 DEF Matches
<1> QED BY <1>1, <1>7, <1>8 DEF u, z

\* The parity; CMSPAR, which nothing clears, turns even and odd into space and mark.
LEMMA ParityMatch ==
  ASSUME NEW t \in Termios, NEW s \in Settings, NEW a, Matches(t, s, a),
         NEW p \in Parity \cup {Unknown}
  PROVE  /\ set_parity(t, p) \in Termios
         /\ [s EXCEPT !.parity = p] \in Settings
         /\ Matches(set_parity(t, p), [s EXCEPT !.parity = p], a \cup {"parity"})
         /\ HasStick(set_parity(t, p)) <=> HasStick(t) \/ p \in {"Space", "Mark"}
<1> DEFINE u == set_parity(t, p)  z == [s EXCEPT !.parity = p]
<1>0. ParityFlags(t.cflag, p) \subseteq CFlags
  BY DEF ParityFlags, Termios, CFlags, Plus, Minus
<1>1. u \in Termios /\ z \in Settings
  BY <1>0 DEF set_parity, Termios, Settings, IFlags, Plus, Minus
<1>2. u.size = t.size /\ u.speed = t.speed /\ u.cflag = ParityFlags(t.cflag, p)
  BY DEF set_parity, Termios
<1>3. u.iflag \cap SoftwareFlags = t.iflag \cap SoftwareFlags
  BY DEF set_parity, Termios, SoftwareFlags, Plus, Minus
<1>4. z.parity = p /\ z.flow = s.flow /\ z.data = s.data /\ z.stop = s.stop /\ z.baud = s.baud
  BY DEF Settings
<1> HIDE DEF u, z
<1>5. \A f \in {"CSTOPB", "CRTSCTS"} : f \in u.cflag <=> f \in t.cflag
  BY <1>2 DEF ParityFlags, Plus, Minus
<1>6. StopBitsOf(u) = StopBitsOf(t) /\ FlowControlOf(u) = FlowControlOf(t)
  BY <1>3, <1>5 DEF StopBitsOf, FlowControlOf
<1>7. HasStick(u) <=> HasStick(t) \/ p \in {"Space", "Mark"}
  BY <1>2 DEF HasStick, ParityFlags, Plus, Minus
<1>8. p # Unknown => ParityOf(u) = ParityOn(u, p)
  <2>1. CASE p = "Space"
    <3>1. "PARENB" \in u.cflag /\ "CMSPAR" \in u.cflag /\ "PARODD" \notin u.cflag
      BY <1>2, <2>1 DEF ParityFlags, Plus, Minus
    <3> QED BY <2>1, <3>1 DEF ParityOf, ParityOn
  <2>2. CASE p = "Mark"
    <3>1. "PARENB" \in u.cflag /\ "CMSPAR" \in u.cflag /\ "PARODD" \in u.cflag
      BY <1>2, <2>2 DEF ParityFlags, Plus, Minus
    <3> QED BY <2>2, <3>1 DEF ParityOf, ParityOn
  <2>3. CASE p = "No"
    <3>1. "PARENB" \notin u.cflag
      BY <1>2, <2>3 DEF ParityFlags, Plus, Minus
    <3> QED BY <2>3, <3>1 DEF ParityOf, ParityOn
  <2>4. CASE p = "Even" \/ p = "Odd"
    <3>1. "PARENB" \in u.cflag /\ ("PARODD" \in u.cflag <=> p = "Odd")
      BY <1>2, <2>4 DEF ParityFlags, Plus, Minus
    <3> QED BY <2>4, <3>1 DEF ParityOf, ParityOn, HasStick
  <2> QED BY <2>1, <2>2, <2>3, <2>4 DEF Parity
<1>9. Matches(u, z, a \cup {"parity"})
  BY <1>2, <1>4, <1>6, <1>8 DEF Matches
<1> QED BY <1>1, <1>7, <1>9 DEF u, z

\* open makes a termios with the defaults of any it has read.
LEMMA OpenMatches ==
  ASSUME NEW t \in Termios
  PROVE  /\ OpenTermios(t) \in Termios
         /\ Matches(OpenTermios(t), Defaults, SettingNames)
         /\ HasStick(OpenTermios(t)) <=> HasStick(t)
<1> DEFINE t0 == set_common_props(t)
           t1 == set_databits(t0, m_dataBits)
           t2 == set_parity(t1, m_parity)
           t3 == set_stopbits(t2, m_stopBits)
           t4 == set_flowcontrol(t3, m_flowControl)
           t5 == set_baud(t4, m_baudRate)
           s1 == [Defaults EXCEPT !.data = m_dataBits]
           s2 == [s1 EXCEPT !.parity = m_parity]
           s3 == [s2 EXCEPT !.stop = m_stopBits]
           s4 == [s3 EXCEPT !.flow = m_flowControl]
           s5 == [s4 EXCEPT !.baud = m_baudRate]
<1>0. /\ m_dataBits \in DataBits /\ m_parity \in Parity /\ m_stopBits \in StopBits
      /\ m_flowControl \in FlowControl /\ m_baudRate \in Bauds
  BY DefaultsAreSettings DEF Defaults, m_dataBits, m_parity, m_stopBits, m_flowControl,
     DataBits, Parity, StopBits, FlowControl
<1>a. OpenTermios(t) = t5
  BY DEF OpenTermios
<1>b. /\ s5.data = Defaults.data /\ s5.parity = Defaults.parity /\ s5.stop = Defaults.stop
      /\ s5.flow = Defaults.flow /\ s5.baud = Defaults.baud
  BY DEF Defaults
<1>1. t0 \in Termios
  <2>1. cfmakeraw(t) \in Termios
    <3>1. [t EXCEPT !.iflag = Minus(@, {"PARMRK", "IXON"})] \in Termios
      BY DEF Termios, IFlags, Minus
    <3>2. \A u \in Termios : [u EXCEPT !.cflag = Minus(@, {"PARENB"})] \in Termios
      BY DEF Termios, CFlags, Minus
    <3>3. \A u \in Termios : [u EXCEPT !.size = 8] \in Termios
      BY DEF Termios
    <3> QED BY <3>1, <3>2, <3>3 DEF cfmakeraw
  <2> HIDE DEF t0
  <2>2. t0 = [cfmakeraw(t) EXCEPT !.cflag = Plus(@, {"CLOCAL"})]
    BY DEF t0, set_common_props
  <2> QED BY <2>1, <2>2 DEF Termios, CFlags, Plus
<1>2. Defaults \in Settings /\ Matches(t0, Defaults, {})
  BY DefaultsAreSettings DEF Matches
<1>c. HasStick(t0) <=> HasStick(t)
  BY DEF HasStick, set_common_props, cfmakeraw, Termios, Plus, Minus
<1> HIDE DEF t0, t1, t2, t3, t4, t5, s1, s2, s3, s4, s5
<1>3. t1 \in Termios /\ s1 \in Settings /\ Matches(t1, s1, {} \cup {"data"})
      /\ (HasStick(t1) <=> HasStick(t0))
  BY <1>0, <1>1, <1>2, DataBitsMatch DEF t1, s1
<1>4. t2 \in Termios /\ s2 \in Settings /\ Matches(t2, s2, {} \cup {"data"} \cup {"parity"})
      /\ (HasStick(t2) <=> HasStick(t1))
  BY <1>0, <1>3, ParityMatch DEF t2, s2, m_parity
<1>5. t3 \in Termios /\ s3 \in Settings /\ Matches(t3, s3, {} \cup {"data"} \cup {"parity"} \cup {"stop"})
      /\ (HasStick(t3) <=> HasStick(t2))
  BY <1>0, <1>4, StopBitsMatch DEF t3, s3
<1>6. t4 \in Termios /\ s4 \in Settings /\ Matches(t4, s4, {} \cup {"data"} \cup {"parity"} \cup {"stop"} \cup {"flow"})
      /\ (HasStick(t4) <=> HasStick(t3))
  BY <1>0, <1>5, FlowControlMatch DEF t4, s4
<1>7. t5 \in Termios /\ s5 \in Settings /\ Matches(t5, s5, {} \cup {"data"} \cup {"parity"} \cup {"stop"} \cup {"flow"} \cup {"baud"})
      /\ (HasStick(t5) <=> HasStick(t4))
  BY <1>0, <1>6, BaudMatch DEF t5, s5
<1>8. {} \cup {"data"} \cup {"parity"} \cup {"stop"} \cup {"flow"} \cup {"baud"} = SettingNames
  BY DEF SettingNames
<1>9. Matches(t5, Defaults, SettingNames)
  BY <1>b, <1>7, <1>8 DEF Matches
<1> QED BY <1>a, <1>c, <1>3, <1>4, <1>5, <1>6, <1>7, <1>9

\* It makes one of zeros too; they have no CMSPAR.
LEMMA ZeroedIsTermios == Zeroed \in Termios /\ ~HasStick(Zeroed)
BY DEF Zeroed, Termios, CFlags, IFlags, HasStick

-----------------------------------------------------------------------------
\* The file m_fd names is the port's until close is called for the first time;
\* with descriptor 0 in use, m_fd is never 0.
FdIsOwn ==
  /\ ~closed /\ ~gone /\ m_fd # -1 => files[m_fd] = "port"
  /\ StdinOpen => m_fd # 0 /\ files[0] = "other"

PortInv ==
  /\ PortTypeOK /\ FdIsOwn /\ OnlyOwnFile /\ StickHeld /\ LineAsAsked
  /\ StdinOpen => OneFileWhileAlive

\* The object starts in the invariant.
LEMMA InitGivesInv == PortInit => PortInv
<1> SUFFICES ASSUME PortInit PROVE PortInv
  OBVIOUS
<1>1. 0 \in Fds /\ -1 \notin Fds
  BY PortAssumption DEF Fds
<1>0. stick \in BOOLEAN /\ (stick <=> HasStick(tio))
  BY DEF PortInit, HasStick
<1>2. PortTypeOK
  <2>1. tio \in Termios /\ asked \in Settings /\ applied = {}
    BY PortAssumption, DefaultsAreSettings DEF PortInit
  <2>2. m_fd = -1 /\ m_error = "NoError" /\ m_systemLocation = "empty"
        /\ files \in [Fds -> Files]
    BY DEF PortInit, Files
  <2>3. gone \in BOOLEAN /\ foreign \in BOOLEAN /\ closed \in BOOLEAN
    BY DEF PortInit
  <2> QED BY <1>0, <2>1, <2>2, <2>3 DEF PortTypeOK
<1>3. PortFiles = {}
  BY DEF PortInit, PortFiles
<1>4. LineAsAsked
  BY <1>3 DEF LineAsAsked
<1>7. StickHeld
  <2>1. asked.parity = "No"
    BY DEF PortInit, Defaults, m_parity
  <2> QED BY <1>0, <2>1 DEF StickHeld
<1>5. FdIsOwn
  BY <1>1 DEF PortInit, FdIsOwn
<1>6. OnlyOwnFile /\ OneFileWhileAlive
  BY <1>3 DEF PortInit, OnlyOwnFile, OneFileWhileAlive
<1> QED BY <1>2, <1>4, <1>5, <1>6, <1>7 DEF PortInv

\* A call on m_fd reaches no file of another before the port has been closed.
LEMMA CallReachesOwn ==
  ASSUME PortInv, ~gone, ~closed
  PROVE  FileOf(m_fd) # "other"
<1>1. -1 \notin Fds
  BY PortAssumption DEF Fds
<1> QED BY <1>1 DEF PortInv, FdIsOwn, FileOf

\* What is said of the line stays true as long as the device and the history
\* stay the same and no file becomes the port's.
LEMMA LineKept ==
  ASSUME StickHeld, LineAsAsked, UNCHANGED lineVars,
         m_fd' \in PortFiles' => m_fd \in PortFiles
  PROVE  StickHeld' /\ LineAsAsked'
<1>1. StickHeld'
  BY DEF StickHeld, HasStick, lineVars
<1>2. Matches(tio, asked, applied) => Matches(tio', asked', applied')
  BY DEF lineVars
<1> QED BY <1>1, <1>2, LineIsMatch

\* Calls that touch neither the descriptors nor the device.
LEMMA IdleKeepsInv ==
  ASSUME PortInv,
         UNCHANGED <<m_fd, files, lineVars, gone, closed>>,
         \/ foreign' = foreign
         \/ UsesFd /\ ~gone,
         m_error' \in {"NoError", "OpenError", "NotOpenError"} \cup SystemErrors,
         m_systemLocation' \in {"empty", "missing", "device"}
  PROVE  PortInv'
<1>1. foreign' \in BOOLEAN /\ (foreign' => closed)
  BY CallReachesOwn DEF UsesFd, PortInv, PortTypeOK, OnlyOwnFile
<1>2. PortTypeOK' /\ FdIsOwn' /\ OnlyOwnFile'
  BY <1>1 DEF PortInv, PortTypeOK, FdIsOwn, OnlyOwnFile, lineVars
<1>3. StickHeld' /\ LineAsAsked'
  BY LineKept DEF PortInv, PortFiles
<1>4. StdinOpen => OneFileWhileAlive'
  BY DEF PortInv, PortFiles, OneFileWhileAlive
<1> QED BY <1>2, <1>3, <1>4 DEF PortInv

\* A setter that reaches the device makes it match what is asked now.
LEMMA SetterKeepsInv ==
  ASSUME PortInv, ~gone, NEW t, NEW s, NEW names, Setter(t, s, names),
         s \in Settings, names \subseteq SettingNames, t \in Termios,
         Matches(tio, asked, applied) => Matches(t, s, applied \cup names),
         HasStick(t) <=> stick \/ s.parity \in {"Space", "Mark"}
  PROVE  PortInv'
<1>1. /\ tio' = t /\ asked' = s /\ applied' = applied \cup names
      /\ UNCHANGED <<m_fd, m_error, m_systemLocation, files, gone, foreign, closed>>
  BY DEF Setter
<1>2. stick' = (stick \/ s.parity \in {"Space", "Mark"})
  BY DEF Setter
<1>3. m_fd \in PortFiles
  BY DEF Setter, FileOf, PortFiles
<1>4. StickHeld'
  BY <1>1, <1>2 DEF StickHeld, HasStick
<1>5. LineAsAsked'
  BY <1>1, <1>3, <1>4, LineIsMatch DEF PortInv
<1>6. stick' \in BOOLEAN
  BY <1>2 DEF PortInv, PortTypeOK
<1>7. PortTypeOK'
  BY <1>1, <1>6 DEF PortInv, PortTypeOK
<1>8. FdIsOwn' /\ OnlyOwnFile' /\ (StdinOpen => OneFileWhileAlive')
  BY <1>1 DEF PortInv, FdIsOwn, OnlyOwnFile, OneFileWhileAlive, PortFiles
<1> QED BY <1>4, <1>5, <1>7, <1>8 DEF PortInv

\* A setter of anything but the parity, and of the parity.
LEMMA OtherSettersKeepInv ==
  ASSUME PortInv, ~gone, NEW t, NEW s, NEW names, Setter(t, s, names),
         s \in Settings, names \subseteq SettingNames, t \in Termios,
         Matches(tio, asked, applied) => Matches(t, s, applied \cup names),
         HasStick(t) <=> HasStick(tio), s.parity = asked.parity
  PROVE  PortInv'
<1>1. HasStick(t) <=> stick \/ s.parity \in {"Space", "Mark"}
  BY DEF PortInv, StickHeld
<1> QED BY <1>1, SetterKeepsInv

LEMMA ParitySetterKeepsInv ==
  ASSUME PortInv, ~gone, NEW p \in Parity \cup {Unknown}, setParity(p)
  PROVE  PortInv'
<1> DEFINE t == set_parity(tio, p)  s == [asked EXCEPT !.parity = p]
<1>1. tio \in Termios /\ asked \in Settings
  BY DEF PortInv, PortTypeOK
<1>2. Setter(t, s, {"parity"})
  BY DEF setParity
<1>3. /\ FileOf(m_fd) = "port" /\ m_fd \in PortFiles
      /\ Matches(tio, asked, applied)
  BY <1>2, LineIsMatch DEF PortInv, Setter, FileOf, PortFiles
<1>4. /\ t \in Termios /\ s \in Settings /\ Matches(t, s, applied \cup {"parity"})
      /\ HasStick(t) <=> HasStick(tio) \/ p \in {"Space", "Mark"}
  BY <1>1, <1>3, ParityMatch
<1>5. s.parity = p
  BY <1>1 DEF Settings
<1> HIDE DEF t, s
<1>6. HasStick(t) <=> stick \/ s.parity \in {"Space", "Mark"}
  BY <1>4, <1>5 DEF PortInv, StickHeld
<1> QED BY <1>2, <1>4, <1>6, SetterKeepsInv DEF SettingNames

\* A port that is not open has no file, if it cannot have had descriptor 0.
LEMMA NotOpenHasNone ==
  ASSUME PortInv, StdinOpen, ~isOpen
  PROVE  PortFiles = {}
<1>1. m_fd = -1
  BY PortAssumption DEF PortInv, PortTypeOK, FdIsOwn, isOpen, Fds
<1>2. -1 \notin PortFiles
  BY PortAssumption DEF PortFiles, Fds
<1> QED BY <1>1, <1>2 DEF PortInv, OneFileWhileAlive

\* open gets a free descriptor, and leaves the device with the defaults or as it was.
LEMMA OpenKeepsInv ==
  ASSUME PortInv, ~gone, open
  PROVE  PortInv'
<1>0. Min(FreeFds) \in Fds /\ files[Min(FreeFds)] = "free" /\ m_fd' = Min(FreeFds)
  BY GivenIsFree DEF open
<1>1. /\ m_error' = "NoError" /\ files' = [files EXCEPT ![m_fd'] = "port"]
      /\ UNCHANGED <<m_systemLocation, gone, foreign, closed>>
  BY DEF open
<1>2. tio \in Termios /\ Zeroed \in Termios /\ ~HasStick(Zeroed)
  BY ZeroedIsTermios DEF PortInv, PortTypeOK
<1>3. PICK got \in BOOLEAN, set \in BOOLEAN : Configure(got, set)
  BY DEF open
<1>6. asked' = Defaults /\ asked' \in Settings /\ asked'.parity = "No"
  BY <1>3, DefaultsAreSettings DEF Configure, Defaults, m_parity
<1>7. /\ tio' \in Termios /\ applied' \subseteq SettingNames /\ stick' \in BOOLEAN
      /\ Matches(tio', asked', applied') /\ (stick' <=> HasStick(tio'))
  <2>1. CASE ~set
    <3>1. tio' = tio /\ applied' = {} /\ (stick' <=> stick) /\ stick' \in BOOLEAN
      BY <1>3, <2>1 DEF Configure, PortInv, PortTypeOK
    <3> QED BY <1>2, <3>1 DEF Matches, PortInv, StickHeld
  <2>2. CASE set
    <3> DEFINE read == IF got THEN tio ELSE Zeroed
    <3>1. tio' = OpenTermios(read) /\ applied' = SettingNames
      BY <1>3, <2>2 DEF Configure
    <3>2. stick' \in BOOLEAN /\ (stick' <=> stick /\ got)
      BY <1>3, <2>2 DEF Configure
    <3>3. read \in Termios /\ (HasStick(read) <=> stick /\ got)
      BY <1>2 DEF PortInv, StickHeld
    <3> HIDE DEF read
    <3>4. /\ OpenTermios(read) \in Termios
          /\ Matches(OpenTermios(read), Defaults, SettingNames)
          /\ HasStick(OpenTermios(read)) <=> HasStick(read)
      BY <3>3, OpenMatches
    <3> QED BY <1>6, <3>1, <3>2, <3>3, <3>4
  <2> QED BY <2>1, <2>2
<1>8. StickHeld'
  BY <1>6, <1>7 DEF StickHeld, HasStick
<1>9. PortTypeOK'
  BY <1>0, <1>1, <1>6, <1>7 DEF PortInv, PortTypeOK, Files
<1>10. LineAsAsked'
  BY <1>7, <1>8, LineIsMatch
<1>4. FdIsOwn' /\ OnlyOwnFile'
  BY <1>0, <1>1 DEF PortInv, PortTypeOK, FdIsOwn, OnlyOwnFile
<1>5. ASSUME StdinOpen
      PROVE  OneFileWhileAlive'
  <2>1. PortFiles = {}
    BY <1>5, NotOpenHasNone DEF open, MayOpen
  <2>2. PortFiles' \subseteq {m_fd'}
    BY <2>1, <1>1 DEF PortFiles, PortInv, PortTypeOK
  <2> QED BY <2>2, <1>1 DEF OneFileWhileAlive
<1> QED BY <1>4, <1>5, <1>8, <1>9, <1>10 DEF PortInv

\* So does an open that fails: it finds no file to forget.
LEMMA OpenFailsKeepsInv ==
  ASSUME PortInv, ~gone, openFails
  PROVE  PortInv'
<1>1. -1 \notin Fds
  BY PortAssumption DEF Fds
<1>2. m_fd' = -1 /\ m_error' = "OpenError" /\ UNCHANGED <<m_systemLocation, files, lineVars, gone, foreign, closed>>
  BY DEF openFails
<1>3. PortTypeOK' /\ FdIsOwn' /\ OnlyOwnFile'
  BY <1>2 DEF PortInv, PortTypeOK, FdIsOwn, OnlyOwnFile, lineVars
<1>4. StickHeld' /\ LineAsAsked'
  BY <1>1, <1>2, LineKept DEF PortInv, PortFiles
<1>5. StdinOpen => OneFileWhileAlive'
  BY <1>2, NotOpenHasNone DEF openFails, MayOpen, OneFileWhileAlive, PortFiles
<1> QED BY <1>3, <1>4, <1>5 DEF PortInv

\* close and the destructor: the descriptor is free, whoever had it.
LEMMA ClosingKeepsInv ==
  ASSUME PortInv, ~gone, close \/ Destroy
  PROVE  PortInv'
<1>1. UNCHANGED <<m_fd, m_systemLocation, lineVars>>
  BY DEF close, Destroy
<1>2. closed' = TRUE \/ (gone' = TRUE /\ closed' = closed)
  BY DEF close, Destroy
<1>3. \/ files' = files
      \/ m_fd \in Fds /\ files' = [files EXCEPT ![m_fd] = "free"]
  BY DEF close, Destroy, CloseFd
<1>4. foreign' \in BOOLEAN /\ (foreign' => closed')
  BY CallReachesOwn DEF close, Destroy, UsesFd, PortInv, PortTypeOK, OnlyOwnFile
<1>5. gone' \in BOOLEAN /\ closed' \in BOOLEAN
      /\ m_error' \in {"NoError", "OpenError", "NotOpenError"} \cup SystemErrors
  BY DEF close, Destroy, PortInv, PortTypeOK
<1>6. PortTypeOK'
  BY <1>1, <1>3, <1>4, <1>5 DEF PortInv, PortTypeOK, Files, lineVars
<1>7. 0 \in Fds /\ \A fd \in Fds : files'[fd] = "port" => files[fd] = "port"
  BY <1>3, PortAssumption DEF PortInv, PortTypeOK, Fds
<1>8. OnlyOwnFile'
  BY <1>4 DEF OnlyOwnFile
<1>9. FdIsOwn'
  BY <1>1, <1>2, <1>3, <1>7 DEF FdIsOwn, PortInv, PortTypeOK
<1>10. StickHeld' /\ LineAsAsked'
  BY <1>1, <1>7, LineKept DEF PortInv, PortFiles
<1>11. ASSUME StdinOpen
       PROVE  OneFileWhileAlive'
  <2>1. PortFiles' \subseteq PortFiles
    BY <1>7 DEF PortFiles
  <2>2. PortFiles \subseteq {m_fd}
    BY <1>11 DEF PortInv, OneFileWhileAlive
  <2>3. CASE close
    BY <2>1, <2>2, <2>3, <1>1 DEF close, OneFileWhileAlive
  <2>4. CASE Destroy /\ ~isOpen
    BY <2>1, <2>4, <1>11, NotOpenHasNone DEF OneFileWhileAlive
  <2>5. CASE Destroy /\ isOpen
    <3>1. m_fd \in Fds /\ files'[m_fd] = "free"
      BY <2>5 DEF Destroy, CloseFd, isOpen, PortInv, PortTypeOK
    <3> QED BY <2>1, <2>2, <3>1 DEF OneFileWhileAlive, PortFiles
  <2> QED BY <2>3, <2>4, <2>5
<1> QED BY <1>6, <1>8, <1>9, <1>10, <1>11 DEF PortInv

\* The rest of the program opens what is free and closes its own.
LEMMA OthersKeepInv ==
  ASSUME PortInv, OtherOpens \/ \E fd \in Fds : OtherCloses(fd)
  PROVE  PortInv'
<1>1. UNCHANGED <<m_fd, m_error, m_systemLocation, lineVars, gone, foreign, closed>>
  BY DEF OtherOpens, OtherCloses
<1>2. PICK fd \in Fds, f \in {"free", "other"} :
        /\ files[fd] # "port" /\ files' = [files EXCEPT ![fd] = f]
        /\ StdinOpen => fd # 0
  BY GivenIsFree DEF OtherOpens, OtherCloses, PortInv, FdIsOwn
<1>3. PortFiles' = PortFiles
  BY <1>2 DEF PortFiles, PortInv, PortTypeOK
<1>4. PortTypeOK' /\ OnlyOwnFile'
  BY <1>1, <1>2 DEF PortInv, PortTypeOK, Files, OnlyOwnFile, lineVars
<1>5. 0 \in Fds
  BY PortAssumption DEF Fds
<1>6. FdIsOwn'
  BY <1>1, <1>2, <1>5 DEF PortInv, PortTypeOK, FdIsOwn
<1>7. StickHeld' /\ LineAsAsked'
  BY <1>1, <1>3, LineKept DEF PortInv
<1>8. StdinOpen => OneFileWhileAlive'
  BY <1>1, <1>3 DEF PortInv, OneFileWhileAlive
<1> QED BY <1>4, <1>6, <1>7, <1>8 DEF PortInv

\* Every step keeps the invariant.
LEMMA NextKeepsInv ==
  ASSUME PortInv, [PortNext]_portVars
  PROVE  PortInv'
<1>0. /\ tio \in Termios /\ asked \in Settings /\ applied \subseteq SettingNames
      /\ m_fd \in PortFiles => Matches(tio, asked, applied)
  BY LineIsMatch DEF PortInv, PortTypeOK
<1>a. \A t, s, names : Setter(t, s, names) => m_fd \in PortFiles
  BY DEF Setter, FileOf, PortFiles
<1>b. \A s \in Settings : \A d, n, k, b :
        /\ [s EXCEPT !.data = d].parity = s.parity
        /\ [s EXCEPT !.stop = n].parity = s.parity
        /\ [s EXCEPT !.flow = k].parity = s.parity
        /\ [s EXCEPT !.baud = b].parity = s.parity
  BY DEF Settings
<1>1. ASSUME ~gone, \/ \E location \in {"empty", "missing", "device"} : setPortName(location)
                    \/ setPort \/ openMissing \/ clearError \/ getSystemError
                    \/ SetterMisses \/ Transfer
      PROVE  PortInv'
  BY <1>1, IdleKeepsInv
     DEF setPortName, setPort, openMissing, Transfer, clearError, getSystemError,
         SetterMisses, PortInv, PortTypeOK
<1>2. ASSUME ~gone, NEW d \in DataArgs, setDataBits(d)
      PROVE  PortInv'
  <2>1. Setter(set_databits(tio, d), [asked EXCEPT !.data = d], {"data"})
    BY <1>2 DEF setDataBits
  <2>2. /\ set_databits(tio, d) \in Termios /\ [asked EXCEPT !.data = d] \in Settings
        /\ Matches(set_databits(tio, d), [asked EXCEPT !.data = d], applied \cup {"data"})
        /\ HasStick(set_databits(tio, d)) <=> HasStick(tio)
    BY <1>0, <1>a, <2>1, DataBitsMatch, PortAssumption
  <2> QED BY <1>0, <1>b, <1>2, <2>1, <2>2, OtherSettersKeepInv DEF SettingNames
<1>3. ASSUME ~gone, NEW p \in ParityArgs, setParity(p)
      PROVE  PortInv'
  BY <1>3, ParitySetterKeepsInv, PortAssumption
<1>4. ASSUME ~gone, NEW n \in StopArgs, setStopBits(n)
      PROVE  PortInv'
  <2>1. Setter(set_stopbits(tio, n), [asked EXCEPT !.stop = n], {"stop"})
    BY <1>4 DEF setStopBits
  <2>2. /\ set_stopbits(tio, n) \in Termios /\ [asked EXCEPT !.stop = n] \in Settings
        /\ Matches(set_stopbits(tio, n), [asked EXCEPT !.stop = n], applied \cup {"stop"})
        /\ HasStick(set_stopbits(tio, n)) <=> HasStick(tio)
    BY <1>0, <1>a, <2>1, StopBitsMatch, PortAssumption
  <2> QED BY <1>0, <1>b, <1>4, <2>1, <2>2, OtherSettersKeepInv DEF SettingNames
<1>5. ASSUME ~gone, NEW k \in FlowArgs, setFlowControl(k)
      PROVE  PortInv'
  <2>1. Setter(set_flowcontrol(tio, k), [asked EXCEPT !.flow = k], {"flow"})
    BY <1>5 DEF setFlowControl
  <2>2. /\ set_flowcontrol(tio, k) \in Termios /\ [asked EXCEPT !.flow = k] \in Settings
        /\ Matches(set_flowcontrol(tio, k), [asked EXCEPT !.flow = k], applied \cup {"flow"})
        /\ HasStick(set_flowcontrol(tio, k)) <=> HasStick(tio)
    BY <1>0, <1>a, <2>1, FlowControlMatch, PortAssumption
  <2> QED BY <1>0, <1>b, <1>5, <2>1, <2>2, OtherSettersKeepInv DEF SettingNames
<1>6. ASSUME ~gone, NEW b \in BaudArgs, setBaudRate(b)
      PROVE  PortInv'
  <2>1. CASE b = UnknownNumber
    <3>1. Setter(set_baud(tio, b), asked, {})
      BY <1>6, <2>1 DEF setBaudRate
    <3>2. set_baud(tio, b) = tio
      BY <1>0, <2>1 DEF set_baud, Termios
    <3>3. applied \cup {} = applied
      OBVIOUS
    <3> QED BY <1>0, <1>6, <3>1, <3>2, <3>3, OtherSettersKeepInv
  <2>2. CASE b # UnknownNumber
    <3>1. Setter(set_baud(tio, b), [asked EXCEPT !.baud = b], {"baud"})
      BY <1>6, <2>2 DEF setBaudRate
    <3>2. /\ set_baud(tio, b) \in Termios /\ [asked EXCEPT !.baud = b] \in Settings
          /\ Matches(set_baud(tio, b), [asked EXCEPT !.baud = b], applied \cup {"baud"})
          /\ HasStick(set_baud(tio, b)) <=> HasStick(tio)
      BY <1>0, <1>a, <2>2, <3>1, BaudMatch, PortAssumption
    <3> QED BY <1>0, <1>b, <1>6, <3>1, <3>2, OtherSettersKeepInv DEF SettingNames
  <2> QED BY <2>1, <2>2
<1>7. CASE UNCHANGED portVars
  BY <1>7, IdleKeepsInv DEF portVars, PortInv, PortTypeOK
<1> QED
  BY <1>1, <1>2, <1>3, <1>4, <1>5, <1>6, <1>7, OpenKeepsInv, OpenFailsKeepsInv,
     ClosingKeepsInv, OthersKeepInv DEF PortNext, PortCall

-----------------------------------------------------------------------------
\* The invariant holds for any number of descriptors, whichever speeds there
\* are and whatever was left in the device.
THEOREM PortInvariant == PortSpec => []PortInv
BY InitGivesInv, NextKeepsInv, PTL DEF PortSpec

\* The port's variables keep their types.
THEOREM PortTypeCorrect == PortSpec => []PortTypeOK
<1>1. PortInv => PortTypeOK
  BY DEF PortInv
<1> QED BY <1>1, PortInvariant, PTL

\* In a program that keeps descriptor 0 open, a port has at most one file, the
\* one m_fd names, and none once it is destroyed.
THEOREM OneFileWhileAliveAlways ==
  ASSUME StdinOpen
  PROVE  PortSpec => []OneFileWhileAlive
<1>1. PortInv => OneFileWhileAlive
  BY DEF PortInv
<1> QED BY <1>1, PortInvariant, PTL

\* Until its first close, a port touches no file of the rest of the program.
THEOREM OnlyOwnFileAlways == PortSpec => []OnlyOwnFile
<1>1. PortInv => OnlyOwnFile
  BY DEF PortInv
<1> QED BY <1>1, PortInvariant, PTL

\* Each setting that open or a setter has managed to write is what was last asked
\* for it; even and odd are space and mark exactly on a line with stick parity.
THEOREM LineAsAskedAlways == PortSpec => []LineAsAsked
<1>1. PortInv => LineAsAsked
  BY DEF PortInv
<1> QED BY <1>1, PortInvariant, PTL
=============================================================================
