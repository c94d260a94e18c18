--------------------------- MODULE SerialTransfer ---------------------------
(***************************************************************************)
(* SerialPort::readData and SerialPort::writeData                          *)
(* (dev/serial/t_serialport_unix.cpp) called by several threads on one     *)
(* open port: the loops over read and write, which may transfer a part,    *)
(* nothing, be interrupted or fail, and the buffers of the line driver.    *)
(*                                                                         *)
(* open sets VMIN and VTIME to 0, so a read of an empty line returns 0     *)
(* bytes; it opens with O_NDELAY, so a write to a full line fails with     *)
(* EAGAIN.  EINTR and EAGAIN make the loops try again and change nothing:  *)
(* they are stuttering steps.                                              *)
(*                                                                         *)
(* The bytes that arrive are numbered; a byte written is known by its      *)
(* thread and its place in the caller's data.                              *)
(***************************************************************************)
EXTENDS Integers, Sequences, FiniteSets

CONSTANTS
  Threads,
  Sizes,     \* the maxSize arguments
  MaxInput,  \* bound on the bytes that arrive
  MaxCalls,  \* bound on the calls of writeData
  Room       \* bytes the driver keeps before they are on the wire

ASSUME TransferAssumption ==
  /\ Sizes \subseteq Nat
  /\ MaxInput \in Nat /\ MaxCalls \in Nat
  /\ Room \in Nat \ {0}

VARIABLES
  job,        \* the call each thread is in
  cur,        \* its local variable: bytes transferred
  data,       \* the caller's buffer of a readData
  waiting,    \* driver: input not yet read
  unsent,     \* driver: output not yet on the wire
  arrived,    \* history: how many bytes have arrived
  delivered,  \* history: bytes handed to callers of readData
  lost,       \* history: bytes read by calls that returned -1
  newest,     \* history: the last byte handed to each thread, 0 before any
  sent,       \* history: what each thread's last writeData has given to the driver
  returned,   \* history: what it has returned
  writes      \* history: how often writeData has been called

inputVars    == <<waiting, arrived, delivered, lost, newest>>
outputVars   == <<unsent, sent, returned, writes>>
transferVars == <<job, cur, data, inputVars, outputVars>>

NoJob == [op |-> "none", maxSize |-> 0]

TransferInit ==
  /\ job = [t \in Threads |-> NoJob]
  /\ cur = [t \in Threads |-> 0]
  /\ data = [t \in Threads |-> <<>>]
  /\ waiting = <<>> /\ unsent = 0 /\ arrived = 0
  /\ delivered = {} /\ lost = {}
  /\ newest = [t \in Threads |-> 0]
  /\ sent = [t \in Threads |-> <<>>] /\ returned = [t \in Threads |-> 0]
  /\ writes = 0

Upto(n) == 1 .. n
Bytes(s) == {s[k] : k \in DOMAIN s}

Busy(t, op) == job[t].op = op /\ cur[t] < job[t].maxSize

\* How much the next read() or write() asks for.
Wanted(t) == job[t].maxSize - cur[t]

Leave(t) ==
  /\ job' = [job EXCEPT ![t] = NoJob]
  /\ cur' = [cur EXCEPT ![t] = 0]

-----------------------------------------------------------------------------
readData(t, maxSize) ==
  /\ job[t].op = "none"
  /\ job' = [job EXCEPT ![t] = [op |-> "read", maxSize |-> maxSize]]
  /\ UNCHANGED <<cur, data, inputVars, outputVars>>

\* read() stores what it got from data + cur on.
Store_FromStart(old, at, got) == got  \* mutant: data instead of data + cur

Store_First(old, at, got) == got \o SubSeq(old, 1, at)  \* mutant: what was read is moved up

Store(old, at, got) == SubSeq(old, 1, at) \o got

ReadSome(t) ==
  /\ Busy(t, "read")
  /\ \E n \in Upto(Len(waiting)) :
       /\ n <= Wanted(t)
       /\ data' = [data EXCEPT ![t] = Store(@, cur[t], SubSeq(waiting, 1, n))]
       /\ waiting' = SubSeq(waiting, n + 1, Len(waiting))
       /\ cur' = [cur EXCEPT ![t] = @ + n]
  /\ UNCHANGED <<job, arrived, delivered, lost, newest, outputVars>>

\* The loop of readData ends: all is read, or read() has returned 0.
MayReturn_Full(t) == job[t].op = "read" /\ ~Busy(t, "read")  \* mutant: no break

MayReturn(t) ==
  /\ job[t].op = "read"
  /\ Busy(t, "read") => waiting = <<>>

ReadReturns(t) ==
  /\ MayReturn(t)
  /\ delivered' = delivered \cup Bytes(SubSeq(data[t], 1, cur[t]))
  /\ newest' = [newest EXCEPT ![t] = IF cur[t] > 0 THEN data[t][cur[t]] ELSE @]
  /\ data' = [data EXCEPT ![t] = <<>>]
  /\ Leave(t)
  /\ UNCHANGED <<waiting, arrived, lost, outputVars>>

\* Another error: -1, whatever has been read before.
ReadFails(t) ==
  /\ Busy(t, "read")
  /\ lost' = lost \cup Bytes(data[t])
  /\ data' = [data EXCEPT ![t] = <<>>]
  /\ Leave(t)
  /\ UNCHANGED <<waiting, arrived, delivered, newest, outputVars>>

-----------------------------------------------------------------------------
writeData(t, maxSize) ==
  /\ job[t].op = "none" /\ writes < MaxCalls
  /\ job' = [job EXCEPT ![t] = [op |-> "write", maxSize |-> maxSize]]
  /\ sent' = [sent EXCEPT ![t] = <<>>]
  /\ writes' = writes + 1
  /\ UNCHANGED <<cur, data, inputVars, unsent, returned>>

\* write() takes n bytes of the caller's data, from data + cur on.
Part_FromStart(at, n) == [k \in Upto(n) |-> k]  \* mutant: data instead of data + cur

Part(at, n) == [k \in Upto(n) |-> at + k]

WriteSome(t) ==
  /\ Busy(t, "write")
  /\ \E n \in Upto(Room - unsent) :
       /\ n <= Wanted(t)
       /\ sent' = [sent EXCEPT ![t] = @ \o Part(cur[t], n)]
       /\ unsent' = unsent + n
       /\ cur' = [cur EXCEPT ![t] = @ + n]
  /\ UNCHANGED <<job, data, inputVars, returned, writes>>

WriteEnds(t, result) ==
  /\ returned' = [returned EXCEPT ![t] = result]
  /\ Leave(t)
  /\ UNCHANGED <<data, inputVars, unsent, sent, writes>>

WriteReturns(t) == job[t].op = "write" /\ ~Busy(t, "write") /\ WriteEnds(t, cur[t])

\* write() returns 0, which ends the loop; or it fails for good: -1, whatever
\* has been written before.
WriteStops_Size(t) == Busy(t, "write") /\ WriteEnds(t, job[t].maxSize)  \* mutant: "return maxSize"

WriteStops(t) == Busy(t, "write") /\ WriteEnds(t, cur[t])

WriteFails(t) == Busy(t, "write") /\ WriteEnds(t, -1)

-----------------------------------------------------------------------------
\* The line: a byte comes in, a byte goes out.
Arrive ==
  /\ arrived < MaxInput
  /\ arrived' = arrived + 1
  /\ waiting' = Append(waiting, arrived + 1)
  /\ UNCHANGED <<job, cur, data, delivered, lost, newest, outputVars>>

Drain ==
  /\ unsent > 0
  /\ unsent' = unsent - 1
  /\ UNCHANGED <<job, cur, data, inputVars, sent, returned, writes>>

ReadStep(t) == ReadSome(t) \/ ReadReturns(t)

TransferNext ==
  \/ \E t \in Threads :
       \/ \E maxSize \in Sizes : readData(t, maxSize) \/ writeData(t, maxSize)
       \/ ReadStep(t) \/ ReadFails(t)
       \/ WriteSome(t) \/ WriteReturns(t) \/ WriteStops(t) \/ WriteFails(t)
  \/ Arrive \/ Drain

TransferSpec == TransferInit /\ [][TransferNext]_transferVars

(***************************************************************************)
(* The threads run and are not interrupted for ever, and the line is not   *)
(* held by flow control for ever.                                          *)
(***************************************************************************)
TransferFairSpec ==
  /\ TransferSpec
  /\ WF_transferVars(Drain)
  /\ \A t \in Threads :
       /\ WF_transferVars(ReadStep(t))
       /\ SF_transferVars(WriteSome(t)) /\ WF_transferVars(WriteReturns(t))

-----------------------------------------------------------------------------
\* Every byte that arrived is in one place: waiting, in the buffer of one
\* call, delivered, or lost by a call that failed.  So concurrent readers
\* share the input, and no partial read overwrites the one before.
Holders(b) ==
  Cardinality({t \in Threads : b \in Bytes(data[t])})
    + (IF b \in Bytes(waiting) THEN 1 ELSE 0)
    + (IF b \in delivered THEN 1 ELSE 0)
    + (IF b \in lost THEN 1 ELSE 0)

EachByteOnce == \A b \in Upto(arrived) : Holders(b) = 1

\* The bytes a thread is handed are in the order of their arrival, within a call
\* that needed several reads and from one call to the next, also when another
\* thread reads between them or a call in between has lost its bytes.
ReadInOrder ==
  \A t \in Threads :
    /\ \A k \in DOMAIN data[t] : newest[t] < data[t][k]
    /\ \A j, k \in DOMAIN data[t] : j < k => data[t][j] < data[t][k]

\* What a call of writeData gives to the driver is the beginning of its data,
\* each byte once and in order, however often it was cut short, interrupted or
\* overtaken by another thread; the count it returns is how much that was.  When
\* it returns -1 it is the beginning too, but the caller is not told how much.
WrittenInOrder ==
  \A t \in Threads :
    /\ sent[t] = [k \in Upto(Len(sent[t])) |-> k]
    /\ job[t].op = "write" => Len(sent[t]) = cur[t]
    /\ job[t].op # "write" => returned[t] \in {Len(sent[t]), -1}

\* Every call returns, as long as the line drains.
TransfersReturn == \A t \in Threads : job[t].op # "none" ~> job[t].op = "none"
=============================================================================
