------------------------ MODULE SerialTransfer_proofs ------------------------
(***************************************************************************)
(* What readData and writeData do to the bytes, for any number of threads, *)
(* any sizes and any way in which read and write cut a transfer short: no  *)
(* byte that arrived is doubled, or missing, each thread is handed its     *)
(* bytes in order, and what is written is the beginning of the caller's    *)
(* data in order.                                                          *)
(***************************************************************************)
EXTENDS SerialTransfer, SequenceTheorems, FiniteSetTheorems, TLAPS

Job == [op : {"none", "read", "write"}, maxSize : Nat]

\* Where the calls are: cur counts what is in the buffer of a reader.
CallsInv ==
  /\ job \in [Threads -> Job]
  /\ cur \in [Threads -> Nat]
  /\ data \in [Threads -> Seq(Nat)]
  /\ sent \in [Threads -> Seq(Nat)]
  /\ newest \in [Threads -> Nat] /\ returned \in [Threads -> Nat \cup {-1}]
  /\ waiting \in Seq(Nat) /\ unsent \in Nat /\ arrived \in Nat
  /\ \A t \in Threads :
       /\ cur[t] <= job[t].maxSize
       /\ job[t].op = "none" => cur[t] = 0
       /\ Len(data[t]) = IF job[t].op = "read" THEN cur[t] ELSE 0

\* The bytes wait in the order of their arrival.
InOrder == \A j, k \in DOMAIN waiting : j < k => waiting[j] < waiting[k]

\* No byte is in two places.
Apart ==
  /\ \A t, u \in Threads : t # u => Bytes(data[t]) \cap Bytes(data[u]) = {}
  /\ \A t \in Threads : Bytes(data[t]) \cap (Bytes(waiting) \cup delivered \cup lost) = {}
  /\ Bytes(waiting) \cap (delivered \cup lost) = {}
  /\ delivered \cap lost = {}

\* Every byte is in some place, and nothing else is.
Complete ==
  \A b : b \in 1 .. arrived <=>
    b \in Bytes(waiting) \cup delivered \cup lost \/ \E t \in Threads : b \in Bytes(data[t])

\* What has been taken off the line came before all that waits.
TakenFirst ==
  \A t \in Threads : \A w \in Bytes(waiting) :
    newest[t] < w /\ \A k \in DOMAIN data[t] : data[t][k] < w

NewestArrived == \A t \in Threads : newest[t] <= arrived

TransferInv ==
  /\ CallsInv /\ InOrder /\ Apart /\ Complete
  /\ TakenFirst /\ NewestArrived /\ ReadInOrder
  /\ WrittenInOrder

-----------------------------------------------------------------------------
LEMMA ByteAt ==
  ASSUME NEW S, NEW s \in Seq(S)
  PROVE  /\ \A k \in DOMAIN s : s[k] \in Bytes(s)
         /\ \A x \in Bytes(s) : \E k \in DOMAIN s : x = s[k]
BY DEF Bytes

\* The bytes of a sequence that is cut in two, joined or extended.
LEMMA BytesOfCut ==
  ASSUME NEW s \in Seq(Nat), NEW n \in 1 .. Len(s)
  PROVE  /\ SubSeq(s, 1, n) \in Seq(Nat) /\ Len(SubSeq(s, 1, n)) = n
         /\ SubSeq(s, n + 1, Len(s)) \in Seq(Nat)
         /\ Bytes(s) = Bytes(SubSeq(s, 1, n)) \cup Bytes(SubSeq(s, n + 1, Len(s)))
<1> DEFINE a == SubSeq(s, 1, n)
           b == SubSeq(s, n + 1, Len(s))
<1>1. a \in Seq(Nat) /\ Len(a) = n /\ \A k \in 1 .. n : a[k] = s[k]
  OBVIOUS
<1>2. /\ b \in Seq(Nat) /\ Len(b) = Len(s) - n
      /\ \A k \in 1 .. Len(s) - n : b[k] = s[n + k]
  OBVIOUS
<1> HIDE DEF a, b
<1>3. ASSUME NEW k \in 1 .. Len(s)
      PROVE  s[k] \in Bytes(a) \cup Bytes(b)
  <2>1. CASE k <= n
    BY <1>1, <2>1 DEF Bytes
  <2>2. CASE ~(k <= n)
    <3>1. k - n \in 1 .. Len(s) - n /\ n + (k - n) = k
      BY <2>2
    <3>2. b[k - n] = s[k] /\ k - n \in DOMAIN b
      BY <1>2, <3>1
    <3>3. b[k - n] \in Bytes(b)
      BY <3>2 DEF Bytes
    <3> QED BY <3>2, <3>3
  <2> QED BY <2>1, <2>2
<1>4. ASSUME NEW k \in 1 .. n PROVE a[k] \in Bytes(s)
  <2>1. k \in DOMAIN s /\ a[k] = s[k]
    BY <1>1
  <2> QED BY <2>1 DEF Bytes
<1>5. ASSUME NEW k \in 1 .. Len(s) - n PROVE b[k] \in Bytes(s)
  <2>1. n + k \in DOMAIN s /\ b[k] = s[n + k]
    BY <1>2
  <2> QED BY <2>1, ByteAt
<1>6. Bytes(s) \subseteq Bytes(a) \cup Bytes(b)
  BY <1>3, ByteAt
<1>7. DOMAIN a = 1 .. n /\ DOMAIN b = 1 .. Len(s) - n
  BY <1>1, <1>2
<1>8. Bytes(a) \subseteq Bytes(s) /\ Bytes(b) \subseteq Bytes(s)
  <2>1. Bytes(a) \subseteq Bytes(s)
    BY <1>1, <1>4, <1>7, ByteAt
  <2>2. Bytes(b) \subseteq Bytes(s)
    BY <1>2, <1>5, <1>7, ByteAt
  <2> QED BY <2>1, <2>2
<1> QED BY <1>1, <1>2, <1>6, <1>8 DEF a, b

\* Of bytes in order the first n and the others have none in common.
LEMMA CutIsApart ==
  ASSUME NEW s \in Seq(Nat), NEW n \in 1 .. Len(s),
         \A j, k \in DOMAIN s : j < k => s[j] < s[k]
  PROVE  /\ Bytes(SubSeq(s, 1, n)) \cap Bytes(SubSeq(s, n + 1, Len(s))) = {}
         /\ \A j, k \in DOMAIN SubSeq(s, n + 1, Len(s)) :
              j < k => SubSeq(s, n + 1, Len(s))[j] < SubSeq(s, n + 1, Len(s))[k]
<1> DEFINE a == SubSeq(s, 1, n)
           b == SubSeq(s, n + 1, Len(s))
<1>1. Len(a) = n /\ DOMAIN a = 1 .. n /\ \A k \in 1 .. n : a[k] = s[k]
  OBVIOUS
<1>2. /\ DOMAIN b = 1 .. Len(s) - n
      /\ \A k \in 1 .. Len(s) - n : b[k] = s[n + k]
  OBVIOUS
<1> HIDE DEF a, b
<1>3. ASSUME NEW j \in 1 .. n, NEW k \in 1 .. Len(s) - n
      PROVE  a[j] # b[k]
  <2>1. j \in DOMAIN s /\ n + k \in DOMAIN s /\ j < n + k
    OBVIOUS
  <2>2. s[j] < s[n + k] /\ s[j] \in Nat /\ s[n + k] \in Nat
    BY <2>1
  <2> QED BY <1>1, <1>2, <2>2
<1>4. ASSUME NEW j \in 1 .. Len(s) - n, NEW k \in 1 .. Len(s) - n, j < k
      PROVE  b[j] < b[k]
  <2>1. n + j \in DOMAIN s /\ n + k \in DOMAIN s /\ n + j < n + k
    BY <1>4
  <2> QED BY <1>2, <2>1
<1>5. Bytes(a) \cap Bytes(b) = {}
  BY <1>1, <1>2, <1>3 DEF Bytes
<1> QED BY <1>2, <1>4, <1>5 DEF a, b

LEMMA BytesOfJoin ==
  ASSUME NEW a \in Seq(Nat), NEW b \in Seq(Nat)
  PROVE  /\ a \o b \in Seq(Nat) /\ Len(a \o b) = Len(a) + Len(b)
         /\ Bytes(a \o b) = Bytes(a) \cup Bytes(b)
<1>1. /\ a \o b \in Seq(Nat) /\ Len(a \o b) = Len(a) + Len(b)
      /\ \A k \in 1 .. Len(a) + Len(b) :
           (a \o b)[k] = IF k <= Len(a) THEN a[k] ELSE b[k - Len(a)]
  BY ConcatProperties
<1>2. ASSUME NEW k \in 1 .. Len(a) + Len(b)
      PROVE  (a \o b)[k] \in Bytes(a) \cup Bytes(b)
  <2>1. CASE k <= Len(a)
    BY <1>1, <2>1 DEF Bytes
  <2>2. CASE ~(k <= Len(a))
    <3>1. k - Len(a) \in DOMAIN b
      BY <2>2
    <3> QED BY <1>1, <2>2, <3>1 DEF Bytes
  <2> QED BY <2>1, <2>2
<1>3. ASSUME NEW k \in DOMAIN a PROVE a[k] \in Bytes(a \o b)
  <2>1. k \in 1 .. Len(a) + Len(b) /\ k <= Len(a)
    OBVIOUS
  <2> QED BY <1>1, <2>1 DEF Bytes
<1>4. ASSUME NEW k \in DOMAIN b PROVE b[k] \in Bytes(a \o b)
  <2>1. Len(a) + k \in 1 .. Len(a) + Len(b) /\ ~(Len(a) + k <= Len(a))
        /\ (Len(a) + k) - Len(a) = k
    OBVIOUS
  <2> QED BY <1>1, <2>1 DEF Bytes
<1>5. Bytes(a \o b) \subseteq Bytes(a) \cup Bytes(b)
  BY <1>1, <1>2 DEF Bytes
<1>6. Bytes(a) \subseteq Bytes(a \o b) /\ Bytes(b) \subseteq Bytes(a \o b)
  BY <1>3, <1>4 DEF Bytes
<1> QED BY <1>1, <1>5, <1>6

LEMMA BytesOfNone == Bytes(<<>>) = {}
BY DEF Bytes

LEMMA Whole ==
  ASSUME NEW s \in Seq(Nat)
  PROVE  SubSeq(s, 1, Len(s)) = s
<1>1. /\ SubSeq(s, 1, Len(s)) \in Seq(Nat) /\ Len(SubSeq(s, 1, Len(s))) = Len(s)
      /\ \A k \in 1 .. Len(s) : SubSeq(s, 1, Len(s))[k] = s[k]
  OBVIOUS
<1> QED BY <1>1, SeqEqual

\* The numbers from 1 to c and the part taken from c on are those to c + n.
LEMMA PartFollows ==
  ASSUME NEW c \in Nat, NEW n \in Nat
  PROVE  /\ [k \in Upto(c) |-> k] \o Part(c, n) = [k \in Upto(c + n) |-> k]
         /\ [k \in Upto(c + n) |-> k] \in Seq(Nat)
<1> DEFINE a == [k \in 1 .. c |-> k]
           b == [k \in 1 .. n |-> c + k]
           d == [k \in 1 .. c + n |-> k]
<1>1. a \in Seq(Nat) /\ Len(a) = c /\ b \in Seq(Nat) /\ Len(b) = n
      /\ d \in Seq(Nat) /\ Len(d) = c + n
  OBVIOUS
<1>2. /\ a \o b \in Seq(Nat) /\ Len(a \o b) = c + n
      /\ \A k \in 1 .. c + n : (a \o b)[k] = IF k <= c THEN a[k] ELSE b[k - c]
  BY <1>1, ConcatProperties
<1>3. ASSUME NEW k \in 1 .. c + n PROVE (a \o b)[k] = d[k]
  <2>1. CASE k <= c
    <3>1. k \in 1 .. c
      BY <2>1
    <3> QED BY <1>2, <2>1, <3>1
  <2>2. CASE ~(k <= c)
    <3>1. k - c \in 1 .. n
      BY <2>2
    <3> QED BY <1>2, <2>2, <3>1
  <2> QED BY <2>1, <2>2
<1> HIDE DEF a, b, d
<1>4. a \o b = d
  BY <1>1, <1>2, <1>3, SeqEqual
<1> QED BY <1>1, <1>4 DEF a, b, d, Upto, Part

-----------------------------------------------------------------------------
(***************************************************************************)
(* The calls.                                                              *)
(***************************************************************************)
LEMMA InitGivesInv == TransferInit => TransferInv
<1> SUFFICES ASSUME TransferInit PROVE TransferInv
  OBVIOUS
<1>1. <<>> \in Seq(Nat) /\ Len(<<>>) = 0 /\ DOMAIN <<>> = {}
  OBVIOUS
<1>2. CallsInv
  BY <1>1 DEF TransferInit, CallsInv, NoJob, Job
<1>3. InOrder
  BY <1>1 DEF TransferInit, InOrder
<1>4. Bytes(waiting) = {} /\ \A t \in Threads : Bytes(data[t]) = {}
  BY BytesOfNone DEF TransferInit
<1>5. Apart
  BY <1>4 DEF TransferInit, Apart
<1>6. Complete
  BY <1>4 DEF TransferInit, Complete
<1>7. WrittenInOrder
  <2>1. [k \in Upto(0) |-> k] = <<>>
    BY DEF Upto
  <2> QED BY <1>1, <2>1 DEF TransferInit, WrittenInOrder, NoJob
<1>8. TakenFirst /\ NewestArrived /\ ReadInOrder
  BY <1>1, <1>4 DEF TransferInit, TakenFirst, NewestArrived, ReadInOrder
<1> QED BY <1>2, <1>3, <1>5, <1>6, <1>7, <1>8 DEF TransferInv

\* What a read() takes from the line is appended to the caller's buffer.
LEMMA ReadSomeEffect ==
  ASSUME CallsInv, NEW t \in Threads, ReadSome(t)
  PROVE  \E n \in 1 .. Len(waiting) :
           /\ n <= Wanted(t)
           /\ data' = [data EXCEPT ![t] = data[t] \o SubSeq(waiting, 1, n)]
           /\ waiting' = SubSeq(waiting, n + 1, Len(waiting))
           /\ cur' = [cur EXCEPT ![t] = cur[t] + n]
<1>1. PICK n \in 1 .. Len(waiting) :
        /\ n <= Wanted(t)
        /\ data' = [data EXCEPT ![t] = SubSeq(data[t], 1, cur[t]) \o SubSeq(waiting, 1, n)]
        /\ waiting' = SubSeq(waiting, n + 1, Len(waiting))
        /\ cur' = [cur EXCEPT ![t] = cur[t] + n]
  BY DEF ReadSome, Upto, Store
<1>2. data[t] \in Seq(Nat) /\ cur[t] = Len(data[t])
  BY DEF CallsInv, ReadSome, Busy
<1>3. SubSeq(data[t], 1, cur[t]) = data[t]
  BY <1>2, Whole
<1> QED BY <1>1, <1>3

\* The buffers keep their sizes, and the counts stay within what was asked for.
LEMMA StepKeepsCalls ==
  ASSUME CallsInv, [TransferNext]_transferVars
  PROVE  CallsInv'
<1> USE TransferAssumption
<1>1. ASSUME NEW t \in Threads, NEW maxSize \in Sizes, readData(t, maxSize)
      PROVE  CallsInv'
  <2>1. [op |-> "read", maxSize |-> maxSize] \in Job
    BY DEF Job
  <2> QED BY <1>1, <2>1 DEF readData, CallsInv, inputVars, outputVars
<1>2. ASSUME NEW t \in Threads, NEW maxSize \in Sizes, writeData(t, maxSize)
      PROVE  CallsInv'
  <2>1. [op |-> "write", maxSize |-> maxSize] \in Job /\ <<>> \in Seq(Nat)
    BY DEF Job
  <2> QED BY <1>2, <2>1 DEF writeData, CallsInv, inputVars
<1>3. ASSUME NEW t \in Threads, ReadSome(t) PROVE CallsInv'
  <2>1. PICK n \in 1 .. Len(waiting) :
          /\ n <= Wanted(t)
          /\ data' = [data EXCEPT ![t] = data[t] \o SubSeq(waiting, 1, n)]
          /\ waiting' = SubSeq(waiting, n + 1, Len(waiting))
          /\ cur' = [cur EXCEPT ![t] = cur[t] + n]
    BY <1>3, ReadSomeEffect
  <2>2. waiting \in Seq(Nat) /\ data[t] \in Seq(Nat)
    BY DEF CallsInv
  <2>3. /\ SubSeq(waiting, 1, n) \in Seq(Nat) /\ Len(SubSeq(waiting, 1, n)) = n
        /\ waiting' \in Seq(Nat)
    BY <2>1, <2>2, BytesOfCut
  <2>4. /\ data[t] \o SubSeq(waiting, 1, n) \in Seq(Nat)
        /\ Len(data[t] \o SubSeq(waiting, 1, n)) = Len(data[t]) + n
    BY <2>2, <2>3, BytesOfJoin
  <2>5. /\ job' = job /\ sent' = sent /\ unsent' = unsent /\ arrived' = arrived
        /\ newest' = newest /\ returned' = returned
        /\ job[t].op = "read"
    BY <1>3 DEF ReadSome, Busy, outputVars
  <2>6. cur[t] + n <= job[t].maxSize
    BY <2>1 DEF Wanted, CallsInv, Job
  <2>7. data' \in [Threads -> Seq(Nat)] /\ cur' \in [Threads -> Nat]
    BY <2>1, <2>4 DEF CallsInv
  <2>8. data'[t] = data[t] \o SubSeq(waiting, 1, n) /\ cur'[t] = cur[t] + n
    BY <2>1 DEF CallsInv
  <2>9. \A u \in Threads \ {t} : data'[u] = data[u] /\ cur'[u] = cur[u]
    BY <2>1 DEF CallsInv
  <2>10. Len(data'[t]) = cur'[t] /\ cur'[t] <= job[t].maxSize
    BY <2>4, <2>5, <2>6, <2>8 DEF CallsInv
  <2> QED BY <2>3, <2>5, <2>7, <2>9, <2>10 DEF CallsInv
<1>4. ASSUME NEW t \in Threads,
             ReadReturns(t) \/ ReadFails(t) \/ WriteReturns(t) \/ WriteStops(t)
               \/ WriteFails(t)
      PROVE  CallsInv'
  <2>1. /\ job' = [job EXCEPT ![t] = NoJob] /\ cur' = [cur EXCEPT ![t] = 0]
        /\ sent' = sent /\ unsent' = unsent /\ arrived' = arrived /\ waiting' = waiting
    BY <1>4 DEF ReadReturns, ReadFails, WriteReturns, WriteStops, WriteFails, WriteEnds,
                Leave, inputVars, outputVars
  <2>2. NoJob \in Job /\ NoJob.op = "none" /\ NoJob.maxSize = 0 /\ <<>> \in Seq(Nat)
    BY DEF NoJob, Job
  <2>3. \/ data' = [data EXCEPT ![t] = <<>>]
        \/ data' = data /\ job[t].op = "write"
    BY <1>4 DEF ReadReturns, ReadFails, WriteReturns, WriteStops, WriteFails, WriteEnds, Busy
  <2>4. /\ job' \in [Threads -> Job] /\ cur' \in [Threads -> Nat]
        /\ data' \in [Threads -> Seq(Nat)]
    BY <2>1, <2>2, <2>3 DEF CallsInv
  <2>5. job'[t] = NoJob /\ cur'[t] = 0 /\ Len(data'[t]) = 0
    BY <2>1, <2>3 DEF CallsInv
  <2>6. \A u \in Threads \ {t} : job'[u] = job[u] /\ cur'[u] = cur[u] /\ data'[u] = data[u]
    BY <2>1, <2>3 DEF CallsInv
  <2>7. newest' \in [Threads -> Nat]
    <3>1. CASE ReadReturns(t)
      <4>1. newest' = [newest EXCEPT ![t] = IF cur[t] > 0 THEN data[t][cur[t]] ELSE newest[t]]
        BY <3>1 DEF ReadReturns
      <4>2. cur[t] = Len(data[t]) /\ data[t] \in Seq(Nat)
        BY <3>1 DEF ReadReturns, MayReturn, CallsInv
      <4>3. cur[t] > 0 => data[t][cur[t]] \in Nat
        BY <4>2
      <4> QED BY <4>1, <4>3 DEF CallsInv
    <3>2. CASE ~ReadReturns(t)
      BY <1>4, <3>2 DEF ReadFails, WriteReturns, WriteStops, WriteFails, WriteEnds, inputVars,
                        CallsInv
    <3> QED BY <3>1, <3>2
  <2>8. returned' \in [Threads -> Nat \cup {-1}]
    BY <1>4 DEF ReadReturns, ReadFails, WriteReturns, WriteStops, WriteFails, WriteEnds,
                outputVars, CallsInv
  <2>9. ASSUME NEW u \in Threads
        PROVE  /\ cur'[u] <= job'[u].maxSize
               /\ job'[u].op = "none" => cur'[u] = 0
               /\ Len(data'[u]) = IF job'[u].op = "read" THEN cur'[u] ELSE 0
    <3>1. CASE u = t
      <4>1. cur'[u] = 0 /\ job'[u].maxSize = 0 /\ job'[u].op = "none" /\ Len(data'[u]) = 0
        BY <2>2, <2>5, <3>1
      <4> QED BY <4>1
    <3>2. CASE u # t
      <4>1. cur'[u] = cur[u] /\ job'[u] = job[u] /\ data'[u] = data[u]
        BY <2>6, <3>2
      <4> QED BY <4>1 DEF CallsInv
    <3> QED BY <3>1, <3>2
  <2> QED BY <2>1, <2>4, <2>7, <2>8, <2>9 DEF CallsInv
<1>5. ASSUME NEW t \in Threads, WriteSome(t) PROVE CallsInv'
  <2>1. PICK n \in 1 .. Room - unsent :
          /\ n <= Wanted(t)
          /\ sent' = [sent EXCEPT ![t] = @ \o Part(cur[t], n)]
          /\ unsent' = unsent + n
          /\ cur' = [cur EXCEPT ![t] = @ + n]
    BY <1>5 DEF WriteSome, Upto
  <2>2. n \in Nat /\ cur[t] \in Nat /\ sent[t] \in Seq(Nat) /\ unsent \in Nat
    BY DEF CallsInv
  <2>3. Part(cur[t], n) \in Seq(Nat)
    BY <2>2 DEF Part, Upto
  <2>4. sent[t] \o Part(cur[t], n) \in Seq(Nat)
    BY <2>2, <2>3, ConcatProperties
  <2>5. /\ job' = job /\ data' = data /\ waiting' = waiting /\ arrived' = arrived
        /\ newest' = newest /\ returned' = returned /\ job[t].op = "write"
    BY <1>5 DEF WriteSome, Busy, inputVars
  <2>6. cur[t] + n <= job[t].maxSize
    BY <2>1, <2>2 DEF Wanted, CallsInv, Job
  <2> QED BY <2>1, <2>2, <2>4, <2>5, <2>6 DEF CallsInv
<1>6. CASE Arrive
  BY <1>6 DEF Arrive, CallsInv, outputVars
<1>7. CASE Drain
  BY <1>7 DEF Drain, CallsInv, inputVars
<1>8. CASE UNCHANGED transferVars
  BY <1>8 DEF transferVars, CallsInv, inputVars, outputVars
<1> QED BY <1>1, <1>2, <1>3, <1>4, <1>5, <1>6, <1>7, <1>8 DEF TransferNext, ReadStep

\* Only write() adds to what has been sent, and it adds what comes next.
LEMMA StepKeepsWritten ==
  ASSUME CallsInv, WrittenInOrder, [TransferNext]_transferVars
  PROVE  WrittenInOrder'
<1> DEFINE Written(u) ==
      /\ sent[u] = [k \in Upto(Len(sent[u])) |-> k]
      /\ job[u].op = "write" => Len(sent[u]) = cur[u]
      /\ job[u].op # "write" => returned[u] \in {Len(sent[u]), -1}
<1>0. /\ \A u \in Threads : Written(u)
      /\ (\A u \in Threads : Written(u)') => WrittenInOrder'
  BY DEF WrittenInOrder
<1>a. ASSUME NEW u \in Threads, UNCHANGED <<job[u], cur[u], sent[u], returned[u]>>
      PROVE  Written(u)'
  BY <1>0, <1>a
<1>1. ASSUME NEW t \in Threads, NEW maxSize \in Sizes, readData(t, maxSize), NEW u \in Threads
      PROVE  Written(u)'
  <2>1. /\ cur' = cur /\ sent' = sent /\ returned' = returned
        /\ job' = [job EXCEPT ![t] = [op |-> "read", maxSize |-> maxSize]]
        /\ job[t].op = "none"
    BY <1>1 DEF readData, outputVars
  <2>2. \/ job[u].op # "write" /\ job'[u].op # "write"
        \/ job'[u] = job[u]
    BY <2>1 DEF CallsInv
  <2> QED BY <1>0, <2>1, <2>2
<1>2. ASSUME NEW t \in Threads, NEW maxSize \in Sizes, writeData(t, maxSize), NEW u \in Threads
      PROVE  Written(u)'
  <2>1. [k \in Upto(0) |-> k] = <<>> /\ Len(<<>>) = 0
    BY DEF Upto
  <2>2. /\ cur' = cur /\ cur[t] = 0 /\ sent' = [sent EXCEPT ![t] = <<>>] /\ returned' = returned
        /\ job'[t].op = "write" /\ sent'[t] = <<>>
        /\ \A v \in Threads \ {t} : job'[v] = job[v] /\ sent'[v] = sent[v]
    BY <1>2 DEF writeData, CallsInv
  <2>3. CASE u = t
    BY <2>1, <2>2, <2>3
  <2> QED BY <1>a, <2>2, <2>3
<1>3. ASSUME NEW t \in Threads, ReadSome(t), NEW u \in Threads
      PROVE  Written(u)'
  <2>1. /\ job' = job /\ sent' = sent /\ returned' = returned /\ job[t].op # "write"
        /\ \A v \in Threads \ {t} : cur'[v] = cur[v]
    BY <1>3 DEF ReadSome, Busy, CallsInv, outputVars
  <2> QED BY <1>0, <2>1
<1>4. ASSUME NEW t \in Threads, ReadReturns(t) \/ ReadFails(t), NEW u \in Threads
      PROVE  Written(u)'
  <2>1. /\ job[t].op = "read" /\ job' = [job EXCEPT ![t] = NoJob]
        /\ cur' = [cur EXCEPT ![t] = 0] /\ sent' = sent /\ returned' = returned
    BY <1>4 DEF ReadReturns, MayReturn, ReadFails, Busy, Leave, outputVars
  <2>2. CASE u = t
    <3>1. job'[u].op # "write" /\ job[u].op # "write"
      BY <2>1, <2>2 DEF CallsInv, NoJob
    <3> QED BY <1>0, <2>1, <3>1
  <2>3. CASE u # t
    BY <1>a, <2>1, <2>3 DEF CallsInv
  <2> QED BY <2>2, <2>3
<1>5. ASSUME NEW t \in Threads, WriteSome(t), NEW u \in Threads
      PROVE  Written(u)'
  <2>1. PICK n \in 1 .. Room - unsent :
          /\ sent' = [sent EXCEPT ![t] = @ \o Part(cur[t], n)]
          /\ cur' = [cur EXCEPT ![t] = @ + n]
    BY <1>5 DEF WriteSome, Upto
  <2>2. /\ n \in Nat /\ cur[t] \in Nat /\ job' = job /\ job[t].op = "write"
        /\ returned' = returned
    BY <1>5, TransferAssumption DEF WriteSome, Busy, CallsInv
  <2>3. sent[t] = [k \in Upto(cur[t]) |-> k]
    BY <1>0, <2>2
  <2>4. sent[t] \o Part(cur[t], n) = [k \in Upto(cur[t] + n) |-> k]
    BY <2>2, <2>3, PartFollows
  <2>5. sent'[t] = [k \in Upto(cur'[t]) |-> k] /\ cur'[t] \in Nat
    BY <2>1, <2>2, <2>4 DEF CallsInv
  <2>6. Len(sent'[t]) = cur'[t]
    BY <2>5 DEF Upto
  <2>7. CASE u = t
    BY <2>2, <2>5, <2>6, <2>7
  <2>8. CASE u # t
    <3>1. sent'[u] = sent[u] /\ cur'[u] = cur[u]
      BY <2>1, <2>8 DEF CallsInv
    <3> QED BY <1>a, <2>2, <3>1
  <2> QED BY <2>7, <2>8
<1>6. ASSUME NEW t \in Threads, WriteReturns(t) \/ WriteStops(t) \/ WriteFails(t),
             NEW u \in Threads
      PROVE  Written(u)'
  <2>1. PICK result \in {cur[t], -1} : WriteEnds(t, result)
    BY <1>6 DEF WriteReturns, WriteStops, WriteFails
  <2>2. /\ job' = [job EXCEPT ![t] = NoJob] /\ cur' = [cur EXCEPT ![t] = 0] /\ sent' = sent
        /\ returned' = [returned EXCEPT ![t] = result]
    BY <2>1 DEF WriteEnds, Leave
  <2>3. job[t].op = "write"
    BY <1>6 DEF WriteReturns, WriteStops, WriteFails, Busy
  <2>4. CASE u = t
    <3>1. job'[u].op # "write" /\ returned'[u] = result
      BY <2>2, <2>4 DEF CallsInv, NoJob
    <3>2. Len(sent[u]) = cur[t]
      BY <1>0, <2>3, <2>4
    <3> QED BY <1>0, <2>2, <3>1, <3>2
  <2>5. CASE u # t
    BY <1>a, <2>2, <2>5 DEF CallsInv
  <2> QED BY <2>4, <2>5
<1>7. ASSUME Arrive \/ Drain \/ UNCHANGED transferVars, NEW u \in Threads
      PROVE  Written(u)'
  BY <1>a, <1>7 DEF Arrive, Drain, transferVars, outputVars
<1> HIDE DEF Written
<1> QED BY <1>0, <1>1, <1>2, <1>3, <1>4, <1>5, <1>6, <1>7 DEF TransferNext, ReadStep

-----------------------------------------------------------------------------
(***************************************************************************)
(* The bytes.  Each step that touches them moves some from one place to    *)
(* another; the rest leave every place as it is.                           *)
(***************************************************************************)
PlacesInv == InOrder /\ Apart /\ Complete

\* A read() moves the first bytes that wait into one caller's buffer.
LEMMA ReadSomeKeepsPlaces ==
  ASSUME CallsInv, PlacesInv, NEW t \in Threads, ReadSome(t)
  PROVE  PlacesInv'
<1>1. PICK n \in 1 .. Len(waiting) :
        /\ data' = [data EXCEPT ![t] = data[t] \o SubSeq(waiting, 1, n)]
        /\ waiting' = SubSeq(waiting, n + 1, Len(waiting))
  BY ReadSomeEffect
<1> DEFINE got == SubSeq(waiting, 1, n)
<1>2. waiting \in Seq(Nat) /\ data \in [Threads -> Seq(Nat)]
  BY DEF CallsInv
<1>3. got \in Seq(Nat) /\ Bytes(waiting) = Bytes(got) \cup Bytes(waiting')
  BY <1>1, <1>2, BytesOfCut
<1>4. InOrder' /\ Bytes(got) \cap Bytes(waiting') = {}
  <2>1. \A j, k \in DOMAIN waiting : j < k => waiting[j] < waiting[k]
    BY DEF PlacesInv, InOrder
  <2> QED BY <1>1, <1>2, <2>1, CutIsApart DEF InOrder
<1> HIDE DEF got
<1>5. Bytes(data'[t]) = Bytes(data[t]) \cup Bytes(got)
  <2>1. data'[t] = data[t] \o got
    BY <1>1, <1>2 DEF got
  <2> QED BY <1>2, <1>3, <2>1, BytesOfJoin
<1>6. \A u \in Threads \ {t} : data'[u] = data[u]
  BY <1>1, <1>2
<1>7. delivered' = delivered /\ lost' = lost /\ arrived' = arrived
  BY DEF ReadSome
<1>8. Apart'
  <2>1. Apart
    BY DEF PlacesInv
  <2>2. Bytes(got) \cap (delivered \cup lost) = {}
    BY <1>3, <2>1 DEF Apart
  <2>3. \A u \in Threads : Bytes(data[u]) \cap Bytes(got) = {}
    BY <1>3, <2>1 DEF Apart
  <2>4. ASSUME NEW u \in Threads, NEW v \in Threads, u # v
        PROVE  Bytes(data'[u]) \cap Bytes(data'[v]) = {}
    <3>1. Bytes(data[u]) \cap Bytes(data[v]) = {}
      BY <2>1, <2>4 DEF Apart
    <3> QED BY <1>5, <1>6, <2>3, <2>4, <3>1
  <2>5. ASSUME NEW u \in Threads
        PROVE  Bytes(data'[u]) \cap (Bytes(waiting') \cup delivered \cup lost) = {}
    <3>1. Bytes(data[u]) \cap (Bytes(waiting) \cup delivered \cup lost) = {}
      BY <2>1 DEF Apart
    <3> QED BY <1>3, <1>4, <1>5, <1>6, <2>2, <3>1
  <2>6. Bytes(waiting') \cap (delivered \cup lost) = {} /\ delivered \cap lost = {}
    BY <1>3, <2>1 DEF Apart
  <2> QED BY <1>7, <2>4, <2>5, <2>6 DEF Apart
<1>9. Complete'
  <2>1. ASSUME NEW b
        PROVE  b \in Bytes(waiting) \/ (\E u \in Threads : b \in Bytes(data[u]))
                 <=> b \in Bytes(waiting') \/ (\E u \in Threads : b \in Bytes(data'[u]))
    BY <1>3, <1>5, <1>6
  <2> QED BY <1>7, <2>1 DEF PlacesInv, Complete
<1> QED BY <1>4, <1>8, <1>9 DEF PlacesInv

\* A call of readData that ends gives its bytes to the caller or loses them.
LEMMA ReadEndsKeepsPlaces ==
  ASSUME CallsInv, PlacesInv, NEW t \in Threads, ReadReturns(t) \/ ReadFails(t)
  PROVE  PlacesInv'
<1>1. data[t] \in Seq(Nat) /\ data \in [Threads -> Seq(Nat)]
      /\ (job[t].op = "read" => cur[t] = Len(data[t]))
  BY DEF CallsInv
<1>2. \/ delivered' = delivered \cup Bytes(data[t]) /\ lost' = lost
      \/ lost' = lost \cup Bytes(data[t]) /\ delivered' = delivered
  <2>1. CASE ReadReturns(t)
    <3>1. SubSeq(data[t], 1, cur[t]) = data[t]
      BY <1>1, <2>1, Whole DEF ReadReturns, MayReturn
    <3> QED BY <2>1, <3>1 DEF ReadReturns
  <2>2. CASE ReadFails(t)
    BY <2>2 DEF ReadFails
  <2> QED BY <2>1, <2>2
<1>3. /\ data' = [data EXCEPT ![t] = <<>>]
      /\ waiting' = waiting /\ arrived' = arrived
  BY DEF ReadReturns, ReadFails
<1>4. Bytes(data'[t]) = {} /\ \A u \in Threads \ {t} : data'[u] = data[u]
  BY <1>1, <1>3, BytesOfNone
<1>5. InOrder'
  BY <1>3 DEF PlacesInv, InOrder
<1>6. Apart'
  BY <1>2, <1>3, <1>4 DEF PlacesInv, Apart
<1>7. Complete'
  <2>1. ASSUME NEW b
        PROVE  b \in delivered \cup lost \/ (\E u \in Threads : b \in Bytes(data[u]))
                 <=> b \in delivered' \cup lost' \/ (\E u \in Threads : b \in Bytes(data'[u]))
    BY <1>2, <1>4
  <2> QED BY <1>3, <2>1 DEF PlacesInv, Complete
<1> QED BY <1>5, <1>6, <1>7 DEF PlacesInv

\* A byte that arrives is the last to wait.
LEMMA ArriveKeepsPlaces ==
  ASSUME CallsInv, PlacesInv, Arrive
  PROVE  PlacesInv'
<1> DEFINE new == arrived + 1
<1>1. /\ waiting \in Seq(Nat) /\ arrived \in Nat /\ new \in Nat
      /\ waiting' = Append(waiting, new) /\ arrived' = new
      /\ data' = data /\ delivered' = delivered /\ lost' = lost
  BY DEF CallsInv, Arrive
<1>2. /\ Len(waiting') = Len(waiting) + 1 /\ waiting' \in Seq(Nat)
      /\ \A k \in 1 .. Len(waiting) : waiting'[k] = waiting[k]
      /\ waiting'[Len(waiting) + 1] = new
  BY <1>1
<1>3. \A b \in Bytes(waiting) : b \in 1 .. arrived
  BY DEF PlacesInv, Complete
<1>4. ASSUME NEW k \in 1 .. Len(waiting) PROVE waiting[k] \in Nat /\ waiting[k] < new
  <2>1. waiting[k] \in Bytes(waiting)
    BY <1>1, ByteAt
  <2> QED BY <1>1, <1>3, <2>1
<1> HIDE DEF new
<1>5. InOrder'
  <2> SUFFICES ASSUME NEW j \in DOMAIN waiting', NEW k \in DOMAIN waiting', j < k
               PROVE  waiting'[j] < waiting'[k]
    BY DEF InOrder
  <2>1. j \in 1 .. Len(waiting) /\ k \in 1 .. Len(waiting) + 1
    BY <1>1, <1>2
  <2>2. CASE k = Len(waiting) + 1
    BY <1>2, <1>4, <2>1, <2>2
  <2>3. CASE k # Len(waiting) + 1
    <3>1. k \in 1 .. Len(waiting)
      BY <1>1, <2>1, <2>3
    <3>2. waiting[j] < waiting[k]
      BY <1>1, <2>1, <3>1 DEF PlacesInv, InOrder
    <3> QED BY <1>2, <2>1, <3>1, <3>2
  <2> QED BY <2>2, <2>3
<1>6. Bytes(waiting') = Bytes(waiting) \cup {new}
  <2>1. waiting' = waiting \o <<new>> /\ <<new>> \in Seq(Nat)
    BY <1>1
  <2>2. Bytes(<<new>>) = {new}
    BY DEF Bytes
  <2>3. Bytes(waiting \o <<new>>) = Bytes(waiting) \cup Bytes(<<new>>)
    BY <1>1, <2>1, BytesOfJoin
  <2> QED BY <2>1, <2>2, <2>3
<1>7. new \notin 1 .. arrived /\ 1 .. new = (1 .. arrived) \cup {new}
  BY <1>1 DEF new
<1>8. /\ new \notin delivered /\ new \notin lost
      /\ \A t \in Threads : new \notin Bytes(data[t])
  BY <1>7 DEF PlacesInv, Complete
<1>9. Apart'
  <2>1. Apart
    BY DEF PlacesInv
  <2>2. ASSUME NEW u \in Threads
        PROVE  Bytes(data[u]) \cap (Bytes(waiting') \cup delivered \cup lost) = {}
    <3>1. Bytes(data[u]) \cap (Bytes(waiting) \cup delivered \cup lost) = {}
      BY <2>1 DEF Apart
    <3> QED BY <1>6, <1>8, <3>1
  <2>3. Bytes(waiting') \cap (delivered \cup lost) = {} /\ delivered \cap lost = {}
    BY <1>6, <1>8, <2>1 DEF Apart
  <2>4. \A u, v \in Threads : u # v => Bytes(data[u]) \cap Bytes(data[v]) = {}
    BY <2>1 DEF Apart
  <2> QED BY <1>1, <2>2, <2>3, <2>4 DEF Apart
<1>10. Complete'
  <2>1. ASSUME NEW b
        PROVE  b \in 1 .. arrived' <=>
                 b \in Bytes(waiting') \cup delivered' \cup lost'
                   \/ \E t \in Threads : b \in Bytes(data'[t])
    BY <1>1, <1>6, <1>7 DEF PlacesInv, Complete
  <2> QED BY <2>1 DEF Complete
<1> QED BY <1>5, <1>9, <1>10 DEF PlacesInv

LEMMA StepKeepsPlaces ==
  ASSUME CallsInv, PlacesInv, [TransferNext]_transferVars
  PROVE  PlacesInv'
<1>1. ASSUME UNCHANGED <<data, waiting, arrived, delivered, lost>> PROVE PlacesInv'
  BY <1>1 DEF PlacesInv, InOrder, Apart, Complete
<1>2. ASSUME NEW t \in Threads, NEW maxSize \in Sizes,
             readData(t, maxSize) \/ writeData(t, maxSize)
      PROVE  PlacesInv'
  BY <1>1, <1>2 DEF readData, writeData, inputVars
<1>3. ASSUME NEW t \in Threads,
             WriteSome(t) \/ WriteReturns(t) \/ WriteStops(t) \/ WriteFails(t)
      PROVE  PlacesInv'
  BY <1>1, <1>3 DEF WriteSome, WriteReturns, WriteStops, WriteFails, WriteEnds, inputVars
<1>4. CASE Drain \/ UNCHANGED transferVars
  BY <1>1, <1>4 DEF Drain, transferVars, inputVars
<1> QED BY <1>2, <1>3, <1>4, ReadSomeKeepsPlaces, ReadEndsKeepsPlaces, ArriveKeepsPlaces
     DEF TransferNext, ReadStep

-----------------------------------------------------------------------------
(***************************************************************************)
(* The order.  A read() appends the first that wait to a buffer whose      *)
(* bytes, like those delivered before, all came before them.               *)
(***************************************************************************)
OrderInv == TakenFirst /\ NewestArrived /\ ReadInOrder

LEMMA ReadSomeKeepsOrder ==
  ASSUME CallsInv, PlacesInv, OrderInv, NEW t \in Threads, ReadSome(t)
  PROVE  OrderInv'
<1>1. PICK n \in 1 .. Len(waiting) :
        /\ data' = [data EXCEPT ![t] = data[t] \o SubSeq(waiting, 1, n)]
        /\ waiting' = SubSeq(waiting, n + 1, Len(waiting))
  BY ReadSomeEffect
<1> DEFINE got == SubSeq(waiting, 1, n)
<1>2. waiting \in Seq(Nat) /\ data \in [Threads -> Seq(Nat)] /\ newest \in [Threads -> Nat]
  BY DEF CallsInv
<1>3. newest' = newest /\ arrived' = arrived
  BY DEF ReadSome
<1>4. /\ got \in Seq(Nat) /\ Len(got) = n
      /\ \A k \in 1 .. n : got[k] = waiting[k]
  BY <1>2
<1>5. /\ Len(waiting') = Len(waiting) - n
      /\ \A k \in 1 .. Len(waiting) - n : waiting'[k] = waiting[n + k]
  BY <1>1, <1>2
<1>6. \A j, k \in 1 .. Len(waiting) : j < k => waiting[j] < waiting[k]
  BY <1>2 DEF PlacesInv, InOrder
<1>7. \A k \in 1 .. Len(waiting) :
        /\ waiting[k] \in Nat
        /\ \A u \in Threads : newest[u] < waiting[k]
        /\ \A u \in Threads : \A j \in DOMAIN data[u] : data[u][j] < waiting[k]
  BY <1>2, ByteAt DEF OrderInv, TakenFirst
<1> HIDE DEF got
<1>8. /\ data'[t] = data[t] \o got
      /\ \A u \in Threads \ {t} : data'[u] = data[u]
  BY <1>1, <1>2 DEF got
<1>9. /\ data'[t] \in Seq(Nat) /\ Len(data'[t]) = Len(data[t]) + n
      /\ \A k \in 1 .. Len(data[t]) + n :
           data'[t][k] = IF k <= Len(data[t]) THEN data[t][k] ELSE got[k - Len(data[t])]
  BY <1>2, <1>4, <1>8, ConcatProperties
<1>10. ASSUME NEW k \in 1 .. Len(data[t]) + n
       PROVE  \/ k \in DOMAIN data[t] /\ data'[t][k] = data[t][k]
              \/ \E i \in 1 .. n : k = Len(data[t]) + i /\ data'[t][k] = waiting[i]
  <2>1. CASE k <= Len(data[t])
    <3>1. k \in DOMAIN data[t]
      BY <1>2, <2>1
    <3> QED BY <1>9, <2>1, <3>1
  <2>2. CASE ~(k <= Len(data[t]))
    <3>1. k - Len(data[t]) \in 1 .. n /\ k = Len(data[t]) + (k - Len(data[t]))
      BY <1>2, <2>2
    <3>2. data'[t][k] = waiting[k - Len(data[t])]
      BY <1>4, <1>9, <2>2, <3>1
    <3> QED BY <3>1, <3>2
  <2> QED BY <2>1, <2>2
<1>11. TakenFirst'
  <2> SUFFICES ASSUME NEW u \in Threads, NEW i \in 1 .. Len(waiting) - n
               PROVE  /\ newest[u] < waiting'[i]
                      /\ \A k \in DOMAIN data'[u] : data'[u][k] < waiting'[i]
    <3>1. \A w \in Bytes(waiting') : \E i \in 1 .. Len(waiting) - n : w = waiting'[i]
      BY <1>5 DEF Bytes
    <3> QED BY <1>3, <3>1 DEF TakenFirst
  <2>1. n + i \in 1 .. Len(waiting) /\ waiting'[i] = waiting[n + i]
    BY <1>2, <1>5
  <2>2. newest[u] < waiting'[i]
    BY <1>7, <2>1
  <2>3. \A j \in 1 .. n : waiting[j] < waiting'[i]
    <3>1. \A j \in 1 .. n : j \in 1 .. Len(waiting) /\ j < n + i
      BY <1>2
    <3> QED BY <1>6, <2>1, <3>1
  <2>4. \A j \in DOMAIN data[u] : data[u][j] < waiting'[i]
    BY <1>7, <2>1
  <2>5. ASSUME NEW k \in DOMAIN data'[u] PROVE data'[u][k] < waiting'[i]
    <3>1. CASE u = t
      <4>1. k \in 1 .. Len(data[t]) + n
        BY <1>9, <3>1
      <4> QED BY <1>10, <2>3, <2>4, <3>1, <4>1
    <3>2. CASE u # t
      BY <1>8, <2>4, <3>2
    <3> QED BY <3>1, <3>2
  <2> QED BY <2>2, <2>5
<1>12. ReadInOrder'
  <2>1. ReadInOrder
    BY DEF OrderInv
  <2>2. ASSUME NEW k \in 1 .. Len(data[t]) + n PROVE newest[t] < data'[t][k]
    <3>1. \A i \in 1 .. n : i \in 1 .. Len(waiting)
      BY <1>2
    <3>2. \A i \in 1 .. n : newest[t] < waiting[i]
      BY <1>7, <3>1
    <3>3. \A i \in DOMAIN data[t] : newest[t] < data[t][i]
      BY <2>1 DEF ReadInOrder
    <3> QED BY <1>10, <3>2, <3>3
  <2>3. ASSUME NEW j \in 1 .. Len(data[t]) + n, NEW k \in 1 .. Len(data[t]) + n, j < k
        PROVE  data'[t][j] < data'[t][k]
    <3>1. CASE k \in DOMAIN data[t] /\ data'[t][k] = data[t][k]
      <4>1. j \in DOMAIN data[t] /\ data'[t][j] = data[t][j]
        <5>1. j <= Len(data[t]) /\ j \in DOMAIN data[t]
          BY <1>2, <2>3, <3>1
        <5> QED BY <1>9, <5>1
      <4> QED BY <2>1, <2>3, <3>1, <4>1 DEF ReadInOrder
    <3>2. ASSUME NEW i \in 1 .. n, k = Len(data[t]) + i, data'[t][k] = waiting[i]
          PROVE  data'[t][j] < data'[t][k]
      <4>1. i \in 1 .. Len(waiting)
        BY <1>2
      <4>2. CASE j \in DOMAIN data[t] /\ data'[t][j] = data[t][j]
        BY <1>7, <3>2, <4>1, <4>2
      <4>3. ASSUME NEW h \in 1 .. n, j = Len(data[t]) + h, data'[t][j] = waiting[h]
            PROVE  data'[t][j] < data'[t][k]
        <5>1. h < i /\ h \in 1 .. Len(waiting)
          BY <1>2, <2>3, <3>2, <4>3
        <5> QED BY <1>6, <3>2, <4>1, <4>3, <5>1
      <4> QED BY <1>10, <4>2, <4>3
    <3> QED BY <1>10, <3>1, <3>2
  <2>4. DOMAIN data'[t] = 1 .. Len(data[t]) + n
    BY <1>9
  <2>5. \A u \in Threads \ {t} :
          /\ \A k \in DOMAIN data'[u] : newest[u] < data'[u][k]
          /\ \A j, k \in DOMAIN data'[u] : j < k => data'[u][j] < data'[u][k]
    BY <1>8, <2>1 DEF ReadInOrder
  <2> QED BY <1>3, <2>2, <2>3, <2>4, <2>5 DEF ReadInOrder
<1> QED BY <1>3, <1>11, <1>12 DEF OrderInv, NewestArrived

\* A call that ends empties its buffer; what it delivers is newer than what its
\* thread was handed before.
LEMMA ReadEndsKeepsOrder ==
  ASSUME CallsInv, PlacesInv, OrderInv, NEW t \in Threads, ReadReturns(t) \/ ReadFails(t)
  PROVE  OrderInv'
<1>1. /\ waiting' = waiting /\ arrived' = arrived /\ data' = [data EXCEPT ![t] = <<>>]
  BY DEF ReadReturns, ReadFails
<1>2. \/ newest' = newest
      \/ \E k \in DOMAIN data[t] : newest' = [newest EXCEPT ![t] = data[t][k]]
  <2>1. CASE ReadFails(t)
    BY <2>1 DEF ReadFails
  <2>2. CASE ReadReturns(t)
    <3>1. newest' = [newest EXCEPT ![t] = IF cur[t] > 0 THEN data[t][cur[t]] ELSE newest[t]]
      BY <2>2 DEF ReadReturns
    <3>2. cur[t] = Len(data[t]) /\ data[t] \in Seq(Nat) /\ newest \in [Threads -> Nat]
      BY <2>2 DEF ReadReturns, MayReturn, CallsInv
    <3>3. CASE cur[t] > 0
      <4>1. cur[t] \in DOMAIN data[t]
        BY <3>2, <3>3
      <4> QED BY <3>1, <3>3, <4>1
    <3>4. CASE ~(cur[t] > 0)
      BY <3>1, <3>2, <3>4
    <3> QED BY <3>3, <3>4
  <2> QED BY <2>1, <2>2
<1>3. /\ data \in [Threads -> Seq(Nat)] /\ newest \in [Threads -> Nat]
      /\ waiting \in Seq(Nat) /\ arrived \in Nat
  BY DEF CallsInv
<1>4. \A u \in Threads :
        \/ newest'[u] = newest[u]
        \/ \E k \in DOMAIN data[u] : newest'[u] = data[u][k]
  BY <1>2, <1>3
<1>5. \A u \in Threads : data'[u] = <<>> \/ (data'[u] = data[u] /\ newest'[u] = newest[u])
  BY <1>1, <1>2, <1>3
<1>6. NewestArrived'
  <2>1. \A u \in Threads : \A k \in DOMAIN data[u] : data[u][k] \in 1 .. arrived
    BY <1>3, ByteAt DEF PlacesInv, Complete
  <2>2. ASSUME NEW u \in Threads PROVE newest'[u] <= arrived
    <3>1. CASE newest'[u] = newest[u]
      BY <3>1 DEF OrderInv, NewestArrived
    <3>2. ASSUME NEW k \in DOMAIN data[u], newest'[u] = data[u][k]
          PROVE  newest'[u] <= arrived
      <4>1. data[u][k] \in 1 .. arrived
        BY <2>1
      <4> QED BY <3>2, <4>1
    <3> QED BY <1>4, <3>1, <3>2
  <2> QED BY <1>1, <2>2 DEF NewestArrived
<1>7. TakenFirst'
  BY <1>1, <1>4, <1>5 DEF OrderInv, TakenFirst
<1>8. ReadInOrder'
  BY <1>5 DEF OrderInv, ReadInOrder
<1> QED BY <1>6, <1>7, <1>8 DEF OrderInv

\* The byte that arrives is newer than all others.
LEMMA ArriveKeepsOrder ==
  ASSUME CallsInv, PlacesInv, OrderInv, Arrive
  PROVE  OrderInv'
<1>1. /\ waiting' = Append(waiting, arrived + 1) /\ arrived' = arrived + 1
      /\ data' = data /\ newest' = newest
  BY DEF Arrive
<1>2. /\ waiting \in Seq(Nat) /\ arrived \in Nat /\ newest \in [Threads -> Nat]
      /\ data \in [Threads -> Seq(Nat)]
  BY DEF CallsInv
<1>3. \A w \in Bytes(waiting') : w \in Bytes(waiting) \/ w = arrived + 1
  <2>1. waiting' = waiting \o <<arrived + 1>> /\ <<arrived + 1>> \in Seq(Nat)
    BY <1>1, <1>2
  <2>2. Bytes(<<arrived + 1>>) = {arrived + 1}
    BY DEF Bytes
  <2>3. Bytes(waiting \o <<arrived + 1>>) = Bytes(waiting) \cup Bytes(<<arrived + 1>>)
    BY <1>2, <2>1, BytesOfJoin
  <2>4. Bytes(waiting') = Bytes(waiting) \cup {arrived + 1}
    BY <2>1, <2>2, <2>3
  <2> QED BY <2>4
<1>4. \A u \in Threads : newest[u] < arrived + 1
  BY <1>2 DEF OrderInv, NewestArrived
<1>5. ASSUME NEW u \in Threads, NEW k \in DOMAIN data[u]
      PROVE  data[u][k] < arrived + 1
  <2>1. data[u][k] \in 1 .. arrived
    BY <1>2, ByteAt DEF PlacesInv, Complete
  <2> QED BY <1>2, <2>1
<1>6. TakenFirst'
  BY <1>1, <1>3, <1>4, <1>5 DEF OrderInv, TakenFirst
<1>7. ReadInOrder'
  BY <1>1 DEF OrderInv, ReadInOrder
<1>8. NewestArrived'
  <2>1. ASSUME NEW u \in Threads PROVE newest[u] <= arrived + 1
    BY <1>2, <1>4
  <2> QED BY <1>1, <2>1 DEF NewestArrived
<1> QED BY <1>6, <1>7, <1>8 DEF OrderInv

LEMMA StepKeepsOrder ==
  ASSUME CallsInv, PlacesInv, OrderInv, [TransferNext]_transferVars
  PROVE  OrderInv'
<1>1. ASSUME UNCHANGED <<data, waiting, arrived, newest>> PROVE OrderInv'
  BY <1>1 DEF OrderInv, TakenFirst, NewestArrived, ReadInOrder
<1>2. ASSUME NEW t \in Threads, NEW maxSize \in Sizes,
             readData(t, maxSize) \/ writeData(t, maxSize)
      PROVE  OrderInv'
  BY <1>1, <1>2 DEF readData, writeData, inputVars
<1>3. ASSUME NEW t \in Threads,
             WriteSome(t) \/ WriteReturns(t) \/ WriteStops(t) \/ WriteFails(t)
      PROVE  OrderInv'
  BY <1>1, <1>3 DEF WriteSome, WriteReturns, WriteStops, WriteFails, WriteEnds, inputVars
<1>4. CASE Drain \/ UNCHANGED transferVars
  BY <1>1, <1>4 DEF Drain, transferVars, inputVars
<1> QED BY <1>2, <1>3, <1>4, ReadSomeKeepsOrder, ReadEndsKeepsOrder, ArriveKeepsOrder
     DEF TransferNext, ReadStep

THEOREM TransferInvariant == TransferSpec => []TransferInv
<1>1. TransferInv /\ [TransferNext]_transferVars => TransferInv'
  BY StepKeepsCalls, StepKeepsWritten, StepKeepsPlaces, StepKeepsOrder
     DEF TransferInv, PlacesInv, OrderInv
<1> QED BY <1>1, InitGivesInv, PTL DEF TransferSpec

\* What a call has written is the beginning of its data, in order, and as long as
\* the count it returns.
THEOREM WrittenInOrderAlways == TransferSpec => []WrittenInOrder
<1>1. TransferInv => WrittenInOrder
  BY DEF TransferInv
<1> QED BY <1>1, TransferInvariant, PTL

\* Every byte that arrived is in exactly one place: no read doubles one,
\* overwrites one, or drops one without returning -1.
THEOREM EachByteOnceAlways == TransferSpec => []EachByteOnce
<1>1. TransferInv => EachByteOnce
  <2> SUFFICES ASSUME TransferInv, NEW b \in 1 .. arrived PROVE Holders(b) = 1
    BY DEF EachByteOnce, Upto
  <2> DEFINE readers == {t \in Threads : b \in Bytes(data[t])}
  <2>1. \/ b \in Bytes(waiting) \cup delivered \cup lost
        \/ \E t \in Threads : b \in Bytes(data[t])
    BY DEF TransferInv, Complete
  <2>2. CASE b \in Bytes(waiting) \cup delivered \cup lost
    <3>1. readers = {}
      BY <2>2 DEF TransferInv, Apart
    <3>2. Cardinality(readers) = 0
      BY <3>1, FS_EmptySet
    <3>3. \/ b \in Bytes(waiting) /\ b \notin delivered /\ b \notin lost
          \/ b \notin Bytes(waiting) /\ b \in delivered /\ b \notin lost
          \/ b \notin Bytes(waiting) /\ b \notin delivered /\ b \in lost
      BY <2>2 DEF TransferInv, Apart
    <3> QED BY <3>2, <3>3 DEF Holders
  <2>3. ASSUME NEW t \in Threads, b \in Bytes(data[t]) PROVE Holders(b) = 1
    <3>1. readers = {t}
      BY <2>3 DEF TransferInv, Apart
    <3>2. Cardinality(readers) = 1
      BY <3>1, FS_Singleton
    <3>3. b \notin Bytes(waiting) /\ b \notin delivered /\ b \notin lost
      BY <2>3 DEF TransferInv, Apart
    <3> QED BY <3>2, <3>3 DEF Holders
  <2> QED BY <2>1, <2>2, <2>3
<1> QED BY <1>1, TransferInvariant, PTL

\* Each thread is handed its bytes in the order of their arrival.
THEOREM ReadInOrderAlways == TransferSpec => []ReadInOrder
<1>1. TransferInv => ReadInOrder
  BY DEF TransferInv
<1> QED BY <1>1, TransferInvariant, PTL
=============================================================================
