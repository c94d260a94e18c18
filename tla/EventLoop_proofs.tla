-------------------------- MODULE EventLoop_proofs --------------------------
(***************************************************************************)
(* The invariants of FileEvents hold for every size of the table, every    *)
(* number of descriptors and every set of masks, handlers and client data. *)
(* A run of the loop is a run of the descriptor table and a run of the     *)
(* timers, so what is proved of either holds while evStart runs.  The      *)
(* reports of a batch never reach the handlers of another file, and the    *)
(* sleep ends when the nearest timer is due.                               *)
(***************************************************************************)
EXTENDS EventLoop, TimeEvents_proofs, WellFoundedInduction, SequenceTheorems,
        FiniteSetTheorems

-----------------------------------------------------------------------------
\* The descriptors of the table are descriptors.
LEMMA SlotsAreFds == Slot \subseteq Fds
  BY FileAssumption DEF Slot, Fds

\* Every variable keeps its type under every call and every kernel step.
THEOREM FileTypeCorrect == FileSpec => []FileTypeOK
<1>1. FileInit => FileTypeOK
  BY FileAssumption DEF FileInit, FileTypeOK, FileEvent, Slot, Fds
<1>2. FileTypeOK /\ [FileNext]_fileVars => FileTypeOK'
  <2> SUFFICES ASSUME FileTypeOK, [FileNext]_fileVars PROVE FileTypeOK'
    OBVIOUS
  <2> USE FileAssumption, SlotsAreFds
  <2>1. ASSUME NEW fd \in Fds, NEW mask \in Masks, NEW proc \in Procs,
               NEW data \in Datas, evCreateFileEvent(fd, mask, proc, data)
        PROVE  FileTypeOK'
    <3>1. fd \in Slot /\ mask \subseteq Bits
      BY <2>1 DEF evCreateFileEvent, Fds, Slot
    <3>2. events[fd] \in FileEvent
      BY <3>1 DEF FileTypeOK
    <3> DEFINE merged == mask \cup events[fd].mask
               new == [mask |-> merged,
                       fileProc |-> [b \in Bits |-> IF b \in merged THEN proc
                                                    ELSE events[fd].fileProc[b]],
                       clientData |-> data]
    <3>3. new \in FileEvent
      BY <3>1, <3>2 DEF FileEvent
    <3>4. events' = [events EXCEPT ![fd] = new]
      BY <2>1 DEF evCreateFileEvent, SlotsFor
    <3>5. events' \in [Slot -> FileEvent]
      BY <3>1, <3>3, <3>4 DEF FileTypeOK
    <3>6. maxfd' \in -1 .. EVENT_MAX - 1
      BY <2>1, <3>1 DEF evCreateFileEvent, RaiseMaxfd, FileTypeOK, Slot
    <3>7. interest' \in [Fds -> SUBSET Bits]
      <4>1. merged \in SUBSET Bits
        BY <3>1, <3>2 DEF FileEvent
      <4>2. interest' = [interest EXCEPT ![fd] = merged]
        BY <2>1 DEF evCreateFileEvent, EpollAdd, EpollMod
      <4> QED BY <4>1, <4>2 DEF FileTypeOK
    <3>8. asked' \in [Slot -> [Bits -> (Procs \cup {Unset}) \X (Datas \cup {Unset})]]
      BY <2>1, <3>1 DEF evCreateFileEvent, FileTypeOK
    <3> QED BY <2>1, <3>5, <3>6, <3>7, <3>8 DEF evCreateFileEvent, FileTypeOK
  <2>2. ASSUME NEW fd \in Fds, NEW delmask \in Masks,
               evDeleteFileEvent(fd, delmask)
        PROVE  FileTypeOK'
    <3>1. fd \in Slot
      BY <2>2 DEF evDeleteFileEvent, Fds, Slot
    <3>2. events[fd] \in FileEvent
      BY <3>1 DEF FileTypeOK
    <3> DEFINE left == events[fd].mask \ delmask
    <3>3. left \subseteq Bits
      BY <3>2 DEF FileEvent
    <3>4. events' = [events EXCEPT ![fd] = [@ EXCEPT !.mask = left]]
      BY <2>2 DEF evDeleteFileEvent
    <3>5. [events[fd] EXCEPT !.mask = left] \in FileEvent
      BY <3>2, <3>3 DEF FileEvent
    <3>6. events' \in [Slot -> FileEvent]
      BY <3>1, <3>4, <3>5 DEF FileTypeOK
    <3>7. maxfd' \in -1 .. EVENT_MAX - 1
      BY <2>2 DEF evDeleteFileEvent, FileTypeOK
    <3>8. interest' \in [Fds -> SUBSET Bits]
      BY <2>2, <3>3 DEF evDeleteFileEvent, EpollDelete, FileTypeOK
    <3> QED BY <2>2, <3>6, <3>7, <3>8 DEF evDeleteFileEvent, FileTypeOK
  <2>3. ASSUME NEW fd \in Fds, OpenDescriptor(fd) PROVE FileTypeOK'
    BY <2>3 DEF OpenDescriptor, FileTypeOK
  <2>4. ASSUME NEW fd \in Fds, CloseDescriptor(fd) PROVE FileTypeOK'
    BY <2>4 DEF CloseDescriptor, FileTypeOK
  <2>5. CASE UNCHANGED fileVars
    BY <2>5 DEF fileVars, FileTypeOK
  <2> QED BY <2>1, <2>2, <2>3, <2>4, <2>5 DEF FileNext
<1> QED BY <1>1, <1>2, PTL DEF FileSpec

-----------------------------------------------------------------------------
\* maxfd bounds every registered descriptor, although the loop of
\* evDeleteFileEvent stops one entry too high: it stops at m only when every
\* entry from m up to the old maxfd is empty.
THEOREM MaxfdCoversAlways == FileSpec => []MaxfdCovers
<1>1. FileInit => MaxfdCovers
  BY DEF FileInit, MaxfdCovers
<1>2. FileTypeOK /\ MaxfdCovers /\ [FileNext]_fileVars => MaxfdCovers'
  <2> SUFFICES ASSUME FileTypeOK, MaxfdCovers, [FileNext]_fileVars,
                      NEW k \in Slot, events'[k].mask # {}
               PROVE  k <= maxfd'
    BY DEF MaxfdCovers
  <2> USE FileAssumption
  <2>1. maxfd \in Int /\ k \in Int
    BY DEF FileTypeOK, Slot
  <2>2. ASSUME NEW fd \in Fds, NEW mask \in Masks, NEW proc \in Procs,
               NEW data \in Datas, evCreateFileEvent(fd, mask, proc, data)
        PROVE  k <= maxfd'
    <3>1. fd \in Slot
      BY <2>2 DEF evCreateFileEvent, Fds, Slot
    <3>2. maxfd' = IF fd > maxfd THEN fd ELSE maxfd
      BY <2>2 DEF evCreateFileEvent, RaiseMaxfd
    <3>3. k # fd => events'[k] = events[k]
      BY <2>2, <3>1 DEF evCreateFileEvent, FileTypeOK
    <3> QED BY <2>1, <3>1, <3>2, <3>3 DEF MaxfdCovers, Slot
  <2>3. ASSUME NEW fd \in Fds, NEW delmask \in Masks,
               evDeleteFileEvent(fd, delmask)
        PROVE  k <= maxfd'
    <3> DEFINE left  == events[fd].mask \ delmask
               table == [events EXCEPT ![fd].mask = left]
    <3>1. fd \in Slot
      BY <2>3 DEF evDeleteFileEvent, Fds, Slot
    <3>2. events[k].mask # {} \/ k = fd
      BY <2>3, <3>1 DEF evDeleteFileEvent, FileTypeOK
    <3>3. k <= maxfd
      BY <2>3, <3>1, <3>2 DEF evDeleteFileEvent, MaxfdCovers
    <3>4. CASE fd = maxfd /\ left = {}
      <4>1. PICK m \in 0 .. maxfd : ScanStopsAt(table, m) /\ maxfd' = m
        BY <2>3, <3>4 DEF evDeleteFileEvent
      <4>2. \A n \in m .. maxfd - 1 : table[n].mask = {}
        BY <4>1 DEF ScanStopsAt
      <4>3. table[k].mask # {}
        BY <2>3 DEF evDeleteFileEvent
      <4>4. k # maxfd
        <5>1. events' = table
          BY <2>3 DEF evDeleteFileEvent
        <5>2. events'[fd].mask = left
          BY <5>1, <3>1 DEF FileTypeOK, FileEvent
        <5> QED BY <5>2, <3>4
      <4> QED BY <2>1, <3>3, <4>1, <4>2, <4>3, <4>4
    <3>5. CASE ~(fd = maxfd /\ left = {})
      BY <2>3, <3>3, <3>5 DEF evDeleteFileEvent
    <3> QED BY <3>4, <3>5
  <2>4. ASSUME NEW fd \in Fds, OpenDescriptor(fd) PROVE k <= maxfd'
    BY <2>4 DEF OpenDescriptor, MaxfdCovers
  <2>5. ASSUME NEW fd \in Fds, CloseDescriptor(fd) PROVE k <= maxfd'
    BY <2>5 DEF CloseDescriptor, MaxfdCovers
  <2>6. CASE UNCHANGED fileVars
    BY <2>6 DEF fileVars, MaxfdCovers
  <2> QED BY <2>2, <2>3, <2>4, <2>5, <2>6 DEF FileNext
<1> QED BY <1>1, <1>2, FileTypeCorrect, PTL DEF FileSpec

-----------------------------------------------------------------------------
\* At dispatch the handler and the clientData come from one registration.
THEOREM HandlersPairedAlways == FileSpec => []HandlerDataPaired
<1>1. FileInit => HandlerDataPaired
  BY DEF FileInit, HandlerDataPaired
<1>2. FileTypeOK /\ HandlerDataPaired /\ [FileNext]_fileVars => HandlerDataPaired'
  <2> SUFFICES ASSUME FileTypeOK, HandlerDataPaired, [FileNext]_fileVars,
                      NEW k \in Slot, NEW b \in events'[k].mask
               PROVE  \E c \in Bits : asked'[k][c] =
                        <<events'[k].fileProc[b], events'[k].clientData>>
    BY DEF HandlerDataPaired
  <2> USE FileAssumption
  <2> DEFINE Goal == \E c \in Bits : asked'[k][c] =
                       <<events'[k].fileProc[b], events'[k].clientData>>
  <2>1. ASSUME NEW fd \in Fds, NEW mask \in Masks, NEW proc \in Procs,
               NEW data \in Datas, evCreateFileEvent(fd, mask, proc, data)
        PROVE  Goal
    <3>1. fd \in Slot /\ mask \subseteq Bits
      BY <2>1 DEF evCreateFileEvent, Fds, Slot
    <3>2. PICK c \in Bits : c \in mask
      BY <3>1
    <3>3. CASE k = fd
      <4>1. events'[k].fileProc[b] = proc /\ events'[k].clientData = data
        BY <2>1, <3>1, <3>3 DEF evCreateFileEvent, SlotsFor, FileTypeOK, FileEvent
      <4>2. asked'[k][c] = <<proc, data>>
        BY <2>1, <3>1, <3>2, <3>3 DEF evCreateFileEvent, FileTypeOK
      <4> QED BY <4>1, <4>2
    <3>4. CASE k # fd
      <4>1. events'[k] = events[k] /\ asked'[k] = asked[k]
        BY <2>1, <3>1, <3>4 DEF evCreateFileEvent, FileTypeOK
      <4> QED BY <4>1 DEF HandlerDataPaired
    <3> QED BY <3>3, <3>4
  <2>2. ASSUME NEW fd \in Fds, NEW delmask \in Masks,
               evDeleteFileEvent(fd, delmask)
        PROVE  Goal
    <3>1. fd \in Slot
      BY <2>2 DEF evDeleteFileEvent, Fds, Slot
    <3>2. asked' = asked
      BY <2>2 DEF evDeleteFileEvent
    <3>3. events' = [events EXCEPT ![fd] =
                       [@ EXCEPT !.mask = events[fd].mask \ delmask]]
      BY <2>2 DEF evDeleteFileEvent
    <3>4. /\ events'[k].fileProc = events[k].fileProc
          /\ events'[k].clientData = events[k].clientData
          /\ events'[k].mask \subseteq events[k].mask
      BY <3>1, <3>3 DEF FileTypeOK, FileEvent
    <3> QED BY <3>2, <3>4 DEF HandlerDataPaired
  <2>3. ASSUME NEW fd \in Fds, OpenDescriptor(fd) PROVE Goal
    BY <2>3 DEF OpenDescriptor, HandlerDataPaired
  <2>4. ASSUME NEW fd \in Fds, CloseDescriptor(fd) PROVE Goal
    BY <2>4 DEF CloseDescriptor, HandlerDataPaired
  <2>5. CASE UNCHANGED fileVars
    BY <2>5 DEF fileVars, HandlerDataPaired
  <2> QED BY <2>1, <2>2, <2>3, <2>4, <2>5 DEF FileNext
<1> QED BY <1>1, <1>2, FileTypeCorrect, PTL DEF FileSpec

-----------------------------------------------------------------------------
\* The kernel watches a descriptor for what the table says or not at all.
THEOREM KernelWithinTableAlways == FileSpec => []KernelWithinTable
<1>1. FileInit => KernelWithinTable
  BY DEF FileInit, KernelWithinTable
<1>2. FileTypeOK /\ KernelWithinTable /\ [FileNext]_fileVars => KernelWithinTable'
  <2> SUFFICES ASSUME FileTypeOK, KernelWithinTable, [FileNext]_fileVars,
                      NEW k \in Fds, interest'[k] # {}
               PROVE  k \in Slot /\ k \in isOpen' /\ interest'[k] = events'[k].mask
    BY DEF KernelWithinTable
  <2> USE FileAssumption
  <2> DEFINE Goal == k \in Slot /\ k \in isOpen' /\ interest'[k] = events'[k].mask
  <2>1. ASSUME NEW fd \in Fds, NEW mask \in Masks, NEW proc \in Procs,
               NEW data \in Datas, evCreateFileEvent(fd, mask, proc, data)
        PROVE  Goal
    <3>1. fd \in Slot
      BY <2>1 DEF evCreateFileEvent, Fds, Slot
    <3>2. isOpen' = isOpen /\ fd \in isOpen
      BY <2>1 DEF evCreateFileEvent, EpollAdd, EpollMod, KernelWithinTable
    <3>3. interest' = [interest EXCEPT ![fd] = mask \cup events[fd].mask]
      BY <2>1 DEF evCreateFileEvent, EpollAdd, EpollMod
    <3>4. events'[fd].mask = mask \cup events[fd].mask
      BY <2>1, <3>1 DEF evCreateFileEvent, FileTypeOK
    <3>5. k # fd /\ k \in Slot => events'[k] = events[k]
      BY <2>1, <3>1 DEF evCreateFileEvent, FileTypeOK
    <3> QED BY <3>1, <3>2, <3>3, <3>4, <3>5 DEF KernelWithinTable, FileTypeOK
  <2>2. ASSUME NEW fd \in Fds, NEW delmask \in Masks,
               evDeleteFileEvent(fd, delmask)
        PROVE  Goal
    <3> DEFINE left == events[fd].mask \ delmask
    <3>1. fd \in Slot
      BY <2>2 DEF evDeleteFileEvent, Fds, Slot
    <3>2. /\ isOpen' = isOpen
          /\ interest' = [interest EXCEPT ![fd] = IF @ = {} THEN {} ELSE left]
          /\ events' = [events EXCEPT ![fd] = [@ EXCEPT !.mask = left]]
      BY <2>2 DEF evDeleteFileEvent, EpollDelete
    <3>3. events'[fd].mask = left
      BY <3>1, <3>2 DEF FileTypeOK, FileEvent
    <3>4. k # fd /\ k \in Slot => events'[k] = events[k]
      BY <3>1, <3>2 DEF FileTypeOK
    <3>5. interest[k] # {} /\ (k = fd => interest'[k] = left)
          /\ (k # fd => interest'[k] = interest[k])
      BY <3>2 DEF FileTypeOK
    <3> QED BY <3>2, <3>3, <3>4, <3>5 DEF KernelWithinTable
  <2>3. ASSUME NEW fd \in Fds, OpenDescriptor(fd) PROVE Goal
    BY <2>3 DEF OpenDescriptor, KernelWithinTable
  <2>4. ASSUME NEW fd \in Fds, CloseDescriptor(fd) PROVE Goal
    BY <2>4 DEF CloseDescriptor, KernelWithinTable, FileTypeOK
  <2>5. CASE UNCHANGED fileVars
    BY <2>5 DEF fileVars, KernelWithinTable
  <2> QED BY <2>1, <2>2, <2>3, <2>4, <2>5 DEF FileNext
<1> QED BY <1>1, <1>2, FileTypeCorrect, PTL DEF FileSpec

-----------------------------------------------------------------------------
\* A program that deletes a descriptor's events before it closes it never
\* lets the table and the epoll instance disagree.
THEOREM KernelMatchesTableAlways ==
  CloseWithoutDelete = FALSE => (FileSpec => []KernelMatchesTable)
<1> SUFFICES ASSUME CloseWithoutDelete = FALSE PROVE FileSpec => []KernelMatchesTable
  OBVIOUS
<1>1. FileInit => KernelMatchesTable
  BY SlotsAreFds DEF FileInit, KernelMatchesTable
<1>2. FileTypeOK /\ KernelMatchesTable /\ [FileNext]_fileVars => KernelMatchesTable'
  <2> SUFFICES ASSUME FileTypeOK, KernelMatchesTable, [FileNext]_fileVars,
                      NEW k \in Slot
               PROVE  interest'[k] = events'[k].mask
    BY DEF KernelMatchesTable
  <2> USE FileAssumption
  <2>1. k \in Fds /\ interest[k] = events[k].mask
    BY SlotsAreFds DEF KernelMatchesTable
  <2>2. ASSUME NEW fd \in Fds, NEW mask \in Masks, NEW proc \in Procs,
               NEW data \in Datas, evCreateFileEvent(fd, mask, proc, data)
        PROVE  interest'[k] = events'[k].mask
    <3>1. fd \in Slot
      BY <2>2 DEF evCreateFileEvent, Fds, Slot
    <3>2. interest' = [interest EXCEPT ![fd] = mask \cup events[fd].mask]
      BY <2>2 DEF evCreateFileEvent, EpollAdd, EpollMod
    <3>3. events'[fd].mask = mask \cup events[fd].mask
      BY <2>2, <3>1 DEF evCreateFileEvent, FileTypeOK
    <3>4. k # fd => events'[k] = events[k]
      BY <2>2, <3>1 DEF evCreateFileEvent, FileTypeOK
    <3> QED BY <2>1, <3>2, <3>3, <3>4 DEF FileTypeOK
  <2>3. ASSUME NEW fd \in Fds, NEW delmask \in Masks,
               evDeleteFileEvent(fd, delmask)
        PROVE  interest'[k] = events'[k].mask
    <3> DEFINE left == events[fd].mask \ delmask
    <3>1. fd \in Slot /\ interest[fd] # {}
      BY <2>3 DEF evDeleteFileEvent, Fds, Slot, KernelMatchesTable
    <3>2. /\ interest' = [interest EXCEPT ![fd] = IF @ = {} THEN {} ELSE left]
          /\ events' = [events EXCEPT ![fd] = [@ EXCEPT !.mask = left]]
      BY <2>3 DEF evDeleteFileEvent, EpollDelete
    <3>3. events'[fd].mask = left
      BY <3>1, <3>2 DEF FileTypeOK, FileEvent
    <3>4. k # fd => events'[k] = events[k]
      BY <3>1, <3>2 DEF FileTypeOK
    <3> QED BY <2>1, <3>1, <3>2, <3>3, <3>4 DEF FileTypeOK
  <2>4. ASSUME NEW fd \in Fds, OpenDescriptor(fd) PROVE interest'[k] = events'[k].mask
    BY <2>1, <2>4 DEF OpenDescriptor
  <2>5. ASSUME NEW fd \in Fds, CloseDescriptor(fd) PROVE interest'[k] = events'[k].mask
    <3>1. k = fd => events[k].mask = {}
      BY <2>5 DEF CloseDescriptor, Slot
    <3> QED BY <2>1, <2>5, <3>1 DEF CloseDescriptor, FileTypeOK
  <2>6. CASE UNCHANGED fileVars
    BY <2>1, <2>6 DEF fileVars
  <2> QED BY <2>2, <2>3, <2>4, <2>5, <2>6 DEF FileNext
<1> QED BY <1>1, <1>2, FileTypeCorrect, PTL DEF FileSpec

-----------------------------------------------------------------------------
\* What a step of the loop does to the descriptor table is a call, a step of
\* the kernel, or nothing.
LEMMA StepOnFiles ==
  ASSUME [LoopNext]_loopVars
  PROVE  [FileNext]_fileVars
<1>1. CASE UserStep
  <2>1. CASE UserFileCall
    BY <2>1 DEF UserFileCall, FileNext
  <2>2. ASSUME NEW fd \in Fds, UserOpens(fd) PROVE FileNext
    BY <2>2 DEF UserOpens, FileNext
  <2>3. ASSUME NEW fd \in Fds, UserCloses(fd) PROVE FileNext
    BY <2>3 DEF UserCloses, FileNext
  <2>4. ASSUME NEW fd \in Fds, UserDrains(fd) PROVE UNCHANGED fileVars
    BY <2>4 DEF UserDrains
  <2>5. CASE UserTimeCall
    BY <2>5 DEF UserTimeCall
  <2>6. CASE evStop
    BY <2>6 DEF evStop
  <2> QED BY <1>1, <2>1, <2>2, <2>3, <2>4, <2>5, <2>6 DEF UserStep
<1>2. CASE LoopStep
  BY <1>2 DEF LoopStep, Turn, EnterPoll, WakeWithEvents, WakeTimeout, WakeInterrupted,
              CallHandler, SkipBit, HandlerReturns, StartTimes, DuringTimes, EndTimes
<1>3. CASE evStart \/ ClockTick
  BY <1>3 DEF evStart, ClockTick
<1>4. ASSUME NEW fd \in Fds, NEW b \in UNION Masks, BecomesReady(fd, b)
      PROVE  UNCHANGED fileVars
  BY <1>4 DEF BecomesReady
<1>5. CASE UNCHANGED loopVars
  BY <1>5 DEF loopVars
<1> QED BY <1>1, <1>2, <1>3, <1>4, <1>5 DEF LoopNext

\* What it does to the timers is a user's call, a step of the pass, a tick of
\* the clock, or nothing.
LEMMA StepOnTimers ==
  ASSUME [LoopNext]_loopVars
  PROVE  [TimeNext]_timeVars
<1>1. CASE UserStep
  <2>1. CASE UserTimeCall
    BY <2>1 DEF UserTimeCall, TimeNext
  <2>2. CASE UserFileCall
    BY <2>2 DEF UserFileCall
  <2>3. CASE evStop
    BY <2>3 DEF evStop
  <2>4. ASSUME NEW fd \in Fds, UserOpens(fd) \/ UserCloses(fd) \/ UserDrains(fd)
        PROVE  UNCHANGED timeVars
    BY <2>4 DEF UserOpens, UserCloses, UserDrains
  <2> QED BY <1>1, <2>1, <2>2, <2>3, <2>4 DEF UserStep
<1>2. CASE StartTimes \/ DuringTimes \/ EndTimes
  BY <1>2 DEF StartTimes, DuringTimes, EndTimes, TimeNext, Scan, CallbackReturns
<1>3. CASE EnterPoll \/ WakeWithEvents \/ WakeTimeout \/ WakeInterrupted
             \/ CallHandler \/ SkipBit \/ HandlerReturns
  BY <1>3 DEF EnterPoll, WakeWithEvents, WakeTimeout, WakeInterrupted,
              CallHandler, SkipBit, HandlerReturns
<1>4. CASE ClockTick
  BY <1>4 DEF ClockTick, TimeNext
<1>5. CASE evStart
  BY <1>5 DEF evStart
<1>6. ASSUME NEW fd \in Fds, NEW b \in UNION Masks, BecomesReady(fd, b)
      PROVE  UNCHANGED timeVars
  BY <1>6 DEF BecomesReady
<1>7. CASE UNCHANGED loopVars
  BY <1>7 DEF loopVars
<1> QED BY <1>1, <1>2, <1>3, <1>4, <1>5, <1>6, <1>7 DEF LoopNext, LoopStep, Turn

\* Every run of evStart is a run of the descriptor table.
THEOREM LoopRunsTable == LoopSpec => FileSpec
<1>1. LoopInit => FileInit
  BY DEF LoopInit
<1>2. [LoopNext]_loopVars => [FileNext]_fileVars
  BY StepOnFiles
<1> QED BY <1>1, <1>2, PTL DEF LoopSpec, FileSpec

\* Every run of evStart is a run of the timers.
THEOREM LoopRunsTimers == LoopSpec => TimeSpec
<1>1. LoopInit => TimeInit
  BY DEF LoopInit
<1>2. [LoopNext]_loopVars => [TimeNext]_timeVars
  BY StepOnTimers
<1> QED BY <1>1, <1>2, PTL DEF LoopSpec, TimeSpec

\* So maxfd bounds the registered descriptors while handlers and timers
\* register and delete them.
THEOREM LoopMaxfdCovers == LoopSpec => []MaxfdCovers
BY LoopRunsTable, MaxfdCoversAlways, PTL

\* And the interest list agrees with the table, if handlers and timers delete
\* the events of a descriptor before they close it.
THEOREM LoopKernelMatchesTable ==
  ASSUME CloseWithoutDelete = FALSE
  PROVE  LoopSpec => []KernelMatchesTable
<1>1. FileSpec => []KernelMatchesTable
  BY KernelMatchesTableAlways
<1> QED BY <1>1, LoopRunsTable, PTL

-----------------------------------------------------------------------------
(***************************************************************************)
(* What is left of the batch are reports about entries of the table.       *)
(***************************************************************************)
FiredReport == [fd : Slot, mask : SUBSET Bits, stale : BOOLEAN]

BatchInv ==
  /\ fired \in Seq(FiredReport)
  /\ pc = "handler" => fired # <<>>

\* What epoll_wait reports is about registered descriptors.
LEMMA FreshBatch ==
  ASSUME FileTypeOK, KernelWithinTable, WakeWithEvents
  PROVE  fired' \in Seq(FiredReport)
<1>1. PICK order \in SetToSeqs(Reported) :
        fired' = [k \in DOMAIN order |->
                    [fd |-> order[k], mask |-> Report(order[k]), stale |-> FALSE]]
  BY DEF WakeWithEvents
<1>2. IsFiniteSet(Reported)
  <2>1. IsFiniteSet(Fds)
    BY FileAssumption, FS_Interval DEF Fds
  <2>2. Reported \subseteq Fds
    BY DEF Reported
  <2> QED BY <2>1, <2>2, FS_Subset
<1>3. Cardinality(Reported) \in Nat
  BY <1>2, FS_CardinalityType
<1>4. order \in [1 .. Cardinality(Reported) -> Reported]
  BY <1>1 DEF SetToSeqs
<1>5. ASSUME NEW fd \in Reported PROVE fd \in Slot /\ Report(fd) \in SUBSET Bits
  <2>1. fd \in Fds /\ Report(fd) # {}
    BY DEF Reported
  <2>2. interest[fd] # {} /\ Report(fd) \subseteq interest[fd] \cup {ERRABLE}
    BY <2>1 DEF Report
  <2>3. fd \in Slot
    BY <2>1, <2>2 DEF KernelWithinTable
  <2> QED BY <2>1, <2>2, <2>3 DEF FileTypeOK, Bits
<1>6. ASSUME NEW k \in 1 .. Cardinality(Reported)
      PROVE  [fd |-> order[k], mask |-> Report(order[k]), stale |-> FALSE] \in FiredReport
  BY <1>1, <1>4, <1>5 DEF FiredReport
<1>7. fired' \in [1 .. Cardinality(Reported) -> FiredReport]
  BY <1>1, <1>4, <1>6
<1> QED BY <1>3, <1>7, SeqDef

\* Closing a number marks its reports.
LEMMA CloseKeepsBatch ==
  ASSUME BatchInv, NEW fd \in Fds, UserCloses(fd)
  PROVE  BatchInv'
<1>1. /\ fired' = [k \in DOMAIN fired |->
                     IF fired[k].fd = fd THEN [fired[k] EXCEPT !.stale = TRUE]
                                         ELSE fired[k]]
      /\ pc' = pc
  BY DEF UserCloses
<1>2. fired \in [1 .. Len(fired) -> FiredReport] /\ Len(fired) \in Nat
  BY DEF BatchInv
<1>3. fired' \in [1 .. Len(fired) -> FiredReport]
  BY <1>1, <1>2 DEF FiredReport
<1>4. fired' \in Seq(FiredReport)
  BY <1>2, <1>3, SeqDef
<1>5. pc' = "handler" => fired' # <<>>
  <2>1. pc' = "handler" => 1 \in DOMAIN fired
    BY <1>1, <1>2 DEF BatchInv
  <2> QED BY <1>1, <2>1
<1> QED BY <1>4, <1>5 DEF BatchInv

\* Every step keeps the reports as they should be.
LEMMA StepKeepsBatch ==
  ASSUME FileTypeOK, KernelWithinTable, BatchInv, [LoopNext]_loopVars
  PROVE  BatchInv'
<1>1. CASE WakeWithEvents
  <2>1. pc' = "dispatch"
    BY <1>1 DEF WakeWithEvents, LeavePoll
  <2> QED BY <1>1, <2>1, FreshBatch DEF BatchInv
<1>2. ASSUME NEW fd \in Fds, UserCloses(fd) PROVE BatchInv'
  BY <1>2, CloseKeepsBatch
<1>3. CASE SkipBit \/ HandlerReturns
  <2>1. fired # <<>> /\ pc' = "dispatch"
    BY <1>3 DEF SkipBit, HandlerReturns, BatchInv
  <2>2. fired' \in {fired, Tail(fired)}
    BY <1>3 DEF SkipBit, HandlerReturns, NextBit
  <2> QED BY <2>1, <2>2 DEF BatchInv
<1>4. CASE UserTimeCall \/ UserFileCall \/ evStop
             \/ \E fd \in Fds : UserOpens(fd) \/ UserDrains(fd)
  <2>1. fired' = fired /\ pc' = pc
    BY <1>4 DEF UserTimeCall, UserFileCall, evStop, UserOpens, UserDrains, turnVars
  <2> QED BY <2>1 DEF BatchInv
<1>5. CASE CallHandler
  BY <1>5 DEF CallHandler, BatchInv
<1>6. CASE EnterPoll \/ WakeTimeout \/ WakeInterrupted \/ StartTimes \/ DuringTimes
             \/ EndTimes \/ evStart \/ ClockTick
             \/ \E fd \in Fds, b \in UNION Masks : BecomesReady(fd, b)
  <2>1. fired' = fired /\ (pc' = "handler" => pc = "handler")
    BY <1>6 DEF EnterPoll, WakeTimeout, WakeInterrupted, LeavePoll, StartTimes,
                DuringTimes, EndTimes, AfterTurn, evStart, ClockTick, BecomesReady,
                turnVars
  <2> QED BY <2>1 DEF BatchInv
<1>7. CASE UNCHANGED loopVars
  BY <1>7 DEF loopVars, turnVars, BatchInv
<1> QED BY <1>1, <1>2, <1>3, <1>4, <1>5, <1>6, <1>7
     DEF LoopNext, LoopStep, Turn, UserStep

\* A handler is called only if the table, read again, wants the event, and what
\* the table wants is what the kernel watches; so it is called for an open file
\* and for a registration in force, numbers reopened inside the batch included.
THEOREM HandlerIsWatchedAlways ==
  ASSUME CloseWithoutDelete = FALSE
  PROVE  LoopSpec => HandlerIsWatched
<1>1. LoopInit => BatchInv
  <2>1. <<>> \in Seq(FiredReport)
    OBVIOUS
  <2> QED BY <2>1 DEF LoopInit, BatchInv
<1>2. FileTypeOK /\ KernelWithinTable /\ BatchInv /\ [LoopNext]_loopVars => BatchInv'
  BY StepKeepsBatch
<1>3. LoopSpec => [](FileTypeOK /\ KernelWithinTable)
  BY LoopRunsTable, FileTypeCorrect, KernelWithinTableAlways, PTL
<1>4. LoopSpec => []KernelMatchesTable
  BY LoopKernelMatchesTable
<1>5. LoopSpec => []BatchInv
  BY <1>1, <1>2, <1>3, PTL DEF LoopSpec
<1>6. BatchInv /\ KernelWithinTable /\ KernelMatchesTable /\ [LoopNext]_loopVars =>
        [Dispatches => Head(fired).fd \in isOpen /\ bit \in interest[Head(fired).fd]]_loopVars
  <2> SUFFICES ASSUME BatchInv, KernelWithinTable, KernelMatchesTable, LoopNext, Dispatches
               PROVE  Head(fired).fd \in isOpen /\ bit \in interest[Head(fired).fd]
    OBVIOUS
  <2>1. CallHandler
    BY DEF Dispatches, LoopNext, LoopStep, Turn, UserStep, UserTimeCall, UserFileCall,
           evStop, UserOpens, UserCloses, UserDrains, evStart, EnterPoll, WakeWithEvents,
           WakeTimeout, WakeInterrupted, LeavePoll, SkipBit, HandlerReturns, StartTimes,
           DuringTimes, EndTimes, ClockTick, BecomesReady, turnVars
  <2>2. Head(fired).fd \in Slot
    <3>1. fired \in Seq(FiredReport) /\ fired # <<>>
      BY <2>1 DEF CallHandler, BatchInv
    <3>2. Head(fired) \in FiredReport
      BY <3>1
    <3> QED BY <3>2 DEF FiredReport
  <2>3. bit \in events[Head(fired).fd].mask
    BY <2>1 DEF CallHandler, HandlerWanted
  <2>4. bit \in interest[Head(fired).fd]
    BY <2>2, <2>3 DEF KernelMatchesTable
  <2>5. Head(fired).fd \in isOpen
    BY <2>2, <2>4, SlotsAreFds DEF KernelWithinTable
  <2> QED BY <2>4, <2>5
<1> QED BY <1>3, <1>4, <1>5, <1>6, PTL DEF LoopSpec, HandlerIsWatched

-----------------------------------------------------------------------------
(***************************************************************************)
(* The sleep.                                                              *)
(***************************************************************************)
LEMMA TotalIsNat ==
  ASSUME NEW when \in Moment
  PROVE  Total(when) \in Nat
<1>1. /\ when.sec \in Nat /\ when.ms \in Nat /\ MsPerSec \in Nat
  BY TimeAssumption DEF Moment
<1>2. when.sec * MsPerSec \in Nat
  BY <1>1
<1> QED BY <1>1, <1>2 DEF Total

\* A number that fits is not changed by the conversion to int.
LEMMA FitsInt ==
  ASSUME NEW x \in Nat, x < IntHalf
  PROVE  ToInt(x) = x
<1>1. IntHalf \in Nat \ {0} /\ x + IntHalf \in 0 .. 2 * IntHalf - 1
  BY TimeAssumption
<1>2. (x + IntHalf) % (2 * IntHalf) = x + IntHalf
  BY <1>1
<1> QED BY <1>1, <1>2 DEF ToInt

\* The timeout, borrow and all, is exactly the time that is left.  For a timer
\* that is overdue the seconds are cut off at zero on their own, and a part of
\* a second remains.
THEOREM TimeoutIsExact ==
  ASSUME NEW n \in Nat, NEW when \in Moment,
         MsPerSec <= IntHalf, Total(when) - n < IntHalf
  PROVE  IF Total(when) >= n THEN PollTimeout(n, when) = Total(when) - n
                             ELSE PollTimeout(n, when) \in 0 .. MsPerSec - 1
<1> DEFINE cur    == evGetTime(n)
           borrow == IF when.ms < cur.ms THEN 1 ELSE 0
           sec    == when.sec - cur.sec - borrow
           ms     == when.ms - cur.ms + borrow * MsPerSec
<1>1. cur \in Moment /\ Total(cur) = n
  BY ClockIsMoment
<1>2. /\ MsPerSec \in Nat \ {0} /\ IntHalf \in Nat \ {0}
      /\ cur.sec \in Nat /\ cur.ms \in 0 .. MsPerSec - 1
      /\ when.sec \in Nat /\ when.ms \in 0 .. MsPerSec - 1
  BY <1>1, TimeAssumption DEF Moment
<1>3. PollTimeout(n, when) = ToInt((IF sec < 0 THEN 0 ELSE sec) * MsPerSec + ms)
  BY <1>2 DEF PollTimeout
<1> HIDE DEF cur
<1>4. sec \in Int /\ borrow \in {0, 1} /\ ms \in 0 .. MsPerSec - 1
  BY <1>2
<1>5. sec * MsPerSec + ms = Total(when) - n
  <2>1. n = cur.sec * MsPerSec + cur.ms /\ Total(when) = when.sec * MsPerSec + when.ms
    BY <1>1 DEF Total
  <2>2. (when.sec - cur.sec) * MsPerSec = when.sec * MsPerSec - cur.sec * MsPerSec
    BY <1>2
  <2>3. sec * MsPerSec = (when.sec - cur.sec) * MsPerSec - borrow * MsPerSec
    BY <1>2, <1>4
  <2>4. /\ when.sec * MsPerSec \in Int /\ cur.sec * MsPerSec \in Int
        /\ borrow * MsPerSec \in Int
    BY <1>2, <1>4
  <2> QED BY <1>2, <2>1, <2>2, <2>3, <2>4
<1> HIDE DEF sec, ms
<1>6. sec < 0 => sec * MsPerSec <= -MsPerSec
  <2>1. SUFFICES ASSUME sec < 0 PROVE sec * MsPerSec <= -MsPerSec
    OBVIOUS
  <2>2. (sec + 1) * MsPerSec = sec * MsPerSec + MsPerSec
    BY <1>2, <1>4, Distribute
  <2>3. (sec + 1) * MsPerSec <= 0
    BY <1>2, <1>4, <2>1
  <2> QED BY <1>2, <1>4, <2>2, <2>3
<1>7. sec >= 0 => sec * MsPerSec \in Nat
  BY <1>2, <1>4
<1>8. CASE sec < 0
  <2>1. PollTimeout(n, when) = ToInt(ms)
    BY <1>2, <1>3, <1>4, <1>8
  <2>2. ToInt(ms) = ms
    BY <1>2, <1>4, FitsInt
  <2>3. Total(when) - n < 0 /\ Total(when) \in Int
    BY <1>2, <1>4, <1>5, <1>6, <1>8 DEF Total
  <2> QED BY <1>4, <2>1, <2>2, <2>3
<1>9. CASE ~(sec < 0)
  <2>1. PollTimeout(n, when) = ToInt(Total(when) - n)
    BY <1>3, <1>5, <1>9
  <2>2. Total(when) - n \in Nat
    BY <1>4, <1>5, <1>7, <1>9
  <2>3. ToInt(Total(when) - n) = Total(when) - n
    BY <2>2, FitsInt
  <2>4. Total(when) >= n
    BY <1>2, <2>2 DEF Total
  <2> QED BY <2>1, <2>3, <2>4
<1> QED BY <1>8, <1>9

\* The search for the nearest timer finds a node of the list, and none is due
\* before it.
LEMMA NearestIsLeast ==
  ASSUME timeEventHead \in Seq(TimeEvent), timeEventHead # <<>>
  PROVE  \E p \in DOMAIN timeEventHead :
           /\ NearestWhen = timeEventHead[p].when
           /\ \A q \in DOMAIN timeEventHead :
                Total(NearestWhen) <= Total(timeEventHead[q].when)
<1> DEFINE D    == DOMAIN timeEventHead
           t(p) == Total(timeEventHead[p].when)
           Less == {x \in Nat \X Nat : x[1] < x[2]}
<1>1. ASSUME NEW p \in D
      PROVE  timeEventHead[p].when \in Moment /\ t(p) \in Nat
  <2>1. timeEventHead[p] \in TimeEvent
    OBVIOUS
  <2>2. timeEventHead[p].when \in Moment
    BY <2>1 DEF TimeEvent
  <2> QED BY <2>2, TotalIsNat
<1>2. 1 \in D
  OBVIOUS
<1>3. PICK m \in D : \A q \in D : t(m) <= t(q)
  <2>1. IsWellFoundedOn(Less, Nat)
    BY NatLessThanWellFounded DEF OpToRel
  <2>2. \A a, b \in Nat : <<b, a>> \notin Less => a <= b
    OBVIOUS
  <2> HIDE DEF Less
  <2> DEFINE T == {t(p) : p \in D}
  <2>3. T \in SUBSET Nat /\ t(1) \in T
    BY <1>1, <1>2
  <2>4. PICK a \in T : \A b \in T : <<b, a>> \notin Less
    BY <2>1, <2>3, WFMin
  <2>5. \A b \in T : a <= b
    BY <2>2, <2>3, <2>4
  <2>6. PICK m \in D : a = t(m)
    BY <2>4
  <2> QED BY <2>5, <2>6
<1> DEFINE Least(p) == \A q \in D : ~Before(timeEventHead[q].when, timeEventHead[p].when)
<1>4. ASSUME NEW p \in D
      PROVE  Least(p) <=> \A q \in D : t(p) <= t(q)
  BY <1>1, BeforeIsLess
<1>5. Least(m)
  BY <1>3, <1>4
<1>6. PICK p \in D : NearestWhen = timeEventHead[p].when /\ Least(p)
  <2> DEFINE c == CHOOSE p \in D : Least(p)
  <2>1. c \in D /\ Least(c)
    BY <1>5
  <2>2. NearestWhen = timeEventHead[c].when
    BY DEF NearestWhen
  <2> QED BY <2>1, <2>2
<1> QED BY <1>4, <1>6

\* No timer is so far away that the timeout does not fit into an int.
WaitsFit == \A i \in Pending : Due(i) - now < IntHalf

\* evStart sleeps no longer than until the nearest timer is due, for every
\* list of timers, as long as no timer is 2^31 milliseconds away.
THEOREM SleepEndsInTimeAlways ==
  ASSUME MsPerSec <= IntHalf
  PROVE  LoopSpec /\ []WaitsFit => SleepEndsInTime
<1> DEFINE Ends ==
      pc = "before" /\ pc' = "waiting" /\ Pending # {} =>
       /\ deadline' # Forever
       /\ IF Overdue = {} THEN \A i \in Pending : deadline' <= Due(i)
                          ELSE deadline' < now + MsPerSec
<1>1. TimeInv /\ WaitsFit /\ [LoopNext]_loopVars => [Ends]_loopVars
  <2> SUFFICES ASSUME TimeInv, WaitsFit, LoopNext, pc = "before", pc' = "waiting",
                      Pending # {}
               PROVE  /\ deadline' # Forever
                      /\ IF Overdue = {} THEN \A i \in Pending : deadline' <= Due(i)
                                         ELSE deadline' < now + MsPerSec
    OBVIOUS
  <2>1. EnterPoll
    BY DEF LoopNext, LoopStep, Turn, UserStep, UserTimeCall, UserFileCall, evStop,
           UserOpens, UserCloses, UserDrains, evStart, WakeWithEvents,
           WakeTimeout, WakeInterrupted, CallHandler, SkipBit, HandlerReturns, StartTimes,
           DuringTimes, EndTimes, ClockTick, BecomesReady, turnVars
  <2>2. /\ timeEventHead \in Seq(TimeEvent) /\ now \in Nat /\ NewestFirst
        /\ timeEventNextId \in Nat /\ timeEventHead # <<>>
    BY DEF TimeInv, ListInv, TimeTypeOK, Pending
  <2>3. PICK p \in DOMAIN timeEventHead :
          /\ NearestWhen = timeEventHead[p].when
          /\ \A q \in DOMAIN timeEventHead :
               Total(NearestWhen) <= Total(timeEventHead[q].when)
    BY <2>2, NearestIsLeast
  <2> DEFINE least == Total(NearestWhen)
             i0    == timeEventHead[p].id
             out   == PollTimeout(now, NearestWhen)
  <2>4. i0 \in Pending /\ Due(i0) = least
    BY <2>2, <2>3, NodeOf DEF Due
  <2>5. NearestWhen \in Moment /\ least \in Nat
    <3>1. timeEventHead[p] \in TimeEvent
      BY <2>2
    <3>2. NearestWhen \in Moment
      BY <2>3, <3>1 DEF TimeEvent
    <3> QED BY <3>2, TotalIsNat
  <2>6. ASSUME NEW i \in Pending PROVE Due(i) \in Int /\ least <= Due(i)
    <3>1. At(i) \in DOMAIN timeEventHead /\ timeEventHead[At(i)].when \in Moment
      BY <2>2, NodeAt DEF TimeEvent
    <3>2. Total(timeEventHead[At(i)].when) \in Int
      BY <3>1, TotalIsNat
    <3> QED BY <2>3, <3>1, <3>2 DEF Due
  <2>7. least - now < IntHalf
    BY <2>4 DEF WaitsFit
  <2>8. IF least >= now THEN out = least - now ELSE out \in 0 .. MsPerSec - 1
    BY <2>2, <2>5, <2>7, TimeoutIsExact
  <2>9. deadline' = IF out < 0 THEN Forever ELSE now + out
    BY <2>1, <2>2 DEF EnterPoll
  <2> HIDE DEF out, least
  <2>10. MsPerSec \in Nat /\ out >= 0 /\ out \in Int
    BY <2>2, <2>5, <2>8, TimeAssumption
  <2>11. deadline' = now + out /\ deadline' # Forever
    BY <2>2, <2>9, <2>10 DEF Forever
  <2>12. CASE Overdue = {}
    <3>1. least >= now
      BY <2>2, <2>4, <2>5, <2>12 DEF Overdue
    <3> QED BY <2>2, <2>5, <2>6, <2>8, <2>11, <2>12, <3>1
  <2>13. CASE Overdue # {}
    <3>1. least < now
      BY <2>2, <2>5, <2>6, <2>13 DEF Overdue
    <3> QED BY <2>2, <2>5, <2>8, <2>10, <2>11, <2>13, <3>1
  <2> QED BY <2>11, <2>12, <2>13
<1>2. LoopSpec => []TimeInv
  BY LoopRunsTimers, TimeInvariant, PTL
<1> QED BY <1>1, <1>2, PTL DEF LoopSpec, SleepEndsInTime
=============================================================================
