----------------------------- MODULE FileEvents -----------------------------
(***************************************************************************)
(* The descriptor side of EventLoop (base/event/t_event.cpp): the table    *)
(* events[EVENT_MAX], the field maxfd, and the two calls that change them, *)
(* evCreateFileEvent and evDeleteFileEvent, together with the part of the  *)
(* kernel they talk to: the set of open descriptors and the interest list  *)
(* of the epoll instance.                                                  *)
(*                                                                         *)
(* A mask is a set of event bits, so "|" is union and "& ~" is set         *)
(* difference.  A call that returns before it changes anything (descriptor *)
(* out of the table, epoll_ctl failed) is a stuttering step.               *)
(***************************************************************************)
EXTENDS Integers

CONSTANTS
  EVENT_MAX,   \* size of the table events[] (128 in the code)
  MaxFd,       \* descriptors are 0..MaxFd; the process may hold more than fit
  Masks,       \* the masks callers pass to the two calls
  Procs,       \* handler functions callers register
  Datas,       \* clientData pointers callers register
  Unset,       \* content of a slot never written (the constructor sets masks only)
  CloseWithoutDelete  \* may the program close a descriptor it still has registered?

READABLE == "READABLE"
WRITABLE == "WRITABLE"
ERRABLE  == "ERRABLE"
Bits     == {READABLE, WRITABLE, ERRABLE}

Fds  == 0 .. MaxFd
Slot == 0 .. EVENT_MAX - 1

ASSUME FileAssumption ==
  /\ EVENT_MAX \in Nat \ {0}
  /\ MaxFd \in Nat /\ MaxFd >= EVENT_MAX - 1
  /\ Masks \subseteq (SUBSET Bits) \ {{}}
  /\ CloseWithoutDelete \in BOOLEAN

VARIABLES
  events,    \* events[fd]: mask, one handler per bit, one clientData for all
  maxfd,     \* EventLoop::maxfd
  interest,  \* kernel: bits the epoll instance watches; {} when fd is not in it
  isOpen,    \* kernel: the descriptors that are open now
  asked      \* history: the <<proc, clientData>> last requested for each bit

fileVars == <<events, maxfd, interest, isOpen, asked>>

FileEvent == [mask       : SUBSET Bits,
              fileProc   : [Bits -> Procs \cup {Unset}],
              clientData : Datas \cup {Unset}]

FileInit ==
  /\ events = [fd \in Slot |-> [mask       |-> {},
                                fileProc   |-> [b \in Bits |-> Unset],
                                clientData |-> Unset]]
  /\ maxfd = -1
  /\ interest = [fd \in Fds |-> {}]
  /\ isOpen = {}
  /\ asked = [fd \in Slot |-> [b \in Bits |-> <<Unset, Unset>>]]

-----------------------------------------------------------------------------
(***************************************************************************)
(* epoll_ctl.  ADD needs an open descriptor that is not in the interest    *)
(* list (EBADF, EEXIST), MOD and DEL one that is in it (ENOENT).           *)
(***************************************************************************)
EpollAdd(fd, mask) ==
  /\ fd \in isOpen /\ interest[fd] = {}
  /\ interest' = [interest EXCEPT ![fd] = mask]

EpollMod(fd, mask) ==
  /\ interest[fd] # {}
  /\ interest' = [interest EXCEPT ![fd] = mask]

\* The kernel's side of evDeleteFileEvent: EPOLL_CTL_MOD with what is left,
\* EPOLL_CTL_DEL when nothing is.  Its result is ignored.
EpollDelete_Whole(fd, left) ==  \* mutant: always EPOLL_CTL_DEL
  interest' = [interest EXCEPT ![fd] = {}]

EpollDelete(fd, left) ==
  interest' = [interest EXCEPT ![fd] = IF @ = {} THEN {} ELSE left]

\* The handler slots after a registration of `mask`.
SlotsFor(fe, mask, proc) ==
  [b \in Bits |-> IF b \in mask \cup fe.mask THEN proc ELSE fe.fileProc[b]]

RaiseMaxfd(fd) == maxfd' = IF fd > maxfd THEN fd ELSE maxfd

(***************************************************************************)
(* evCreateFileEvent(fd, mask, proc, clientData), successful.  The merge   *)
(* `mask |= events[fd].mask` comes first, so the handlers of all the bits  *)
(* the descriptor has, old and new, are overwritten.                       *)
(***************************************************************************)
evCreateFileEvent(fd, mask, proc, data) ==
  LET fe     == events[fd]
      merged == mask \cup fe.mask
  IN
  /\ fd < EVENT_MAX
  /\ IF fe.mask = {} THEN EpollAdd(fd, merged) ELSE EpollMod(fd, merged)
  /\ events' = [events EXCEPT ![fd] =
       [mask       |-> merged,
        fileProc   |-> SlotsFor(fe, mask, proc),
        clientData |-> data]]
  /\ RaiseMaxfd(fd)
  /\ asked' = [asked EXCEPT ![fd] =
       [b \in Bits |-> IF b \in mask THEN <<proc, data>> ELSE @[b]]]
  /\ UNCHANGED isOpen

(***************************************************************************)
(* Where the loop `for(j = maxfd - 1; j >= 0; j--)` leaves maxfd: it moves *)
(* maxfd down over the empty entries below it and stops above the first    *)
(* one in use, without ever reaching that entry.                           *)
(***************************************************************************)
ScanStopsAt(table, m) ==
  /\ m \in 0 .. maxfd
  /\ \A k \in m .. maxfd - 1 : table[k].mask = {}
  /\ m > 0 => table[m - 1].mask # {}

(***************************************************************************)
(* evDeleteFileEvent(fd, delmask).  The result of epoll_ctl is ignored, so *)
(* the table changes even when the kernel has forgotten the descriptor.    *)
(***************************************************************************)
evDeleteFileEvent(fd, delmask) ==
  LET left  == events[fd].mask \ delmask
      table == [events EXCEPT ![fd].mask = left]
  IN
  /\ fd < EVENT_MAX
  /\ events[fd].mask # {}
  /\ events' = table
  /\ IF fd = maxfd /\ left = {}
       THEN \E m \in 0 .. maxfd : ScanStopsAt(table, m) /\ maxfd' = m
       ELSE maxfd' = maxfd
  /\ EpollDelete(fd, left)
  /\ UNCHANGED <<isOpen, asked>>

(***************************************************************************)
(* The program opens and closes descriptors on its own (SerialPort and     *)
(* Socket do so without telling the loop).  A closed descriptor leaves the *)
(* interest list; the table is not told.  Its number may be reused.        *)
(***************************************************************************)
OpenDescriptor(fd) ==
  /\ fd \notin isOpen
  /\ isOpen' = isOpen \cup {fd}
  /\ UNCHANGED <<events, maxfd, interest, asked>>

CloseDescriptor(fd) ==
  /\ fd \in isOpen
  /\ (fd < EVENT_MAX /\ events[fd].mask # {}) => CloseWithoutDelete
  /\ isOpen' = isOpen \ {fd}
  /\ interest' = [interest EXCEPT ![fd] = {}]
  /\ UNCHANGED <<events, maxfd, asked>>

FileNext ==
  \E fd \in Fds :
    \/ \E mask \in Masks, proc \in Procs, data \in Datas :
         evCreateFileEvent(fd, mask, proc, data)
    \/ \E delmask \in Masks : evDeleteFileEvent(fd, delmask)
    \/ OpenDescriptor(fd)
    \/ CloseDescriptor(fd)

FileSpec == FileInit /\ [][FileNext]_fileVars

-----------------------------------------------------------------------------
\* Every variable has its type.
FileTypeOK ==
  /\ events \in [Slot -> FileEvent]
  /\ maxfd \in -1 .. EVENT_MAX - 1
  /\ interest \in [Fds -> SUBSET Bits]
  /\ isOpen \subseteq Fds
  /\ asked \in [Slot -> [Bits -> (Procs \cup {Unset}) \X (Datas \cup {Unset})]]

\* maxfd bounds every registered descriptor from above, whatever the order
\* in which descriptors are registered and deleted (the loop of
\* evDeleteFileEvent may stop too high, never too low).
MaxfdCovers == \A fd \in Slot : events[fd].mask # {} => fd <= maxfd

\* A handler is called with the clientData it was registered with: for each
\* watched bit the pair of slots read at dispatch was passed in one call.
HandlerDataPaired ==
  \A fd \in Slot : \A b \in events[fd].mask :
    \E c \in Bits : asked[fd][c] = <<events[fd].fileProc[b], events[fd].clientData>>

\* The kernel never watches a descriptor for anything but what the table
\* says, and an entry with an empty mask is not watched: the next
\* registration is an ADD that cannot fail with EEXIST.
KernelWithinTable ==
  \A fd \in Fds : interest[fd] # {} =>
    fd \in Slot /\ fd \in isOpen /\ interest[fd] = events[fd].mask

\* When the program deletes a descriptor's events before it closes it, table
\* and kernel agree exactly: no registered descriptor is ever unwatched, so
\* the MOD of a later registration cannot fail with ENOENT.
KernelMatchesTable == \A fd \in Slot : interest[fd] = events[fd].mask
=============================================================================
