# Verification of reid

`reid` is a small C++ library for Linux devices: an event loop over epoll with
timers (`base/event`), lock and thread wrappers (`base/thread`), a serial port
(`dev/serial`), the beginnings of sockets (`dev/socket`) and string helpers
(`base/stropt`). The repository has no tests and hardly any documentation, so
everything here is read off the code; the few comments that promise something
are what the violation runs are about.

This directory holds TLA+ modules of the parts that keep state, TLC
configurations, and proofs checked by TLAPS. `PROJECT.json` lists the runs, the
mutants that show each property can fail, the source lines behind every
definition, the hazards and the findings.

    tlc -config time_pass.cfg TimeEvents.tla     # one run
    tlapm TimeEvents_proofs.tla                # one module of proofs

## The system

| Part | State | Operations | What makes it hard |
|---|---|---|---|
| EventLoop, descriptors (`t_event.cpp:59-143`) | `events[128]`, `maxfd`, the epoll interest list | `evCreateFileEvent`, `evDeleteFileEvent` | two tables (ours and the kernel's) that must agree while the program opens and closes descriptors without telling either |
| EventLoop, timers (`t_event.cpp:145-284`) | the list `timeEventHead`, `timeEventNextId` | `evCreateTimeEvent`, `evDeleteTimeEvent`, the pass `processTimeEvents` | callbacks and finalizers change the list while it is being scanned; seconds and milliseconds kept apart |
| EventLoop, the turn (`t_event.cpp:286-412`) | `stop`, `fired[]` | `evStart`, `evStop`, `evProcessEvents` | handlers of one batch change what the rest of the batch means; how long to sleep |
| ResRW (`t_resalloc.cpp:15-93`) | a `pthread_rwlock_t`, the mark `wThr` | request, try, release, for reading and writing | the mark is read and written outside the lock |
| ResAlloc (`t_resalloc.cpp:98-120`) | `mAlloc` per guard | request, release, destructor | changing mode gives up the lock first; exceptions |
| Thread (`t_thread.cpp`) | `tid`, `threadStatus` | `Start`, `Join`, `Join(ms)`, `Cancle`, `Stop`, destructor | both fields are written by two threads without a lock |
| SerialPort, object (`t_serialport_unix.cpp:177-475`) | `m_fd`, `m_error`, `m_systemLocation`, the device's termios | open, close, setters, destructor | descriptor numbers are reused; termios flags outlive their setter |
| SerialPort, transfers (`t_serialport_unix.cpp:487-535`) | loop locals, the driver's buffers | `readData`, `writeData` | partial transfers, EINTR, EAGAIN, failures half way |
| ResMtx, MtxAlloc (`t_resalloc.cpp:128-157`, `t_resalloc.h:64-90,118-134`) | a pthread mutex, `mLock` per guard | lock, try, unlock, constructor and destructor | a recursive mutex counts, a guard does not |
| ResCond (`t_resalloc.cpp:159-199`) | a pthread condition | `wait`, `timeWait`, `signal`, `broadCast` | spurious wakes, a recursive mutex given back once, the time it passes |
| StrOpt (`t_stropt.cpp`) | none | splitting, trimming, conversions | boundaries: separators at the ends, empty fields, the last byte of a buffer |
| TError | none | formats a message | - |
| Socket and its five subclasses, SerialPortInfo, ResString, main | - | - | unfinished: see "Not modelled" |

How they interact: the loop calls user code (handlers, timer callbacks,
finalizers, `beforesleepProc`), and user code calls back into the loop and
opens, closes, reads and writes descriptors, for instance those of a
SerialPort, which does not know the loop. `ResAlloc` is a guard of a `ResRW`,
`MtxAlloc` of a `ResMtx`, and a `ResCond` is waited on with a `ResMtx` locked.
`Thread` stands alone. The library has no other calls between its parts.

## The modules

| Module | Models | Uses |
|---|---|---|
| `FileEvents` | the descriptor table and the kernel's interest list | |
| `EventTime` | arithmetic on [sec, ms] pairs and the poll timeout | |
| `TimeEvents` | the timer list and the pass over it | `EventTime` |
| `TimerService` | abstract: what the timer calls promise | implemented by `TimeEvents` |
| `EventLoop` | the thread in `evStart` | `FileEvents`, `TimeEvents` |
| `ResRW` | the lock and its owner mark | |
| `ResAlloc` | guards over one lock | `ResRW` |
| `MtxAlloc` | guards over one mutex, recursive or not | |
| `ResCond` | the condition, used by threads that hold the mutex through guards | `MtxAlloc` |
| `Monitor` | abstract: one thread inside, a waiter outside until it is let in | implemented by `ResCond` |
| `Thread` | one object and the threads it starts | |
| `SerialSettings` | termios arithmetic | |
| `SerialPort` | one object, the process's descriptors, the device | `SerialSettings` |
| `SerialTransfer` | `readData` and `writeData` | |
| `StrOpt` | the text functions, against definitions of what they are for | |
| `MC*` | constants for TLC | |
| `EventLoop_proofs` | theorems about `FileEvents` and `EventLoop` | `EventLoop`, `TimeEvents_proofs` |
| `TimeEvents_proofs`, `ResAlloc_proofs`, `ResCond_proofs`, `Thread_proofs`, `SerialPort_proofs`, `SerialTransfer_proofs`, `StrOpt_proofs` | theorems | the module they are named after |

State and actions against the code:

* **FileEvents.** `events[fd]` has the fields of `evFileEvent`, with the three
  handler pointers as a function from bits; a mask is a set of bits. `interest`
  and `isOpen` are the kernel's. One action per call; a call that returns
  before changing anything is a stuttering step. `OpenDescriptor` and
  `CloseDescriptor` are the rest of the program. `asked` is history.
* **TimeEvents.** The list is a sequence of `[id, when, fin]`. The pointer `te`
  is the id in the node it reaches, `NULL`, or `FREED`; a freed node can be
  handed out again by `malloc`, and then `te` is the new timer's id. The pass
  is a phase (`scan`, `callback`, `finalizer`) with the code's locals, so user
  calls interleave exactly where the code calls out. `ClockSet` is
  `gettimeofday` jumping, forwards or back, in the middle of a pass too.
* **EventLoop.** `pc` is the place in the turn. Dispatch goes report by report
  and bit by bit, reading the table again before each call as the code does.
  `stale` marks a report whose descriptor has been closed since; its number can
  be opened again while the report still waits. `deadline` is when `epoll_wait`
  gives up. `EVENT_DONT_WAIT` cannot occur: `evStart` passes
  `EVENT_ALL_EVENTS`.
* **ResRW, ResAlloc.** The rwlock is external (readers preferred; whether it
  reports EDEADLK to a writing owner is the constant `RwlockDetects`). Each
  call is a sequence of steps: look at the mark, lock, set the mark; unlock,
  compare the mark, clear it.
* **MtxAlloc, ResCond.** The mutex (`holder`, `depth`) and the condition are
  external and as in glibc: a wait gives the mutex back once, wakes for no
  reason too, and returns when it has the mutex again. `mLock` is a field of
  each guard. `until` is the `timespec` handed to `pthread_cond_timedwait`.
* **Thread.** `place[i]` is where the i-th started thread is in `run0`/`run1`,
  a step per statement. The owner's calls have a step wherever the code reads
  `tid` again or waits; whether `Join` and the test of the destructor are read
  a second time for the call is the build's choice (`JoinCalls`,
  `DestroyCancels`). A pthread call given 0 or the id of a joined thread, which
  is undefined, notes the id in `dead` and either fails, so that the owner goes
  on, or crashes (`GivenDead`).
* **SerialPort.** `files` is the process's descriptor table, lowest number
  first. Every call goes to the file that has the number `m_fd` at that time.
  Reading or writing the termios may fail, in `open`, which does not look, and
  in the setters, which do; `open` then works on a termios of zeros
  (`Configure`, `Zeroed`). `applied`, which fields of the line have been written
  as the port asked, and `stick`, whether CMSPAR is left over, are history.
* **SerialTransfer.** A thread's call has its locals `cur` and `maxSize`; one
  step per `read` or `write`. A `write` of nothing ends the call with the count
  so far (`WriteStops`), a failed one with -1 (`WriteFails`). `newest` and
  `returned` are history.
* **StrOpt.** A text is a sequence of characters out of a few; each function is
  an operator over its indices, and the only variables are the text, the
  separator and the call that is being looked at. What the functions are for
  (`Glued`, `Words`, `Written`) is defined without them. A text whose copy in
  `strSimplified` does not fit its string (`Overruns`) gives `Undefined`.
  `str2real` is an exact decimal, an integer and a power of ten: rounding to a
  double, its range and its `pow` (`t_stropt.cpp:216`) are left out, because
  TLC has no floating point and the hazards are in the scan of the digits.

## The runs

Bounds are small because every property is about a few actors: two or three
threads, timers or descriptors already produce each order of two operations
around a third. Counts are distinct states; the passing runs together fire
every action and every disjunct.

| Run | Question | Bound |
|---|---|---|
| `time_pass` | list order, finalizers, the scan, missed timers, re-arming, with a clock that jumps; does the pass implement `TimerService`, and does it end? (495 358) | 3 timers, clock to 3 with 2 ms in a second, so carries happen; the clock is set to 0 or 2 at any time |
| `loop_files` | does the interest list fit the table, is a handler called only for what is open and watched, and is a ready descriptor served? (296 318) | 2 descriptors that can be closed and opened again inside a batch, 2 bits, no timers |
| `loop_timers` | is the sleep right, is every timer called, is `evStop` honoured from handlers and from timers? (235 952) | 2 timers, delays 1 and 4, re-arming after 0 and 2, 3 ms in a second, 1 descriptor |
| `rw_locks` | is the owner mark right, and do guards and lock agree? (1 172 464) | 2 guards of one thread, 1 of another, a third thread without, 2 recursive reads |
| `mutex_cond` | do guards and mutex agree, is the whole a monitor, and does everybody who asks get the mutex? (7 241) | 3 threads, one with two guards, both kinds of mutex, two timeouts |
| `thread_calls` | are ids live, does join mean finished, is a destroyed object left alone, does every call return? (30 732) | 2 starts, any order of calls |
| `serial_port` | one file per port; the line as asked, as far as it was written (2 726 136) | 3 descriptors, three kinds of termios left behind, all values of parity, stop bits and flow control, failures of both termios calls |
| `serial_bytes` | does a byte go to one caller only (or is it dropped by a call that returns -1), does each caller get its bytes in order, is what was written a beginning of the data as long as the count says, and does every call return? (271 816) | 2 threads, 3 bytes in, 2 writes of up to 3, room for 2 |
| `text` | is a list read back field by field, is the n-th field the n-th one read in turn, are words kept where the copy has room, numbers and bytes as written? (69 448) | every text of up to 6 characters out of those that matter to the function |

`MsPerSec` is 2 or 3 instead of 1000 and `IntHalf` 128 instead of 2^31: the
arithmetic is proved for every value (below), the runs only need carries and
borrows to happen. `Horizon` and `MaxNow` bound the clock; in `EventLoop` a
sleep that is under way may pass the horizon, so that liveness is not cut off
by the bound; a callback re-arms for later only before the horizon, and at once
always. Deadlock is checked everywhere except in `Thread`, where the
object may be gone and every thread ended, and in `StrOpt`, where a text has an
end.

### Violation runs

Each checks what a comment in the code says and finds that the code does not
do it; the `findings` quote the line.

| Run | What happens |
|---|---|
| `time_self_delete` | a callback that deletes its own timer and returns a delay writes to a freed node, or re-arms another timer |
| `thread_restart` | `Join(ms)` of a restarted object sees the previous EXIT |
| `loop_reopened` | a handler deletes and closes a descriptor whose report still waits in `fired[]`, opens a file that gets the number, and registers it: the new handler is called for the old file's report, although "we check if the event is still valid" (`t_event.cpp:366`) |

### What the passing runs assume of the program

They name the discipline under which the code is right. As a constant:
`CloseWithoutDelete = FALSE` of the loop runs (delete events before closing),
`RearmAfterSelfDelete = FALSE`, `Upgrades = FALSE` (no thread that reads asks to
write), `NestedWait = FALSE` (no wait with a recursive mutex locked twice) and
`StdinOpen = TRUE`.
As a history variable in the property, so that the run itself is not
restricted: `tidy` of `Thread` (the owner joins before it starts again, and
neither `Cancle` nor `Stop` is called; destroying a running thread and every
race on `tid` are allowed), and `closed`, `applied` and `stick` of `SerialPort`.
As a case in the property: `PassHeldUp`. A timer that asks again and again to run
at once, or a clock that moves as fast as the timers ask, keeps
`processTimeEvents` going for ever (`t_event.cpp:268-276`), whether or not it has
called `evStop`, and starves the timers behind it; `TimerIsServed` and
`StopIsHonoured` say that nothing else does. `time_self_delete` drops an
assumption of the first kind. The theorems make the same assumptions where they
need them, and no others.

### Seen while modelling

The models also show the following, which has no violation run. The hazards say
which property stops where. The first two contradict what the headers say, and
take a single call.

* `timeWait(mtx, msec)` (`t_resalloc.h:144`) hands `pthread_cond_timedwait`, which
  takes a time since 1970, a length of time, with 1000 ns to the millisecond:
  the wait is over at once, for every `msec` (`TimedWaitIsOver`).
* `strSimplified` is to "remove the blanks before and after, of those in between
  keep one" (`t_stropt.h:116`). It returns a text of blanks only as it is
  (`t_stropt.cpp:269`), and it copies `copyCount * 2` bytes and so writes past its
  string when the first part is longer than what follows the first run of
  blanks, as in `hello world  a` (`t_stropt.cpp:306`).
* After a deletion `maxfd` can stay above the highest registered descriptor,
  and it ends at 0, not -1, when none is left (`t_event.cpp:114`).
* A registration for one event replaces the handlers of the descriptor's other
  events (`t_event.cpp:70-91`).
* The timeout is a `long` cut to an `int`: a timer 2^31 ms away can make
  `epoll_wait` sleep without a limit (`t_event.cpp:339`).
* A descriptor that is closed without being deleted loses its next
  registration (`t_event.cpp:67`).
* A timer that returns 0 each time keeps the pass going: `evStop` and the other
  timers wait for ever (`t_event.cpp:276`).
* Seconds and milliseconds are clamped separately after the borrow: a timer
  that is overdue when the sleep begins is slept over for up to 999 ms
  (`t_event.cpp:308-323`). `SleepEndsInTime` allows for it.
* `resRelease` clears `wThr` after the unlock and can wipe the next writer's
  mark, whose second request then waits instead of being refused
  (`t_resalloc.cpp:91`).
* A thread that reads and asks to write waits for itself: `wThr` records
  writers only (`t_resalloc.cpp:35`).
* A wait keeps a recursive mutex that its thread has locked twice, and nobody
  can get in to signal (`t_resalloc.cpp:187`).
* `Join` and `~Thread` read `tid` again after the test, and the thread may have
  cleared it: `pthread_join` and `pthread_cancel` are then given 0, which is
  undefined (`t_thread.cpp:21-24`, `84-86`); `OnlyLiveIds` says that it is never
  worse than 0 for an owner that joins. A cancelled thread leaves its id behind,
  and the next `Join` joins it a second time. `Start` while a thread runs loses
  that thread.
* `Join(ms)` sleeps 100 us for each millisecond (`t_thread.cpp:104`).
* Even and odd parity do not take effect after space or mark parity, because
  nothing clears CMSPAR (`t_serialport_unix.cpp:95-122`).
* `OneAndHalfStop` gives one stop bit (`t_serialport_unix.cpp:124-137`).
* `open` does not look at whether the termios could be read or written and
  returns true (`t_serialport_unix.cpp:283`, `292`). If it could not be read it
  writes one made of zeros, without CREAD: the receiver is off.
* `close` leaves `m_fd`, so a closed port goes on using the number, whoever has
  it then, and cannot be opened again, because `isOpen()` still says yes
  (`t_serialport_unix.cpp:250`, `297-304`).
* A `readData` that returns -1 drops the bytes it has read; after a `writeData`
  that returns -1 the caller cannot know how much was sent
  (`t_serialport_unix.cpp:501`, `527`).
* `strParse` does not merge separators while it reads with `off`. The exponents
  of `str2real` are 16 bits wide.
* `time2str` and `cpct2str` print no units, and `t_stropt.h` declares as members
  functions that `t_stropt.cpp` defines as free ones.
* `portNameToSystemLocation` is the identity, and `portNameFromSystemLocation`
  drops five characters of a location that is not below `/dev/`
  (`t_serialport_unix.cpp:662`).

### Fairness

* `TimeFairSpec`: the loop's thread runs and callbacks return. No fairness is
  assumed of the user's calls or of the clock.
* `LoopFairSpec`: the same for the whole turn (`Turn`, which leaves out
  `WakeInterrupted`: no signal need ever come), and strong fairness of the
  clock: a sleep with a deadline ends because time passes, which the kernel
  provides; strong because the tick is disabled outside the horizon.
* `CondFairSpec`: the mutex is handed on to whoever keeps asking (strong
  fairness, as glibc's mutex is not a queue), and a thread that has it gives it
  back: it unlocks its guards and does not for ever lock another before the
  last. Nobody need signal, and no wait need end by itself.
* `ThreadFairSpec`: every started thread runs and `run()` returns; the owner's
  waiting calls proceed when they can.
* `TransferFairSpec`: threads run, the line drains, and a writer is not
  interrupted or overtaken at every attempt (strong fairness of `WriteSome`):
  the code retries without limit, so it has no progress without it.

## The proofs

The theorems hold for every value of the constants the modules' assumptions
allow; TLC evaluates those assumptions on the runs. `PROJECT.json` lists the
theorems and the property each one states.

**Descriptors** (`EventLoop_proofs`). `FileTypeOK`, `MaxfdCovers`,
`HandlerDataPaired`, `KernelWithinTable`, and, if descriptors are deleted before
they are closed, `KernelMatchesTable`. All but the last
hold of every program; `MaxfdCovers`, `HandlerDataPaired` and `KernelWithinTable` are
proved and not run, since the two descriptors that a run of the loop can afford
leave nothing below the one that is deleted. `MaxfdCovers` needs only the types:
the case that matters is a deletion at `maxfd`, where `ScanStopsAt` says that
everything between the new and the old value is empty.

**Timers** (`TimeEvents_proofs`). First the arithmetic: adding a delay yields
the pair of the sum, the comparison of pairs is that of the moments, the due
test is `Total(when) <= now`, whatever the number of milliseconds in a second.
Then `TimeInv`: the list is in the order of its ids (`NewestFirst`), so a
position and an id determine each other; `te` is in the list while the pass
scans (`TePlace`); and every timer the scan has gone past is later than the
earliest clock since it last restarted (`PassedAreLater`), which at the end of
the list is `NothingDueLeft`. A clock set back lowers that bound, so the
invariant survives it. The refinement of `TimerService` maps the list to a
function from ids to due times; each change of the list (`Link`, `Unlink`,
`Rearmed`) is shown to be the abstract change of that function. It assumes that
no callback deletes its timer and asks to run again, and so does
`OnlyOwnReturnRearms`.

**The turn** (`EventLoop_proofs`). Each step of `EventLoop` is a step of
`FileEvents` or leaves it alone, and the same for `TimeEvents`; so a run of the
loop is a run of both and has all their invariants. `HandlerIsWatched` follows
from `KernelMatchesTable`: the mask that is read again before the call is what
the kernel watches now, whatever the batch has done to the number, and what is
watched is open. `SleepEndsInTime`
follows from `TimeoutIsExact` (the borrow of `evProcessEvents` computes the time
left) and `NearestIsLeast`, for runs in which no timer is 2^31 ms away
(`WaitsFit`), beyond which it is false.

**Reader-writer lock** (`ResAlloc_proofs`). Of the lock alone: although `wThr` is
read and cleared without the lock, it never names a thread that has finished
giving the lock back, so EDEADLK is only ever the writer's. The strengthening is
`MarkerWrites`, that a thread about to set the mark is the writer. Of the
guards: `AllocTypeOK`, `GuardsMatchLock`, `WriteGuardAlone`, and that a run of
guards is a run of the lock, which carries the theorems about it over. The
invariant behind `GuardsMatchLock` is `Balanced`: at each place inside a call it
says by how much the locks of a thread and the claims of its guards differ (one
less after a release, one more after a lock whose call has not returned, nothing
after a request that was refused or timed out). `WriteGuardAlone` follows from
it with `LockExcludes` and `WriteModes`, that a guard granted writing belongs to
the writer.

**Mutex and condition** (`ResCond_proofs`). `TimedWaitIsOver` compares the pair of
seconds and nanoseconds that `timeWait` fills in with any clock that has counted
`msec` milliseconds since 1970. `GuardsMatchMutex` is inductive with
the types and the mutual exclusion of the mutex, counted per thread over any
finite set of guards. The refinement of `Monitor` needs in addition that a
thread asleep does not hold the mutex (`SleepersAreOut`), which is where it
assumes `~NestedWait`.

**Threads** (`Thread_proofs`). `TidyInv` says that for a tidy owner only the
thread last started can still write `tid` and `threadStatus`, and what they are
at each place of that thread and of the owner's call: `tid` is then that thread or
0, so a second read can only turn it into 0, and what the destructor cancels and
joins is the only thread left, or one past its last write. `OnlyLiveIds`,
`JoinMeansFinished`, `StatusIsLast` and `NoWriteAfterDestroy` are read off it.

**Serial port** (`SerialPort_proofs`). A file of the port is the one `m_fd` names
(`FdIsOwn`, until the first close), which needs that the lowest free number is
never one in use; the assumption that descriptor 0 stays open is used where
`open` takes `m_fd > 0` for success. For `LineAsAsked` there is a lemma for each
setter: whatever the termios was, afterwards the setting is the one asked for, or
what that comes to (`ParityGiven` and the like, which spell out CMSPAR and the
missing half stop bit), and the others are what they were. `StickHeld` says
that `stick` is CMSPAR as the device has it. Fields that no successful write has
reached are outside it: `applied` says which.

**Transfers** (`SerialTransfer_proofs`). `CallsInv` ties `cur` to the length of the
caller's buffer, so what a `read` stores follows what the one before it stored;
the bytes that wait are in the order of arrival, which makes the part taken and
the part left disjoint; and the places a byte can be in are disjoint and
complete (`Apart`, `Complete`). `EachByteOnce` and `WrittenInOrder` follow.
`ReadInOrder` needs `OrderInv` in addition: what a thread has been given is older
than what waits, and its parts are in order.

**Text** (`StrOpt_proofs`). The functions compute by recursion along the text, so
what they compute for every text is shown by induction on a position. The
library's induction theorem takes an operator as a parameter, which no prover
here can instantiate; the least counterexample does the same work
(`LeastExists`, from the fact that `<` on the naturals is well founded), and so do
sets in the place of predicates (`Induction`, `StrongInduction`). Each recursive
function of the model is shown to be the one function that satisfies its
equation (`RecursionExists`, `BackwardsExists`, `OnNatExists`, and uniqueness).

* `FieldsReadBack` follows from the invariant `ReadInv`: the fields read so far,
  glued, are the text up to `off`, and `off` is where a field begins. The lemmas
  behind it are about where separators are: the text cut at them joins to itself
  again, and a field holds none. CR LF, one separator of two characters, makes
  `strLine` a case of its own (`NormalConcat`, `NormalEnds`).
* `LevelIsNthRead` follows from `LevelInv`: the field at level k begins where the
  k-th read begins. With merged separators the loop is followed twice, in the
  text and in the text with each run reduced to one, and `SqueezeStep` shows that
  a step here corresponds to a step there.
* `WordsKept`, of texts with a word that do not overrun the copy: the part of the
  text before the first blank that has to be shortened is already as it should
  be (`WordsCopied`), and the loop after it writes one word at each turn
  (`ShortenedWords`).
* `RealAsWritten`: `Continued` read over the digits of a number gives the number
  back (`NumOfDecimal`), also in an `int16_t` if the number fits; each part of what
  is written stands where `str2real` looks for it (`WrittenStands`) and ends where
  the next begins (`WholeRead`, `FractionRead`, `ExpRead`). The rounding of the
  double is not part of it.
* `HexFits`: how many bytes have room is counted (`HexDigits`), and their digits
  and the terminator fit.

The theorems assume of `Chars` that it holds the characters the functions look
for, of `Ways` that the separator of `strSepParse` is one character, as its type
says, and of `Numbers` that exponent and places fit 16 bits, without which
`RealAsWritten` is false.

Only model-checked: the liveness properties (`PassTerminates`, `ReadyIsServed`,
`StopIsHonoured`, `TimerIsServed`, `MutexIsGot`, `CallsReturn`,
`TransfersReturn`), since the prover has no reasoning about fairness. Every safety
invariant and every action property of the passing runs is proved.

## Not modelled

* **Socket** and its subclasses: `mSockfd` is never assigned, the file does not
  compile, and the subclasses are empty.
* **SerialPortInfo**: `avaliablePorts` is empty and every info is null;
  assignment and `swap` call each other for ever.
* **ResString**: declared, not implemented. **main** prints one line.
* **TError**: formats a message. Where it is caught, or not, is modelled.
* **StrOpt**, the rest: `time2str`, `cpct2str` and the like print through
  `snprintf`, the `is...` functions test characters one by one; neither has a
  boundary of its own.
* **Thread::Kill** (SIGKILL ends the process), `SerialPort::clear` (empty),
  `readBufferSize` (one ioctl whose result nothing uses).
* Negative descriptors, empty masks, failed `pthread_create`, `cur` overflowing
  an int: nothing in the code calls the library that way or handles it.
* Several serial ports on one loop: a port knows no loop and keeps nothing that
  another port or the loop reads but its descriptor, so the composition has no
  state beyond that of `FileEvents` and `SerialPort`; its one hazard, a number
  used after `close`, is `OnlyOwnFile`.

## Plan

All of the plan is carried out: the loop and its parts, the locks, the mutex and
the condition, the threads, the serial port, the text functions; and the safety
properties of all of them are proved. What is left waits for the code: the
sockets and `SerialPortInfo`, once they are written.
