# SylixOS with an enhanced shell: a TLA+ verification project

The repository is the SylixOS real-time operating system (`SylixOS_Base`, a board support package in `SylixOS_bsp`) with the shell enhancement of a course project: command suggestions from a history trie, pipes, `;` `&&` `||`, and conditions. The models follow the source; comments in the modules use the names of the source. Paths below are relative to `src/SylixOS_Base/libsylixos/SylixOS/`.

## 1. Inventory

| Part | State it keeps | Operations | What makes it correct |
|---|---|---|---|
| Event wait queue (`kernel/core/_EventQueue.c`, `_EventHighLevel.c`) | for each kernel object the queue of its waiting threads; in each TCB the status bits, the object, the time-out and deletion flags | join, take the first (low level), make ready (high level), leave at a time-out | a waiting thread is on exactly one queue or in the hands of one call; order by priority, then arrival |
| Counting semaphore (`kernel/interface/SemaphoreC*.c`) | type, count, maximum, queue | Create, Pend, TryPend, Post, Release, Clear, Flush, Delete | no unit is lost or given twice, no thread waits while there are units, results say what happened |
| Mutex (`kernel/interface/SemaphoreM*.c`) | owner, depth, the owner's own priority, queue; in each TCB the priority and the deletion protection | Create, Pend, Post, Delete | mutual exclusion by what callers were told; no inversion; priority and protection are given back |
| Reader-writer semaphore (`SemaphoreRW*.c`) | count, status, writer, depth, a queue of readers and one of writers | Create, PendR, PendW, Post, Delete | nobody beside a writer; a post hands over; a writer gets in |
| Message queue (`MsgQueue*.c`, `_MsgQueueLib.c`) | count, map and lists of messages, a queue of receivers and one of senders | Create, Send (urgent, broadcast), Receive, TryReceive, Flush, Clear, Delete | a bounded channel in order of urgency; no message lost on its way to a waiting receiver; nobody waits beside a message |
| Time-outs, wake-ups, signals (`_TimeTick.c`, `ThreadWakeup.c`, `system/signal/signalLib.c`) | wakeup line, thread flags | tick, wake up, signal | end a wait once; a limited wait ends |
| Wakeup line (`_WakeupLine.c`, `k_scanlink.h`) | list of waiting nodes with the difference of their times; place of the scan; time of the last charge | add, delete, status, scan | the differences stand for the time each node has to wait |
| Hardware timers (`Timer*.c`, `TimerHTicks.c`) | control blocks, one wakeup line | create, start, cancel, reset, delete, tick | a routine is called at the tick its count asks for |
| Application timers (`_ITimerThread.c`, `Timer*.c`) | the same, and the sleep of the timer thread | the same, and the loop of the thread | never early (with an exception the code has), the thread does not oversleep |
| History trie (`kernel/tree/trie.c`, `shell/ttinyShell/ttinyShellReadline.c`) | trie in memory, history file of the user | load, record, search, back up, clear, reload | counters survive the file, suggestions were used, a cut file does no harm |
| Command execution (`shell/ttinyShell/ttinyShellLib.c`, `__tshellExec`) | the nested calls, the file `/etc/.log` | split at an operator, redirect, run, go on or stop, remove the file | runs what the operators ask for; a pipe transmits |
| Line editor (`shell/ttinyShell/ttinyShellReadline.c`) | for each shell the line, the cursor, the ring of entered lines; global: the suggestion, its length, two buffers of blanks | the keys, begin and end of a line, restart (control-C) and end of a shell | the terminal shows what will be executed; Up and Down give back what was entered; what is freed at an end is there for the next line |
| IF/ELSE, background execution, keywords, variables, users | per shell, some of it global | | not modelled, see section 7 |
| Binary semaphores, event sets, work queues | wait queues and a little more | | not modelled, see section 7 |
| Scheduler, SMP, threads, memory, loader, file systems, network, drivers, ports | | | not modelled, see section 7 |

How they interact. Threads call the kernel objects; a call holds the kernel lock but opens interrupts in the middle, so interrupt routines (which post semaphores), the tick (which lets time-outs run out, scans the timers) and other CPUs' signals come between its steps. Timer routines run with the kernel unlocked in the middle of the scan and call the timer interface again. Shells are threads; they share `/etc/.log`, the global trie and the history files. `__tshellExec` is recursive and calls commands (`rm` too) through itself; the editor feeds each line that succeeded to the trie.

What is hard: the two halves of a wake-up with interrupts open in between; time-outs, signals and posts racing for one thread; deleting an object under waiting threads; a semaphore or a message that is handed over to a waiter while the tick removes it; a decision made with interrupts open; a woken sender that no longer needs what it was woken for; a list of differences that changes under a scan; a timer thread that runs late; a file that is cut when the power fails; one file shared by all shells. `PROJECT.json` lists these hazards with their lines and the properties that cover them.

## 2. Plan

1. `WaitQueue`, `SemaphoreC` and their proofs: the protocol every blocking object of the kernel repeats. *Done.*
2. `HistoryTrie`, `ShellExec` and `LineEditor`, which is composed with `HistoryTrie`: the logic this repository adds to SylixOS. *Done.*
3. `WakeupLine`, `Timer`, `TimerCountdown` (abstract), `HTimer` (refines it), `ITimer`. *Done.*
4. `EventLib` (the wait machinery three objects share), `Mutex` and its abstract specification `AbstractLock`. *Done.*
5. `SemaphoreRW` with `ReadersWriters`, `MsgQueue` with `MsgChannel`. *Done.*
6. Proofs: `WaitQueueProofs` and `SemaphoreCProofs`; `EventLibProofs`, on which `MutexProofs`, `SemaphoreRWProofs` and `MsgQueueProofs` rest; `TimerProofs`, of the wakeup line, the hardware timers and the application timers; `ShellExecProofs`. *Done.* Left for later: `FrequenceCountsUses` of `HistoryTrie` while no file is involved.

## 3. Modules

| Module | Models | Notes |
|---|---|---|
| `WaitQueue` | the FIFO and the priority queue of an object | the rings of the code are one sequence, next thread to wake first |
| `SemaphoreC` | the counting semaphore and all that ends a wait on it | one action is one stretch with interrupts closed; `klock` is the kernel lock of a call with interrupts open, `picked` the thread between the low-level and the high-level half |
| `MCSemaphoreC` | | threads `t1`, `t2` of one priority, `t3` of a higher one |
| `WaitQueueProofs`, `SemaphoreCProofs`, `EventLibProofs`, `MutexProofs`, `SemaphoreRWProofs`, `MsgQueueProofs`, `TimerProofs`, `ShellExecProofs` | | section 6 |
| `EventLib` | joining a queue, the two halves of waking, leaving at a tick or a signal, what a call does after its wait | conjuncts of actions, for several queues; a time-out is only `NotWait`, `Timed` or `Infinite`, and a timed wait may end at any moment (`SemaphoreC` counts its ticks) |
| `AbstractLock` | | abstract: who has which lock, and how deep |
| `Mutex`, `MCMutex` | the mutex | `holds` is what the threads were told; `voided` are pends that succeeded on a mutex that was deleted before they returned; `leaked` are threads that kept a raised priority; `unsafe` is an `LW_THREAD_UNSAFE` still to come |
| `ReadersWriters` | | abstract: who reads and who writes |
| `SemaphoreRW`, `MCSemaphoreRW` | the reader-writer semaphore | the places `release` and `releaseIgnoringWriters` are `__release_pend` with the two values of `bIgnWrite`, before interrupts are closed; `reading` and `writing` are what the threads were told |
| `MsgChannel` | | abstract: one bounded sequence of messages, and an inbox for each receiver |
| `MsgQueue`, `MCMsgQueue` | the message queue | `lists` and `map` are the lists by urgency and the bits for those not empty; `buffer` is what was written for a waiting receiver; `Long` messages do not fit the buffer of a strict receiver |
| `WakeupLine` | the list of differences | operators only; `proc` is the parameter `bProcTime` for a line with a wake-up function |
| `Timer` | the timer interface | shared by the two kinds of timers |
| `TimerCountdown` | | abstract: one counter for each timer, no list |
| `HTimer`, `MCHTimer` | `API_TimerHTicks` | a step of the scan ends where the kernel is unlocked for the routine |
| `ITimer`, `MCITimer` | `_ITimerThread` | `at` is where the thread is; `Delay` is how long a thread stays on the delay line, which it leaves at a tick only: on a count that is used up it sleeps one tick; `due`, `early` and `mixed` (a timer was put on the line while a scan had ticks left to charge) are history |
| `HistoryTrie`, `MCHistoryTrie` | the trie, its file and the sessions | a trie is the function from the paths of its valid nodes to their fields; the file is a sequence of bytes; `uses`, `intact` (no cut file is behind the trie), `exact` (nor a counter the file did not give back) and `saved` are history |
| `LineEditor`, `MCLineEditor` | the line editor | extends `HistoryTrie`: the steps that touch the trie are its actions, with what they do to the editor beside them, and a key searches the trie itself. A key is one action. `tty` is the row of the terminal as the bytes written leave it. `entered` is history, and so are `fresh` (the suggestion in memory is the one printed behind the line of this shell) and `blind` (Right took a character of one that was not) |
| `ShellExec`, `MCShellExec` | `__tshellExec` | `stack` holds the frames of its recursion; `shared` (history) the shells that were not alone while they ran their line; `Restart` is control-C, or the command `exit`, at any moment: all frames of a shell are gone at once; `left` (history) says that this left the file behind; a command's name is its place in the line, and it prints what it read and its name |

Calls that fail early and change nothing (a wrong handle, cancelling a stopped timer) are not actions. Operators named for a defect (`RemovedLosesCount`, `GoesOnAlways`, ...) stand before the definition they differ from; no specification uses them. They are what `PROJECT.json` lists under "mutants": the definition with a plausible bug in it, under which the property named there fails.

## 4. Runs

Runs that pass:

| Run | Question | Instance |
|---|---|---|
| `semaphore_priority` | Do posts, releases, flushes, deletion, interrupts, time-outs, signals and wake-ups leave queue, count, flags and results consistent? | 3 threads of 2 priorities (so that there are overtaking, equals and a thread in hand with another one queued), count up to 2, release of up to 2, one-tick and infinite waits; about a million states |
| `semaphore_timeout` | Does a limited wait end? | 2 threads, FIFO, waits of up to 2 ticks, so that a signal can restart a wait in the middle |
| `htimer_ticks` | Does the list implement counters? | 3 timers (left neighbour, node, right neighbour), counts 1 and 3 (equal times, and insertion in front, between and behind) |
| `itimer_late` | Is the thread on time, and is nothing early? | 2 timers, counts 1 and 3 (equal times, and insertion in front and behind, at once or after ticks), 6 ticks, a thread that runs in the tick it is woken in or one later, routines that take any time (so that counts are used up before the thread sleeps, and scans have several ticks to charge); 250,000 states |
| `mutex_inherit` | Is the mutex a lock, whoever waits, gives up, is signalled or deletes it? | 3 threads of 3 priorities (an owner, and two waiters that raise it one after the other), recursion once, queue by priority; the three kinds, with inheritance and with a ceiling; 800,000 states under the view of `MCMutex`, which leaves out what is always written before it is read again: the time-out flag of a thread that does not wait, and the fields of a freed control block (the theorems of section 6 hold without it) |
| `rwlock_writer` | Is it readers and writers, and does a writer get in? | 3 threads (two readers to relieve each other, and a writer), FIFO, writers preferred, a writer that asks twice |
| `msgqueue_channel` | Is it a bounded channel? | 3 threads (a call that wakes two), two messages of different urgency of which one is too long for strict receivers, room for two |
| `history_session` | Do trie and file agree with what was used? | a command that is a prefix of two others that fork; bytes of 6 values and hence counters up to 17: 3 uses reach the sign bit of the low byte, 6 the high byte, 17 the maximum, at which a counter stops. A trie with a counter that was read wrong goes on for up to 7 uses, so that it is written and read again with further ones, and one with a cut file behind it for up to 3 |
| `editor_session` | Does the editor keep its promises through lines, restarts and ends? | one shell, lines of 2 characters over 2, which a third one ends (the full buffer), so that there are changes at the front, in the middle and at the end; a ring of 2 and 3 lines (one pushes another out, one moves to the head); two commands of which one is a prefix of the other; names with and without something in common; 400,000 states. The run stops at 3 lines, hence no check for deadlock |
| `shell_lines` | Do the nested calls give a line its meaning, and what holds of two shells at once? | all lines of up to 4 commands over 5 operators with every set of failing commands, beside another shell up to 5 commands in both lines; each shell may be restarted at each step; 3 million states. `LineHasItsMeaning` and `PairTransmits` speak of lines whose shell was alone, `RunsInOrder` and `LogIsTemporary` of all |

Runs that show a disagreement between the code and what is said of it:

| Run | What it shows |
|---|---|
| `rwlock_reader` | `NobodyWaitsOnFree` fails when readers are preferred: the last reader sees a waiting reader, sets `bIgnWrite`, and a tick takes this reader away before interrupts are closed. The semaphore becomes free with a writer in its queue, and readers that come later queue behind this writer. |
| `shell_chain` | `PipeTransmits` fails for `a \| b \| c`: the redirection of `b` empties the file `b` is to read. |

More disagreements follow from the same models. They have no run of their own; the constants that show them are given.

* `MsgQueue` with `MaxMsgs = 1`: the invariant that senders wait only while the queue is full, or while a sender that was woken has still to try again, fails. Two senders wait on a full queue, a receive makes room and wakes the first, a receiver comes and waits, the first sender gives its message to the receiver directly (`MsgQueueSend.c:225` onwards), and the second sleeps on beside the room until another receive takes a message.
* `LineEditor` without the exception `~blind[s]` in `ScreenShowsLine`: it fails. With `ab` recorded, type `a` (the suggestion is `b`), press Up (the line is now `ab`, the suggestion stays in memory) and Right: the line becomes `abb`, the terminal shows `ab`. `Final Report/Final_Report.md:245` says of Right that "the first character will be included in the current input buffer", and line 210 that a suggestion is "the postfix of the most frequently used command with a prefix equal to the current command". The last Backspace of a line, and changes in the middle of it, leave the suggestion behind as well (`ttinyShellReadline.c:457`).
* `LineEditor` with two shells: `EditorMemory` fails as soon as one of them restarts or ends while the other reads a line: the trie and the buffers are freed for both.
* `ITimer` without the exception `mixed` in `NeverEarly` (`early' = (early \/ now < due[from.op])`): it fails. When a scan has several ticks to charge and a timer is put in front of a node that still has to be charged, by the scan itself (`_ITimerThread.c:104`, a restarting timer) or by a caller while a routine runs, that node is counted relative to the new one and the ticks left are charged all the same. With a thread that runs one tick late and counts 1 (restarting) and 3, the second timer is called after 2 ticks. A thread that always runs in time has several ticks to charge too: a count that is used up while a routine runs makes it sleep one tick more (`Delay`). With A restarting after 1 tick and a routine of one tick, and B started at 3 for 2 ticks, B is called at 4.
* `HistoryTrie` without the condition `exact`, in `FrequenceCountsUses` or in `FavouriteIsMostUsed`: each fails in `history_session`. The low byte of a counter is added as a negative number when its top bit is set (`trie.c:205`). With real bytes, 128 uses read back as 32640. A node used 130 times reads back as 32642, more than its sibling that was used 256 times and that a search still prefers, as `maxFrequence` is 256. And 32767 reads back as 32511. What the two properties state without counters, the ends of commands and that the favourite child is there with `maxFrequence` as its counter, holds in such a trie too.
* `HistoryTrie` with `Commands <- Sequence`, `Byte = 256`, `MaxUses = 1`, `MaxBadUses = 1`, `MaxCutUses = 1`: `SearchAnswers` fails for a line with `;`, since a zero stands in its place when the line is recorded (`ttinyShellLib.c:928`).
* `ShellExec` without `~left` in `LogIsTemporary`: it fails. Control-C while a command of a pipe runs restarts the thread of the shell (`ttinyShellLib.c:1261-1263`), and the command `exit` within a pipe ends it (`ttinyShellSysCmd.c:1575`); the calls that would run `rm /etc/.log` are gone, and the file stays until the next pipe of any shell returns. That pipe empties the file before its left command prints, so it reads nothing old (`PairTransmits`).
* `ShellExec` with two shells, `Ops = {"|"}`, `MaxLen = 2`, `MaxTotal = 4`: `PipeTransmits` fails, the shells share `/etc/.log`.
* `Mutex` with two mutexes (`Queues = {m1, m2}`, `MaxDepth = 0`): `NoInversion` fails. An owner that waits for the other mutex is raised, but neither is the owner it waits for, nor is its place in that queue corrected. The first post of two nested mutexes also sets back the priority to the one saved with that mutex.
* `PriorityComesBack` of `Mutex` excepts the threads in `leaked`: a post that finds nobody waiting any more does not call `_EventPrioTryResume` (`SemaphoreMPost.c:147`), so that a priority inherited from a waiter that gave up stays.
* `API_SemaphoreCFlush` reports the threads that waited when it began; `FlushCountBound` says it is never too small, and interrupts can make it too large.
* After a file that was cut within an entry `Search` can answer `Fault` (the walk leaves the valid nodes), which `SearchAnswers` allows then.
* `LineHasItsMeaning` fixes the meaning the code gives a line: an operator applies to all that stands behind it, so that in `a && b ; c` a failing `a` skips `c`. And a search descends to the most used child, which `FavouriteIsMostUsed` states, and not to the most used command.

Bounds are constants, each named and commented where it is declared. `MaxUses`, `MaxBadUses`, `MaxCutUses`, `MaxTime`, `MaxLen` of `ShellExec`, `MaxTotal`, `MaxDepth`, `MaxEntered`, `MaxRelease` and `MaxTimeout` bound inputs; `MaxMsgs` is the size a queue is created with, `MaxLen` of `LineEditor` the length of the input buffer and `MaxRing` the size of its ring; `MaxDelay` is how late the thread of the timers may run; `Byte` is a width, smaller than the real one, and the maximum of a counter follows from it (`FreqMax`, one bit less than two bytes). Symmetry is used for threads of equal priority, for timers and for shells; in each the specification and the properties of the run treat them alike, and no liveness is checked there.

## 5. Fairness

Two properties need it. `TimedWaitReturns` (`FairSpec` of `SemaphoreC`): Weak fairness of `Proceed(t)`: a call that is under way goes on, because nothing in it waits for another thread while it has the kernel lock. Strong fairness of `PendAgain(t)`: a thread that enters the kernel again gets its turn although others enter it over and over, because the kernel lock is a ticket lock. Weak fairness of `Tick` and `Expire(t)`: the clock interrupt comes, and its loop reaches each thread whose time is up. Posting, signalling and waking up are never assumed to happen. The property also says what it needs of signals: they stop, or ticks keep falling into the wait.

`WriterGetsIn` (`FairSpec` of `SemaphoreRW`): strong fairness of `Proceed(t) \/ PostOne(t)`, because a call that is under way goes on and the ticket lock gives it its turn when it enters the kernel again; and strong fairness of `Leave(t)`: a thread that holds the semaphore gives it back in the end, which is what its users owe each other. Nobody is assumed to time out, to be signalled or to ask.

## 6. Proofs

Each theorem holds for every value of the constants that the assumptions beside their declarations allow, for any number of threads, mutexes, messages and timers. `ThreadsAssumption` and `QueuesAssumption` of `EventLib` make both sets finite, as `LW_CFG_MAX_THREADS` and `LW_CFG_MAX_EVENTS` do; the counters of the objects are compared with cardinalities. A theorem that needs more says so in its statement.

Every component with proofs has an inductive invariant `IInv`, the theorem `Invariance` (`Spec => []IInv`) and `TypeCorrect`. The proof of `Invariance` has one lemma per action, and under it a step for each conjunct the action disturbs. TLC checked each `IInv` on the instance of the run before.

| Module | Theorem | Property |
|---|---|---|
| `SemaphoreCProofs` | `NoWaiterIsLost` | `NoStrandedWaiter` |
| | `NoUnitIsIdle` | `NoIdleUnits` |
| | `QueueStaysOrdered` | `QueueOrdered` |
| | `FreedBlockIsEmpty` | `FreedIsEmpty` |
| | `ResultsAreGrants` | `ResultMatchesGrant`, an action property |
| | `FlushCountSuffices` | `FlushCountBound` |
| `MutexProofs` | `OwnersKnow` | `OwnerKnows` |
| | `MutexImplementsLock` | `ImplementsLock`, the refinement of `AbstractLock` |
| | `OwnersAreSafe` | `SafeWhileOwner` |
| | `PrioritiesComeBack` | `PriorityComesBack`, with one mutex |
| | `InversionNever` | `NoInversion`, with one mutex and `ProperOptions` |
| `SemaphoreRWProofs` | `CountersAgree` | `CounterAgrees` |
| | `ReadersOrOneWriter` | `ImplementsReadersWriters`, the refinement of `ReadersWriters` |
| | `NobodyIsForgotten` | `NobodyWaitsOnFree`, where writers are preferred |
| `MsgQueueProofs` | `ListsAgree` | `CounterAndMapAgree` |
| | `NoMessageIsLost` | `NothingLost` |
| | `NobodyWaitsBesideMessage` | `NoWaitBesideMessage` |
| | `GetFindsMessage` | no call of `_MsgQueueGet` meets an empty list |
| | `MsgQueueImplementsChannel` | `ImplementsChannel`, the refinement of `MsgChannel` |
| `TimerProofs` | `ScanNeverLost` | `ScanStaysOnLine` |
| | `LineCountsDown` | `CountsDown`, the refinement of `TimerCountdown` |
| | `NeverOversleeps` | `ThreadWakesInTime`, for any delay of the thread, with the tick it sleeps on a used-up count |
| | `CalledWhenDue` | `NeverEarly`, for any delay of the thread |
| `ShellExecProofs` | `Meaning` | `LineHasItsMeaning` |
| | `Transmits` | `PairTransmits` |
| | `InOrder` | `RunsInOrder` |
| | `Temporary` | `LogIsTemporary` |

**Counting semaphore.** None of its invariants is inductive alone. `NoStrandedWaiter` needs to know who may hold a thread in hand: `LockInv` ties `pc`, `klock`, `picked` and the type of the object together (one call at a time has the lock with interrupts open, only such a call has a thread picked, and a delete runs on an unused object only). It also needs the flags of waiting threads: `_EventReadyHighLevel` leaves the SEM bit of a thread whose time-out flag is set, so `WaitInv` says that a waiting thread has neither the time-out nor the deletion flag, and that a woken thread's flags and its grant agree. `ResultMatchesGrant` then follows from `WaitInv`, because `PendReturn` reads these flags only. `NoIdleUnits` needs `LockInv` for a release that is interrupted between two units. `FlushCountBound` needs an invariant beside these: `FlushInv` counts the threads still on the queue together with those woken, so that what interrupts take off the queue only lowers the sum.

**The wait machinery.** `EventLibProofs` proves what `EventLib` does to `QueueInv` (a queue holds, once each, the threads that wait for it and that nobody has in hand) and `FlagInv` (what the flags say of a thread that waits, and of one that a signal has woken). The three objects below add their own conjuncts to these two.

**Mutex.** `KernelInv` says who is inside the kernel: a thread in the middle of a post owns the mutex still, at depth 0, and has a waiter of that mutex in hand. `OwnerInv` relates owner and depth to what the threads were told and to what they will be told when they return; `VoidedInv` and `UnsafeInv` carry what a deletion and a post leave to do. The refinement mapping shows what the threads were told, so it needs `OwnerInv` only where a pend returns: the thread that is told has to be the owner, and no other may have been told before. `SafeWhileOwner` compares counters with cardinalities, step by step, and needs `IInv` to know that a counter to be decremented is not 0.

The two theorems on priorities have a hypothesis. `OneMutex`: with two, both properties are false in the code (section 4), since the first post of two nested mutexes sets back the priority to the one saved with that mutex, and a raised owner that waits itself raises nobody. `ProperOptions`: the mutexes inherit, or no thread is above their ceiling. It is needed because a thread that kept a raised priority (`leaked`) may be above a ceiling that is below other threads, and a waiter then raises nobody. They are proved from `SavedInv` (a mutex has saved what its owner goes back to) and `OrderInv`: the queue is ordered by priority but for an owner that waits for its own mutex, which keeps its place when it is raised, and no thread is left on the queue that is above the one in hand.

**Reader-writer semaphore.** `HoldInv` has a case for each place of a call inside the kernel: outside, it is free, read, or written by one; at the two `release` places and before the hand-over to a writer, nobody holds it; while readers are woken, the count is the number of readers and one more for the reader in hand. `NobodyIsForgotten` is for `PreferWriter` only: with readers preferred the property is false, which run `rwlock_reader` shows.

**Message queue.** `NothingLost` needs `KernelInv`: a deletion never has a receiver in hand whose buffer was written, and a post wakes senders and receivers at different places; the flags of `FlagInv` say that a tick or a signal that comes after the low-level half does not change how the receiver returns. `ListInv` adds the lists; that the count is the number of messages is stated of the set `Kept` of their places. `MsgQueueImplementsChannel` is the refinement: the channel is `Stored`, the eight lists (`EVENT_MSG_Q_PRIO`) laid end to end. `ChannelInv` says that each message lies in the list of its urgency, that the counter is the length of `Stored`, and that a deleted queue stores nothing. What a put and a get do to one list is carried to `Stored` list by list (`WholePut`, `WholeGet`, by the least list where the claim would fail, `ListByList`): a put ends up behind all that is as urgent and before the rest, a get takes the first of all because the first bit of the map marks the first list that is not empty. `StepEffect` sorts the steps by what they do to the messages, `EffectOnChannel` maps each effect to a step of the channel or to none; a gift to a waiting receiver is a step only because nobody waits beside a message.

**Wakeup line and hardware timers.** The first part of `TimerProofs` is about the differences: `Expiry`, the sum of the first counts, exists and is unique (by the least counterexample, which needs no induction theorem), and adding or deleting a node changes the sums of no other node. With `Scanned` (the nodes are distinct, and the place of the scan is one of them), `Ahead` (no node before the place of the scan is due) survives both. That is what the scan needs: while a routine runs, anything may be started, cancelled, reset or deleted, and still every due timer is found (`ScanFinds`). A scan with one tick to charge goes on like one with none on a line whose head has waited one tick more (`TickCharges`). `IInv` adds that nothing is due between two ticks, that the nodes are the running timers, and that `ulCounter` is 0 whenever the kernel is unlocked; with it each step is one of `TimerCountdown`, whose counters are what `API_TimerStatus` shows.

**Application timers.** Here a line is charged with the time that passed since the last charge, so the lemmas on differences are carried over to lines with a time (`Timed`), and what is compared is the moment a node runs out: the last charge and the time it has left. `NoSooner` says that an operation lets the timers it leaves on the line run out no sooner; starting, stopping, charging and calling all have that property. `ThreadWakesInTime` is not inductive: it speaks of the first timer only, and when that one is cancelled nothing is known of the next. `ITimerInv` says that the sleep ends before *any* timer of the line runs out, or at the tick after the last charge when its count is used up (a thread leaves the delay line at a tick only, so `_ITimerThread` sleeps one tick on a count of 0), and needs the line, the blocks and the clock to agree. It holds however late the thread runs. `NeverEarly` follows from `DueInv`, also for any delay: as long as nobody was put on the line while ticks were left to charge (`~mixed`), each timer of the line runs out at its due time or later, by as much as the scan has still to charge (`DueKept`); while a routine runs, the node the scan goes on with runs out later than the one before it, and is the head if there is something left to charge (`Punctual`), so that what is charged is charged to all. A line on which a timer was put while ticks were left (`mixed`) is excepted until it is empty when the thread goes to sleep: there the code does call too early (section 4). TLC checked both invariants on the instance of `itimer_late` with count 2 as well (711,086 states).

**Execution of a line.** The recursion of `__tshellExec` is a stack in the model, and `IInv` of `ShellExecProofs` says where it can stand: a call that begins with command c of the line has around it the calls that wait for what is behind the operators before c, each with its part of the text (`Calls`); these have been told what their commands returned, and each of them went on (`Told`); the file holds what the pipe has put there (`InLog`). `Told` and `InLog` are of shells that work alone, and `AloneInv` says that no other shell is busy then. Without it a pipe of another shell could change both. `Meaning` follows since a call makes of the values of its two parts the value of its text (`Combined`), and `Transmits` since the file is emptied before the left command prints and nobody else writes to it. For `LogIsTemporary` shells need not be alone: while the file is there, some shell is inside a pipe it will remove it behind, or a shell was torn out of one (`LogInv`; `PipingShows` says that such a shell is seen to be inside one); a redirection opens the file only inside a pipe, and a command prints only to a file that is there. `LineHasItsMeaning` gives the meaning of a line in one piece, with the last command to run and the value it has, and not by recursion over the operators: a recursive definition could not be reasoned about, and it would repeat what the code does.

Only model-checked: `TimedWaitReturns` and `WriterGetsIn` (liveness is out of the prover's reach); `HistoryTrie` (its file is decoded by folds over bytes, and what a fold computes for every input needs induction over data); `LineEditor`, which is composed with it and has no proofs of its own. `NobodyWaitsOnFree` with readers preferred and `PipeTransmits` are false.

## 7. What is not modelled

* Of the shell: IF/ELSE and `[[ ]]`, background execution, aliases and variables, command lookup, login. Two shells on one trie: after the first of them ends the other reads freed memory, of which nothing can be said.
* Of control-C in a line under execution: what a command has printed when it is torn out in the middle (it prints all or nothing), the file a redirection has open then, and a shell that waits for a thread it has joined, where only that thread is killed and the command fails (`ttinyShellLib.c:1241-1254`).
* Of the line editor: reads of the terminal that fail (the line is then executed without the zero behind it), lines continued with a backslash, words (Tab completes the whole line), the listing of names, rows longer than the terminal, shells without echo, and a thread that is restarted in the middle of a key. Completions are shorter than the buffer: when the one name that matches does not fit any more, `lib_strlcat` cuts it but `CTX_TOTAL` grows by its whole length (`ttinyShellReadline.c:986`). A full line is recorded in the trie with a zero in its last place; commands of the model that succeed are shorter.
* Of the semaphores: the binary one (the counting one with a maximum of 1, but for the message of the Ex functions); a change of a waiting thread's priority by `API_ThreadSetPriority`, deletion of a waiting thread or of an owner (`TCB_iDeleteProcStatus`), and the forced wake-up of a thread that waits for ever (`API_ThreadWakeupEx` with `bWithInfPend`).
* Of the order of a queue: `QueueOrdered` is about priorities. That threads of one priority are woken in the order they came is in the model (`PriorityPlace`), but no property states it.
* Of the mutex: the bound of recursion, and mutexes without `LW_OPTION_DELETE_SAFE`. Of the reader-writer semaphore: `LW_OPTION_DELETE_SAFE`, and callers that post what they do not hold, which the code cannot tell for readers. `LW_OPTION_ERRORCHECK` is said to hold for it (`k_option.h:175`), but no call looks at it.
* Of the message queue: clearing and flushing from an interrupt, messages from an interrupt that are too long for their receiver, and the bytes of a message. A sender that tries again waits with the whole time-out of its call, which the time-outs of `EventLib` do not tell.
* Event sets: their waiters are nodes of their own and need a module beside `EventLib`.
* Of the timers: what the routine does besides calling the timer interface, POSIX timers on top of them, `TIMER_u64Overrun`, repeat count 0, and delayed work queues, which use the same line.
* Time in `SemaphoreC` is the number of ticks a thread still waits; the drift of a tick that recalculating a wait can cause is not seen.
* The scheduler, SMP and the kernel's spin lock are taken for what the callers rely on: the kernel lock excludes other threads, and interrupts run in the open stretches only.
* Memory, loader, file systems, network, drivers, architecture ports, the board support package and the vendored C library: large subsystems this enhancement does not touch.
