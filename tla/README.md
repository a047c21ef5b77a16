# TLA+ specifications of ucore (lab8_result)

The repository is the ucore teaching operating system: exercise skeletons
(`labcodes/`), worked answers (`labcodes_answer/lab1_result` to `lab8_result`),
reports and lecture material. `labcodes_answer/lab8_result` is the complete
kernel, and it is the program these modules model; paths below are relative to
its `kern/`.

ucore runs on one CPU. The kernel is not preemptible: a process gives up the CPU
only in `schedule()`. Interrupts do come in while the kernel runs (a system call
goes through a trap gate, which leaves them on), except between `local_intr_save`
and `local_intr_restore` and inside interrupt handlers. Hence every specification
here takes as an atomic step what one process does between two points where an
interrupt or a switch matters, and has the interrupt handlers as steps of their
own.

## 1. Inventory

| Component | State | Operations | Talks to |
|---|---|---|---|
| Scheduler core (`schedule/sched.c`) | `current`, `proc->state`, `wait_state`, `need_resched`, run queue | `wakeup_proc`, `schedule`, per-tick accounting | everyone who blocks or wakes; the stride class |
| Stride class (`schedule/default_sched.c`) | skew heap, strides, time slices | enqueue, dequeue, pick_next, proc_tick | scheduler core |
| Timer list (`schedule/sched.c`) | list of `timer_t` with differences of ticks | `add_timer`, `del_timer`, `run_timer_list` | `do_sleep`, timer interrupt, `wakeup_proc` |
| Processes (`process/proc.c`) | process tree, flags, exit codes | fork, exit, wait, kill, sleep, yield; `init_main`, `cpu_idle` | scheduler, timers, memory, files |
| Pid allocation (`get_pid`) | `last_pid`, `next_safe`, `proc_list` | `get_pid`, link, unlink | `do_fork`, `do_wait` |
| Traps (`trap/trap.c`) | trap frames | dispatch; end-of-trap checks of `PF_EXITING` and `need_resched` | all of the above, by interrupts and calls |
| Semaphores, wait queues (`sync/sem.c`, `wait.c`) | `value`, wait queue, `wakeup_flags` | `up`, `down`, `try_down` | scheduler core |
| Monitors (`sync/monitor.c`) | mutex, `next`, `next_count`, condition variables | `cond_signal`, `cond_wait`, entry and exit | semaphores |
| Dining philosophers (`sync/check_sync.c`) | declared states | take and put forks, twice | semaphores, monitors, `do_sleep` |
| Console input (`fs/devs/dev_stdin.c`) | ring buffer, wait queue | interrupt-side write, blocking read | interrupts, scheduler core |
| Physical memory (`mm/default_pmm.c`, `pmm.c`) | free list, `property`, reference counts, page tables | alloc and free pages, page insert and remove | everyone |
| Virtual memory (`mm/vmm.c`) | vma list, `mm_count` | `mm_map`, `find_vma`, `do_pgfault`, `dup_mmap`, `exit_mmap` | page tables, swap |
| Swap (`mm/swap.c`, `swap_fifo.c`, `fs/swap/swapfs.c`) | FIFO of pages, swap entries | swap in, swap out | vmm, pmm |
| Kernel heap (`mm/kmalloc.c`) | SLOB list, big blocks | kmalloc, kfree | pmm |
| File descriptors (`fs/file.c`, `fs.c`, `sysfile.c`) | fd states, open counts, positions | open, close, read, write, dup, seek; copied on fork | VFS |
| VFS (`fs/vfs/*`) | inode reference and open counts, device list, bootfs | lookup, open, close, mount | SFS, devices |
| SFS (`fs/sfs/*`) | cached inodes, free map, block maps, superblock | load, reclaim, read/write, truncate, create, sync | block device |

The behaviours that are hard in this kernel, and what makes each component
correct:

* *A sleeper and its waker.* A process marks itself asleep, and calls
  `schedule()` later; in between, a timer or keyboard interrupt may wake it while
  it is still running. It has to be in the run queue exactly when it can run and
  does not, and no wakeup may fall between test and sleep (`do_wait`, `__down`,
  `dev_stdin_read`).
* *Objects on kernel stacks.* `timer_t` and `wait_t` are local variables linked
  into global lists: none may be linked when its frame is gone, whoever woke the
  process.
* *Death in the middle.* `do_kill` leaves a flag and perhaps wakes the victim.
  Where the flag is looked at decides whether the victim dies.
* *A family tree that shrinks from both ends.* Exits, orphans, and parents
  asleep in `do_wait`; `init_main` asserts that it is alone in the end.
* *Handing over.* A semaphore's unit goes to the first waiter, a monitor goes from
  signaller to waiter and back: nobody may get in between.
* *Windows and differences computed earlier.* `next_safe` of `get_pid`, the
  relative ticks of the timer list, the stale `property` of pages: correct only
  as long as every operation keeps them so.
* *Limits.* The pid space, the ring of the console, blocks that fit exactly, a disk
  without a free block, strides that wrap around.
* *Half of an operation.* A block of entries is allocated and the block it should
  point to is not; a write stores a part; a fork fails after it has copied the
  descriptors; a big block of the heap gets its `bigblock_t` and no pages.
* *A frame with one owner.* Directories, tables and pages come from the same
  frames; fork, execve with a broken program, exit and swapping must give back all
  of them, each once, and no frame that is still mapped.
* *Counts that must agree.* Open counts and references of an inode with the
  descriptors of all tables; free map, superblock and block numbers in inodes.

`PROJECT.json` lists each of them with its line, and the properties aimed at it.

## 2. Modules

| Module | What it is |
|---|---|
| `Sched` | Scheduler core as operators (no next-state relation of its own) |
| `Proc` | Process life cycle with traps and timer interrupt, on `Sched` |
| `Killed` | The processes of `Proc`, and who of them was killed in its sleep |
| `ProcProof` | Proofs about `Proc` and `Killed` |
| `Timers`, `TimerSpec` | The delta list; independent countdowns, which it implements |
| `Stride`, `SkewHeap` | Strides that wrap around, and the heap ordered by them |
| `Schedule` | `schedule()`, `wakeup_proc`, time slices, strides, heap and timer list together, on `Timers` and `SkewHeap` |
| `StrideProof` | Proofs about the arithmetic of `Stride` |
| `PidAlloc`, `PidAllocProof` | `get_pid`; proofs about it |
| `Sem` | Semaphores, wait queues and `do_sleep` of kernel threads, on `Sched` |
| `SemClients`, `SemSpec` | Arbitrary users of semaphores; the counter of units they see |
| `SemProof` | Proofs about the operations of `Sem` for whoever calls them, and about `SemClients` |
| `CheckSync`, `CheckSyncProof` | Philosophers with semaphores, on `Sem`; proofs about them, on `SemProof` |
| `CheckMonitor`, `CheckMonitorProof` | Monitors, and philosophers with a monitor, on `Sem`; proofs about them, on `SemProof` |
| `Stdin`, `StdinSpec` | Console input with readers, keys and kills, on `Sched`; the queue it implements |
| `StdinProof` | Proofs about `Stdin`, the refinement included |
| `DefaultPmm`, `PageSpec` | First-fit page allocator; the set of free pages it implements |
| `Kmalloc` | The kernel heap, one of the callers of `DefaultPmm` |
| `KmallocProof` | Proofs about `DefaultPmm` with the callers of `Kmalloc`, and about the heap |
| `Paging` | Page frames, page tables and FIFO swapping, as operators |
| `Vmm`, `MemSpec` | Address spaces and the page fault handler on `Paging`, under `check_swap` and under processes; memories of their own, which they implement |
| `Sfs` | Blocks and inodes of the simple file system, as operators |
| `Files`, `FileSpec` | Descriptor tables, inode counts and system calls on `Sfs`; sequences of words, which they implement |
| `MC*` | The instances for TLC |

Operators named `Mut_...` stand before the definition they would replace and are
never used by a specification: each is the code with a plausible mistake, and
shows that some property notices it.

**Sched.** A process slot has `state` ("FREE" without a `proc_struct`),
`wait_state`, `need_resched`, and `queued`, the number of times it is linked in
the run queue: the heap as a bag, so that linking twice is a state the model can
reach. `WakeupProcs(W)` is `wakeup_proc` for every process of W,
`SwitchTo(next)` is `schedule()` with `proc_run`. Which queued process has the
smallest stride is left open, so every property holds for any scheduling class;
`Schedule` says how the code chooses.

**Proc.** One action per system call up to its next blocking point, `pc` naming
the point: `do_wait` is the call, the scan (`WaitReap`, `WaitNoChild`,
`WaitSleep`), the switch, and the return with its test of `PF_EXITING`. `Tick`
is the timer interrupt, at any point where interrupts are on; from user mode it
ends in the checks at the end of `trap()`. Timers are remaining ticks (what
`TimerSpec` promises and `Timers` delivers), pids are slots (what `PidAlloc`
delivers). A call that fails for lack of memory or with a bad argument returns
without effect. User processes are the environment: any sequence of calls.

**Killed.** `Proc` with a history variable: the processes that `do_kill` found in a wait it can
interrupt, until they exit. It starts before the wakeup, so that a victim who is flagged
and not woken shows.

**Timers.** The list as a sequence of records; the three operations are
interrupt-free, so each is one step. `woken` records whom a step woke. The module
has no next-state relation of its own: `Schedule` calls it in `do_sleep` and in the
timer interrupt.

**Schedule.** The scheduler once more, with nothing left open: `pool` is the skew
heap as a tree (`<<p, left, right>>`), `stride`, `priority` and `time_slice` the
fields of `proc_struct`. `CallSchedule` is `schedule()`: enqueue the running
process, take the root, move its stride on, remove it. `Tick` is
`run_timer_list` as a whole. `need_resched` is a single flag, for only the running
process ever has its own set. Strides are numbers modulo `2 * (BIG_STRIDE + 1)`,
which is 2^32 for the code's 0x7FFFFFFF; the instance has `BIG_STRIDE = 2`, so that
they wrap after three picks. `steady` is a history variable: it becomes false when
a process comes back, or is created, with a stride more than `BIG_STRIDE` away
from the others'. A process slot is used once.

**PidAlloc.** `get_pid` is one interrupt-free section, but has its walk modelled
pid by pid, since the walk is what can be wrong; the order of `proc_list` is
left open. `from` remembers the pid given out before, for `NextFree`.

**Sem.** A thread inside a call is at "down_sched", "down_ret", "sleep_sched" or
"sleep_ret", and `then` says where it goes on. A `wait_t` is its process in the
sequence `wait_queue[s]` and the flags in `wakeup_flags`. A failed assertion of
`down` leads to "down_failed". `SemClients` adds processes that call anything in
any order and are killed; `CheckSync` and `CheckMonitor` the threads of
`check_sync`, statement by statement, up to their exit. Sleeps end in any order
(`SLEEP_TIME` is the same for all, but the threads reach it at different ticks).

**Stdin.** The ring with its two positions; the loop of `dev_stdin_read` is one
step up to the point where it sleeps or returns. Characters are numbered as they
are typed. When the ring is full, the code overwrites the oldest character with
the newest and the reader gets that one first; `StdinSpec` says so, since the
code gives no other intention.

**Files, Sfs.** The kernel is not preempted and the disk driver polls, hence a
system call on files runs to its end with no other process in between, and is one
action: `Sfs` has the operations of an inode as functions from file system to
result, `Files` puts them behind the descriptors. A file system is the free map,
`super.unused_blocks`, the words of the blocks, and every file's inode on the disk
(`disk`) and in memory (`sin`, or `NotLoaded`). `FD_INIT` and `FD_CLOSED` and a
descriptor's count of users exist only within a call. `sys_fork` never shares a
table (no caller passes CLONE_FS), files are never created
or removed (no directory has `vop_create`, `vop_unlink`). The assertions and panics
of the code are results: those that legal calls can reach stop the model in
`panicked` (`ReachablePanics`), `AssertionsHold` says that the others never fail. What a
block holds after it was freed, and what an inode on the disk says while a newer
one is in memory, are values that nobody may see. `delivered` is a history variable, the words
that the last call gave to its caller: `FileSpec` says which words of its sequence a read
delivers, so that a read of the wrong ones is noticed in the step that makes it. Descriptors 0 and 1 belong to
the console and are left out.

**Kmalloc.** The ring as a function from the addresses of free blocks to length and
successor, `slobfree` where the next search starts, and `Around` the walk of both loops;
`Taken` is what `slob_alloc` does to the ring and `Given` what `slob_free` does, with
`With`, `Drop` and `Link` for the assignments to `next` and `units`. A page the ring asked for stays with it
(`slob_pages`). A big block is allocated in two steps, its `bigblock_t` and its
pages, in between which nobody else calls the heap. Addresses are in units,
`arena` lies below all pages.

**Paging, Vmm.** None of this code is left in the middle by a switch, so an
operation is a function from the memory before to the memory after: `Paging` has
the frames with `ref` and contents, directories, tables (`pde`, `pte`), and the
list of the swap manager with `pra_vaddr`; `WithPage(m, GoOn)` is `alloc_page()`
(`Replenish`: swapping out included), after which the caller goes on unless the
kernel has panicked (`Then`). `Vmm` has what calls it.
First `check_swap`, the one user of swapping in this kernel, with a space and frames
of its own, which it may use in any order here; its frames are never seen again
(`EndCheck`: the free list is restored from a copy made without them). Then
processes: `Exec` is `do_execve` with `load_icode`, whatever the program file is
like, `Fork` is `copy_mm`, `Exit` the half of `do_exit` that concerns memory, and
`Access` an instruction that reads or writes, with its page fault. A page is a number, what is on
it a value that tells where it came from; a table maps four pages instead of 1024. A
panic stops the model in a blank state with its reason in `mem.panic`.
`stale` is a history variable: a page has been swapped out under a
`pra_vaddr` that is not its own (see below); `SwapKeepsPages` and the constraint
`NotStale` go that far, and so do the accesses of `check_swap` in the code.

**DefaultPmm.** `free_list` is the sequence of linked pages, `property` the
field of every page, stale values of pages given out included. `held` are the
callers' pages. Callers return what they got, or a part of it, as
`default_check` does. The `PG_reserved` and `PG_property` flags are left out:
nothing but assertions reads them. `asked` and `answer` are the last call as its caller
sees it; with them `PageSpec` says what a request for so many pages may be answered.

## 3. Runs

All runs finish in about three minutes or less with two workers.

| Run | Bounds | Shows |
|---|---|---|
| `proc_safety` | idle, init, 3 users (symmetric), sleeps up to 2 ticks | run queue exact, no missed wakeup, timers do not dangle, zombies are only reaped, everything is reaped in the end, sleeps last |
| `proc_live` | 2 users | whatever the scheduler does: sleeps end, initproc reaps everybody once all users are dead, a process killed in its sleep dies or is left in the run queue for ever |
| `proc_kill` | 2 users | *violated*, even with the kindest scheduler: a kill of a runnable process can be without effect |
| `schedule` | idle, 3 processes, two of which sleep up to 2 ticks, time slice 1, `BIG_STRIDE` 2, one process with priority 2 | heap exact, the one furthest behind is picked, nobody in reach is passed over for ever, the delta list implements countdowns |
| `pid_alloc` | 6 processes, pids 1 to 6 | pids unique, in turn; the search ends |
| `sem_safety` | 3 clients, 2 semaphores, values up to 2 | units are neither lost nor invented, served in order, `down` never fails |
| `philosophers_semaphores` | 4 philosophers, 1 meal | exclusion, all finish |
| `philosophers_monitor` | 4 philosophers, 1 meal | one inside, exact counters, exclusion, all finish |
| `stdin` | 3 readers, 2 slots, 5 keys, reads of up to 2 | no reader sleeps over input, no `wait_t` without its frame, the ring is a queue |
| `memory` | 8 pages, one of them reserved; heap with 4 units a page, 2 such pages, blocks of 2 and 3 units and of 2 pages | page blocks stay maximal, lowest fit is found, heap ring ordered and exact |
| `files` | 2 processes, 2 files, 3 blocks of 2 words, 1 direct block and 1 entry, 2 references, files up to 5 words | blocks accounted for, counts exact, assertions hold, reads deliver what was written |
| `address_spaces` | `check_swap` with 3 pages and 2 frames; then 2 processes, 7 pages, 15 frames, six program files, 2 pages written to | every frame has one use or is free, faults are resolved, swapped pages come back, memories are private |

Why the bounds are enough for the interesting cases: three user processes give a
grandparent, parent and child, all of them asleep, dying or killed while
initproc waits; two ticks let a sleeper be killed before, at and after its
expiry; two sleepers put their timers before, equal to and after each other, with and
without ticks between them, and take either out; three strides that wrap are
the fewest that can be circular; with one
pid more than processes the allocator wraps and its window closes; three clients
are a holder, a waiter and one who could overtake; four philosophers are the
fewest where neighbours of neighbours differ, so that one is tested from both
sides, and one that puts its forks down lets two others eat (the code has five and
four meals: a philosopher back from a meal leaves nothing behind, by
`OneInside` and `CountsExact`, and the semaphores of both are back at their first values, so a later meal is like the first); a
ring of two slots is empty, half full, full and overwritten within five keys;
seven usable pages in areas of two and five let a block be joined on either side,
on both and on none; four units in a page, and two pages that may touch or not, do
the same for blocks of the heap. Three blocks are one fewer than a file of direct
block, entry block and entry beside another file needs, so that every allocation
fails in some state; a file of five words has a hole, a partly written block and an
indirect one; two references are one file opened or shared twice, or two files. Three pages for two
frames are swapped out and in in every order; 15 frames hold two address
spaces of seven, one of which has touched another page of its stack, and not
more, so that every allocation is the one that fails in some state; the pages lie
under two tables, the lower of which two vmas share.

`FewAsleepWhenUnsteady`, `FewOthers`, `FewOpen`, `NotStale` and `FewWritten` are the
constraints of the instances. The first cuts only behind states in which `steady` is false, where
`PicksLeast` and `RunnableRuns` ask nothing any more; `FewOthers` lets other
callers of the page allocator have pages only while the heap has none; `FewOpen`
bounds references; `FewWritten` the pages processes have written to.

`CHECK_DEADLOCK FALSE` stands only in the runs of `Proc`: when initproc exits, or
is killed, the kernel panics and nothing moves any more; and of `files`, where the
last process may exit and an assertion may stop the kernel; and of `address_spaces`,
for the same reasons. Elsewhere something can
always go on.

**Fairness.** Weak fairness for the kernel's own steps: the CPU executes the code it is in,
and a call of `schedule()` picks somebody. Weak fairness of the timer interrupt, and of each
sleep's end. User code and typists owe nothing: no fairness on system calls, `up`, or keys.

No run that passes assumes more. In `Schedule` the pick is computed; elsewhere nothing says that a
process in the run queue is ever picked, for the stride class does not give that to processes
that sleep or fork (*Starvation* in the next section). So the properties of `proc_live` ask
only for what the scheduler cannot prevent: `SleepersWake` ends when the sleeper is
runnable; `InitFinishes` starts when no user process is left to compete with initproc;
`KilledSleepersDie` leaves out the victim that is queued for ever. That each single
orphan is reaped would not hold even with a fair scheduler, since `do_wait(0)` takes the youngest
zombie first (`process/proc.c:901-907`, with `set_links`), and forks and exits can give
initproc younger ones without end. The philosophers of `CheckSync` and `CheckMonitor` all finish
whomever `schedule()` picks, as they eat a bounded number of meals, give up the CPU only to wait, and
nothing else runs beside them.

`proc_kill` has strong fairness (`ServedSpec`: time slices run out, and everybody in the queue
gets a turn), to show that what it finds is not the scheduler's doing.

### Disagreements between the code and its documentation

The table of system calls (`process/proc.c:59-60`) says that SYS_kill leads by way
of PF_EXITING, `wakeup_proc` and `do_wait` to `do_exit`.

`proc_kill` shows otherwise: `trap()` looks at the flag after a system call and not
before one. A process flagged while runnable that next waits for a running child
sleeps with the flag set, and a second kill answers -E_KILLED.

For `do_sleep` and `do_wait` the promise holds when the kill finds the victim
asleep: it is woken, and does not sleep again or come back to user mode
(`KilledSleepersDie`, and `OnTheWayOut`, which is proved).

Met while modelling, and built into the models rather than checked by runs of
their own:

* *A kill undone by a key.* `do_kill` wakes a reader of the console but leaves its
  `wait_t` linked. A key that comes before the reader runs overwrites its wakeup flags
  (`fs/devs/dev_stdin.c:59`); it goes on reading, and may sleep again with PF_EXITING
  set. `Stdin` has this behaviour (`ReadReturn`).
* *A page under another's name.* `do_pgfault` makes a page that it has swapped in
  swappable again (`mm/vmm.c:538`) but leaves its `pra_vaddr` (`mm/memlayout.h:136`, "used
  for pra (page replace algorithm)") as its frame had it; only `pgdir_alloc_page` sets it
  (`mm/pmm.c:619`). When such a page is swapped out, `swap_out` writes it to the entry of
  another page and takes away that one's table entry. With three pages and two frames six
  accesses are enough; `_fifo_check_swap` ends just before the first victim of this kind,
  and no other code of this kernel swaps. `SwapKeepsPages` without `~stale` is violated.
* *No memory is no error.* Once `swap_init` has run and `check_swap` is over, an
  `alloc_page()` that finds no page calls `swap_out` without an `mm_struct`
  (`mm/pmm.c:172`, with `check_mm_struct` NULL) and follows a null pointer. So the
  callers' -E_NO_MEM for single pages is answered only while swapping is off; `FaultsResolved`
  counts "no memory" among the panics that can happen, and `ForkFails` of `Files`,
  as the failures in `Kmalloc`, follow the interface and not this.
* *A fault stops the kernel.* A process that touches what it must not makes `trap_dispatch`
  panic, before the `do_exit(-E_KILLED)` behind it (`trap/trap.c:210-211`), and a program
  file whose segment begins in a gap and reaches into another fails the assertion of
  `check_vma_overlap` (`mm/vmm.c:108`), for `mm_map` looks only at the first page. `FaultsResolved`
  allows both.
* *Fresh pages are not cleared.* `pgdir_alloc_page` hands out a frame as its last owner left it
  (`Junk`); for pages of the stack `load_icode` and `do_pgfault` do so too, and a
  segment without anything from the file (`p_filesz` 0) is passed over, unmapped.
* *Starvation.* With the priority unset each pick adds `BIG_STRIDE`, the most the
  comparison can bear. A process that sleeps keeps its stride while the others' move
  on, and a new one starts at 0; once it is out of reach the comparison is
  circular, what is picked is no longer "the minimum value of stride"
  (`schedule/default_sched.c:96-97`), and two processes that sleep in turn can keep
  a third from the CPU for ever. This is why `PicksLeast` and `RunnableRuns` speak
  of `steady` behaviours: without it TLC finds the starvation, and the liveness of `Proc` allows
  for it. A chain of forks
  does the same, and a priority above `BIG_STRIDE` moves a stride by 0.
* *Size without blocks.* `sfs_io_nolock` sets the size even when the first block of a
  write is not to be had (`fs/sfs/sfs_inode.c:637-642`): a write behind the end on a
  full disk makes the file as long as its offset, with no blocks. `ReadsContent`
  holds up to the first such write (`outgrown`), and says nothing of what is read after it.
* *A block count that is lost.* `sfs_bmap_load_nolock` raises `blocks` without
  marking the inode dirty (line 365), against `fs/sfs/sfs.h:72` ("true if inode
  modified"): reclaimed and loaded again, the inode has a block more than it counts.
* Both lead to assertions that legal calls can reach: `index <= din->blocks` (line
  356) and `tblks == din->blocks` (line 935). So do "index out of range" (line 286),
  for `SFS_MAX_FILE_SIZE` is more than an inode can address, and the limit on
  references in `inode_check` (`fs/vfs/inode.c:114`). `AssertionsHold` allows these four
  (`ReachablePanics`) and shows that the others never fail.
* `vfs_open` with O_CREAT and O_EXCL keeps the reference of its lookup when it
  answers -E_EXISTS (`fs/vfs/vfsfile.c:46-47`), and with O_CREAT truncates a file
  opened read-only (line 57).
* `do_fork` goes to `bad_fork_cleanup_kstack` when `copy_mm` fails
  (`process/proc.c:486-487`); nothing goes to `bad_fork_cleanup_fs`. The copied table
  stays, with its references and open counts (`lost` in `Files`). `CountsExact` takes the
  tables left behind for users: it shows that the counts go wrong in no other way.
* `find_order` (`mm/kmalloc.c:215-221`) drops bits: 8193 bytes get two pages. And
  `__kmalloc` passes sizes 4080 to 4087 on to `slob_alloc`, whose assertion (line 100)
  refuses them.

## 4. Proofs

**ProcProof** proves, for every set of processes, every set of killable ones and
every bound on sleeps, that `Spec` implies

* `TypeOK`, `RunQueueExact`, `NoMissedWakeup`, `TimersHaveFrames`, `ParentsAlive`
  as invariants, and `SwitchToRunnable`, `ZombiesOnlyReaped` and `SleepIsFullLength` as
  action properties;
* all from the inductive invariant `IInv` (theorem `Invariant`). What it adds:
  a process sleeps exactly while `wait_state` says for what, which makes
  `wakeup_proc`'s test of `state` and the callers' tests of `wait_state` agree;
  which `pc` goes with which state and wait state, so that a step knows what its
  process is; only live processes have parents other than idleproc; nobody is its
  own parent and initproc stays the child of idleproc (`ParentsAreOthers`). The step has a lemma for
  each action, and the operators of `Sched` a lemma for what they preserve.

`ZombiesOnlyReaped` includes that no zombie is freed while the CPU still runs on its stack:
the parent that frees it is `current`, and `ParentsAreOthers` says that nobody is its own parent.

Its second part is about `Killed`: `OnTheWayOut` (theorem `KilledLeave`). Who was killed in its sleep is
flagged, runnable, and behind the `schedule()` of its wait or in the end of the trap, until it
exits. `IInv`, and that only `current` is in front of a `schedule()` (`BeforeSwitch`), show that the
kill finds it there (`KillStarts`), and each action leaves it there or lets it exit
(`LeavingKept`). So what is left to liveness in `KilledSleepersDie` is that the CPU goes on.

Its third part proves `AllReapedAtEnd`, with one more invariant: from every set of user
processes a parent leads out of the set (`Rooted`), so there is no circle of
processes that are each other's ancestors and out of initproc's reach. A process without
children whose parent is given another is what a step changes; the step lemmas of the
first part do the rest. With it, every safety property of `proc_safety` is proved.

**SemProof** has two parts. The first is about the operations of `Sem`, whoever calls
them: `SemInv` (types, an exact run queue, so that a switch only goes to who is
runnable, and `PointsMatchWaits`: `pc`, wait state and wakeup flags agree with the wait
queues) is kept by each of `CallUp`, `CallDown`, `CallTryDown`, `CallSleep`, `DownReturn`,
`SleepReturn`, the timer, the tick and `schedule()`. The second proves, for any clients, any
semaphores and any initial values, the four properties of `sem_safety`:
`WaitersAreQueued` and `DownSucceeds` as invariants, `FirstComeFirstServed` as an action
property, and `CountsUnits`, the refinement of `SemSpec`. Its invariant `ClientsInv` is
`SemInv` with the program points of the clients. The refinement counts what is granted and not taken
(`Granted`): each step moves one process in or out of a finite set, so the proof is
about cardinalities.

**CheckSyncProof** takes the first part of `SemProof` for the philosophers with
semaphores and proves `NeighboursExclude` for every N > 1 and every number of meals. The
array `state_sema` alone is not enough, for a philosopher is marked EATING by a neighbour
long before, and has its forks only after `down(&s[i])`. `SyncInv` says how the two go
together: no two neighbours are marked EATING; who is marked is trying or has its
forks, and who has its forks is marked (`DeclaresRight`); there is at most one unit for
it to eat on, in `s[i]` or handed over to it in its `down`, and only while it is marked and
has not started (`UnitForEating`), so that a permit is never left over from an earlier
meal. The mutex plays no part in this proof: no thread is switched away in the middle of
`phi_test_sema`, which is one step.

**CheckMonitorProof** does so for the monitor: `OneInside`, `CountsExact` and
`NeighboursExclude`. The right to be inside is a token (`Token`): it is the unit of exactly one
semaphore, or one thread has it, inside or on its way back from a `down` that it was
handed to. Each up and down moves it. From there `next_count` counts the signallers in
`cond_signal`, and none is left when the mutex is free (`NextCountInv`); the count of
a condition variable is 1 while its only user is in `cond_wait`; and
exclusion of neighbours is that of the array, which only the thread inside writes
(`EatersApart`).

**StdinProof** proves all three properties of `stdin`, for any readers, any size of the
ring and any number of keys: `NoReaderMissesInput` and `WaitsHaveFrames` from the
invariant `StdinInv`, which says that a sleeping reader is on the wait queue, that whoever
is on it is between `wait_current_set` and `wait_current_del`, and that a process before
its `schedule()` is the one that runs; and `RingIsQueue`, the refinement of `StdinSpec`. For the latter, two
positions less than `STDIN_BUFSIZE` apart have different slots, and two exactly so
far apart share one (`SlotsApart`, `SlotsMeet`): a key disturbs no character
that waits except, in a full ring, the oldest (`KeyTypes`), and a read takes a prefix
(`LoopReads`). wait_current_del is `RemoveFirst` of the community modules, with the lemma
`QueueWithout`.

The invariants `SyncInv`, `MonitorInv` and `StdinInv` were checked with TLC on instances of
the size of the runs before they were proved.

**KmallocProof** has two parts, for any number of pages, any usable areas and whatever the heap
and the others ask for and give back, in parts or whole.

The first is about the page allocator: `BlocksMaximal`, and `FirstFit`, the
refinement of `PageSpec`. The invariant `PmmInv` says, besides, that a page is free or in
one run of a caller (`HeldApart`), and that of the pages given out only the first of a run
can hold a stale property (`StaleInFront`): a page given back behind it would otherwise
look like the first of a block. `HeapRuns` says that the heap still has the pages of each
big block, so that kfree gives back what is its own. The lemmas go in three layers: sets
of pages (`TakeFront`, `PutBackHeads`, `PutBackRuns`: what becomes of the maximal runs when the front of
one is taken, or pages are put back between two), ordered lists (`CutRun`, `PutRun`), and what
the two functions do to both (`AllocIs`, `FreeIs`).

The second proves `HeapExact`, for any `SLOB_UNIT` that divides `PAGE_SIZE` and any sizes. The
inductive invariant `HeapInv` stands on the first part. `HeapParts` says that the ring is
ordered, and that the units of the free blocks and those of the blocks given out are
apart and make up the heap's pages; that these pages are its own is `PagesOwn`, and it
takes `HeldApart` to see that a new one overlaps none of them. Each `bigblock_t`, the one that
still waits for its pages included, is one of the blocks given out and belongs to one big block only
(`BigBlocksInUse`, `PendingInUse`): without it, the kfree of a small block, which trusts the
unit in front of the address, might give back a `bigblock_t` in use. `Ordered` says
locally what the ring is: each block links the next higher one, or the arena if it is the
last (`Follows`), and ends before the next one begins.

* Both loops walk around the ring with no bound but the ring itself. `AroundAll` shows that as many
  steps as there are blocks visit each of them: a step raises the rank of a block among
  the addresses by one, or leads from the highest rank to the lowest (`RankNext`). So
  a search that fails has seen everything, and `slob_free` finds a place (`PrecedesSome`:
  the highest block below the new one will do); any block its test accepts is that one
  (`PrecedesIs`), wherever the search starts, because the new block overlaps no free one.
* `DropKeepsOrder`, `SplitKeepsOrder`, `PlacedJoins` and `PlacedAlone` show that unlinking,
  splitting, and inserting with and without joins keep the order, and leave
  nothing that touches. `TakenKeeps` and `GivenKeeps` say what becomes of the free units.
* A page put into the ring is found by the search that asked for it (`PageKeeps`), as
  `__kmalloc` asks for no more than a page holds (`PageUnitsIs`, which is where
  the assertion of `slob_alloc` is needed); the second walk never asks for another page.

TLC checked `PmmInv` and `HeapInv` on the instance of `memory`.

**PidAllocProof** proves for every `MAX_PID > MAX_PROCESS > 1` that `Spec` implies
`Unique` and `NextFree`, from an inductive invariant (`Invariant`) that says which
part of the list the window has been checked against at each point of the walk:
all of it outside of `get_pid`, the pids passed so far during the walk, nothing
when it starts again.

**StrideProof** proves for every `BIG_STRIDE` that as long as all strides are within
`BIG_STRIDE` of one of them, the signed comparison is the order by distance from that one
(`OrderedByAhead`), and that moving the least one on by `BIG_STRIDE` over any priority
keeps them so (`PickKeepsTogether`): what a schedule of processes that do not sleep does
is fair however often the strides wrap. The argument goes by the two cases of a
remainder, below and above one turn (`AheadCases`, `AdvancedBy`).

The assumptions are the named ASSUMEs of the modules: idleproc and initproc are
two different processes, finitely many clients of semaphores, which start at natural numbers
(`ClientsAssumption`), get_pid's own static assertion, and usable areas that consist of
pages (`PageAssumption`).

Only model-checked: liveness (out of the prover's reach): `SleepersWake`, `InitFinishes`,
`KilledSleepersDie`, `AllDine`, `Returns`, `RunnableRuns`; what uses recursive
operators (`Timers`, `SkewHeap`, `Schedule`, with `RunPoolExact`, `PicksLeast` and
`Countdowns`); the files and the address spaces with their refinements
(`BlocksAccounted`, `CountsExact` of `Files`, `AssertionsHold`, `ReadsContent`,
`FramesAccounted`, `FaultsResolved`, `SwapKeepsPages`, `MemoryIsPrivate`): their loops over
blocks, descriptors, pages and vmas are folds, and an invariant of a fold needs an induction
over its sequence or set with the loop body as a parameter, which the provers can not
instantiate.

## 5. Not modelled, or not yet

* The composition of processes with their memory and files: `do_fork`, `do_execve` and `do_exit`
  are modelled with their effect on the process tree and the scheduler in `Proc`, on
  descriptors in `Files` and on memory in `Vmm`, each with the others left out.
  Kernel stacks are not taken from the frames of `Vmm`. `put_fs` in `do_exit` may block on a file system semaphore while the
  process is still runnable; this is the same to the others as a process that has
  not exited yet.
* PROC_UNINIT exists only inside `do_fork`, before the child can be found.
* Directories (`sfs_lookup` and friends only read them), path lookup, the working
  directory, devices as files, mounting, `sfs_sync`; the transfer of blocks to the
  disk. The semaphores of the file system are never contended, since no holder
  sleeps.
* Memory shared by threads (CLONE_VM), `mm_count`, the lock `mm_sem` and `mmap_cache`: no two
  processes of this kernel share an `mm_struct`, and no vma of a living one changes. The
  clock and other replacement policies are exercises; this kernel has the FIFO.
* Interrupt controllers, the console driver, IDE, boot code, the kernel monitor,
  printing, string and number libraries: hardware access or straight-line code.
* User programs are the environment.

## 6. Plan

Order of work, most important first; the first block is done.

1. Scheduler core, processes, timers, pids, semaphores, monitors, philosophers,
   console input, first-fit pages: done.
2. `Schedule` with strides, heap and time slices; `Sfs`, `Files`; `Kmalloc` on
   the page allocator; the arithmetic of strides and the semaphores proved: done.
3. `Paging` and `Vmm`: frames, tables, vmas, page faults, FIFO swapping, programs loaded and
   processes forked on them; the semaphores, the family tree, both philosophers, the monitor,
   the console input, the page allocator and the kernel heap proved: done.
4. Directories and lookup in `Sfs`, the working directory in `Files`.
5. The memory that `do_fork` has taken when each of its steps fails.

Theorems worth proving next: the frames of `Vmm` (`FramesAccounted`) and the blocks of
`Files` (`BlocksAccounted`). Both models build their operations with folds over
operators, which would have to be unrolled step by step first.
