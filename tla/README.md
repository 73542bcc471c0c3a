# vmtop in TLA+

vmtop is a single-threaded C program that shows, every few seconds, what the
virtual machines of a host do: it reads pid files, `/proc`, debugfs and resctrl,
takes the difference to the last sample, and draws a table with curses. This
directory holds TLA+ modules translated from its source, the TLC
configurations that check them on small instances, and theorems about them
that TLAPS checks for every value of the constants.

Paths below are relative to the root of the repository (`src/domain.c`,
`doc/FAQ`).

## 1. Inventory

### Components

| Component | Source | State it keeps | Operations |
|---|---|---|---|
| Sampling of domains and threads | `src/domain.c`, `proc.c`, `vcpu_stat.c`, `type.h` | `scr_cur`, `scr_pre` (lists of `struct domain`, each with a `threads` array), `vcpu_list`, `monitor_id` | `refresh_domains`: `get_vcpu_list`, `get_qemu_id`, `set_domain`, `get_proc_stat`, `get_child_pid`, `get_vcpu_stat`, `refresh_threads` and the delta functions |
| Memory of the domain lists | `src/domain.c` | heap blocks of the lists and of the `threads` arrays, `DIR` and `FILE` handles | `init_domains`, `clear_domains`, `add_domains`, `pop_domains`, the error paths |
| Bandwidth of NUMA nodes | `src/resctrl.c`, `src/domain.c:319-379` | `node_num`, `bandwidth[]`, `ctl_bandwidth[]`, `bandwidth_updated_succ`, `sample_times_*` | `get_numa_num`, `get_mon_MB`, `get_vm_ctl_path`, `refresh_domains_bandwidth`, `calculate_all_bandwidth` |
| Screen, scrolling, field filter | `src/vmtop.c`, `field.c` | `begin_task`, `begin_field`, `showd_task`, `thread_mode`, screen size, the `display_flag` of every field | `show_header`, `show_task`, `show_domains`, `show_filter`, `parse_keys`, `get_show_field_num` |
| Main loop, options, timing | `src/vmtop.c`, `utils.c` | `delay_time`, `display_loop`, `quit_flag`, `scr_mode`, `resctrl_*` | `init_parameter`, `parse_args`, `main` |
| Numeric conversion | `src/utils.c`, `vmtop.c` | none | `str_to_int`, `justify_usage`, the usage formulas, the products with `delay_time` |
| Field tables, time stamp, texts, build files | `field.h`, `utils.c`, `vmtop.h`, `configure.ac` | constant data | output only |

### How they interact

`main` runs one loop: `refresh_domains(&scr_cur, &scr_pre)`, then
`refresh_domains_bandwidth` if resctrl is there and asked for, then the summary,
the header and the tasks are printed from `scr_cur`, then a key is awaited for
at most `delay_time` (or the loop sleeps, in text mode). Everything is a plain
call in one thread, and the globals are shared by all parts: `parse_keys`
changes what the next frame shows, the sampler replaces `scr_cur` under the
scroll position that was chosen for the last one.

The concurrency is on the other side. qemu starts and ends threads, libvirt
starts and stops guests, and the kernel reuses thread ids *between any two
reads* of one refresh. A sample is therefore never a snapshot: the vCPU exits,
the list of pid files, the stat of a process, its task directory and the stat
of each task come from different moments.

### Hard behaviours, and what makes a component correct

- **Sampling.** The `threads` array is allocated for a thread count that was read
  earlier than the directory that fills it; threads end between `readdir` and
  the open of their stat; tids are reused; pid files outlive their process; a
  refresh may fail as a whole. Correct means: no access outside an array; every
  guest and thread that was there throughout is shown, nothing dead is;
  a delta is taken only against the same thread of the same guest in the last
  sample, and is what the counter grew in between; every refresh ends.
- **Memory.** Three lists share two arrays; a dropped domain may own a `threads`
  array. Correct means: nothing is freed twice or used after free, and a
  long run does not accumulate blocks or handles.
- **Bandwidth.** Readings fail for single nodes and single rounds, sums and
  counts of samples must match, host and guests are sampled at different
  times. Correct means: an average over the samples that were taken, from the
  control group of that very guest, and a host total of at least the guests' sum.
- **Screen.** Scroll positions are kept while the lists they index change.
  Correct means: a position stays within what is there, paging and scrolling
  pass everything, nothing is drawn past the screen, a field is shown as the
  filter was told.
- **Main loop.** A key, a timeout, `-n` and `q` end a round in different ways.
  Correct means: `-n k` shows k samples, the interval that usages are divided
  by is the interval that passed, quitting works.
- **Usages.** The columns of a row come from two sets of counters, in two units,
  read at different moments, and all are divided by the same delay. Correct
  means: they fit each other as far as the times of the reads allow, a domain shows
  what its vCPUs did, and no time is shown that nobody spent.

`PROJECT.json` lists the single hazards under `hazards`, each at its line and
with the properties that watch it, or with the reason why none does.

## 2. Modules

| Module | What it is |
|---|---|
| `Host` | The environment: guests, their threads, counters, pid files. Not code of this repository; every definition is marked external. |
| `Sampling` | One refresh of vmtop against that host: `refresh_domains` and everything it calls. The properties are stated at its end. |
| `SamplingProofs` | Types, array bounds and baselines of `Sampling`, what the host keeps true of guests and threads, and the theorems about which guests a sample shows. |
| `RowProofs` | The rows of a sample: slots, threads, deltas, exits and sums, and the refinement of `Meter`. |
| `SumProofs` | Lemmas about the sum of a function over a finite set, for the four components that add up. |
| `Bandwidth` | What follows a refresh when resctrl is used: `refresh_domains_bandwidth` and everything it calls. |
| `MCBandwidth` | Instance for TLC: two ids of which one begins the other. |
| `BandwidthProofs` | Inductive invariants and the theorems about averages, totals and types. |
| `Meter` | What a sample promises, without how it is taken: all readings at once, each with its growth. |
| `SamplingMeter` | The refinement mapping by which `Sampling` implements `Meter`. |
| `MCSampling` | Instance of `Sampling` and the mapping for TLC: symmetry sets and the value -1 of `MonitorId`. |
| `Screen` | Frames, scroll positions, keys and the field filter. |
| `MCScreen` | Instance for TLC: lists, the widths of `field.c` and sets of keys. |
| `ScreenProofs` | Inductive invariants and the theorems about frames, scrolling and the filter. |
| `MainLoop` | The process: options, samples, the wait between them, and how it ends. |
| `MCMainLoop` | Instance for TLC: numbers within and beyond ints of five bits. |
| `MainLoopProofs` | Inductive invariant and the theorems about numbers, samples, intervals and `q`. |
| `Usage` | From counters to the percentages that are shown. |
| `MCUsage` | Instance for TLC. |
| `UsageProofs` | Arithmetic of percentages, inductive invariant and the theorems about what is shown. |
| `Lists` | Who owns which block and which directory stream of the domain lists. |
| `MCLists` | Instance for TLC. |
| `ListsProofs` | Inductive invariant and the theorems about ownership and leaks. |

`Bandwidth` meets `Sampling` in one place: its action `RefreshDomains` stands for a
whole refresh, of which only the result matters here, a fresh list of zeroed domains
with arbitrary ids. `Screen` sees of a refresh the lengths of the lists it leaves,
`MainLoop` that it happened. `Usage` takes up what `Sampling` leaves out, the
several counters that one column is made of, and `Lists` what a `Dom` of `Sampling`
is made of in memory.

### Host

| Variable | Meaning |
|---|---|
| `owner[t]`, `life[t]`, `vcpu[t]` | the guest whose process has thread `t`, which incarnation of the tid it is, whether its comm contains "CPU" |
| `work[t]`, `total[g]` | counters of a thread and of a process; a process keeps what its exited threads did |
| `leader[g]`, `gid[g]` | pid and libvirt id of a running guest; a new id for every start |
| `pidfile[g]` | content of the pid file; stays when the guest ends, until `RemovePidFile` |
| `moves`, `starts` | the bound of the model, and the clock that numbers incarnations |

Actions: `StartGuest`, `StartThread`, `ExitThread`, `ExitGuest`, `RemovePidFile`,
`Work`. One unit of work is one tick of `utime` and one KVM exit; a thread that
is no vCPU does not show exits, so the two need no separate counters.

### Sampling

| Variable | Code |
|---|---|
| `now`, `pre` | `scr_cur.domains`, `scr_pre.domains` up to `num`; a `Dom` has its `threads` array as a sequence of `Row` |
| `vcpu_list` | `vcpu_list.domains`: the exits per tid |
| `names`, `file` | the `DIR` of `/var/run/libvirt/qemu`: what `readdir` has still to return; the file being worked on |
| `dir`, `tasks`, `slot` | the `DIR` of `/proc/<pid>/task`: the process it was opened for, the tids still to come, and `i` (from 1) |
| `di`, `ti` | `i` of the loops in `refresh_domains` and `refresh_threads` |
| `pc` | which read comes next; `"idle"` is the time between two refreshes, when `now` is on the screen |
| `mark`, `scanned`, and the fields `life`, `vlife`, `grew`, `since` | history: no action reads them to decide anything |

| `pc` | Actions | Code |
|---|---|---|
| `idle` | `ReadVcpuList`, `VcpuListFails` (both with `Rotate`) | `domain.c:296-303`, `vcpu_stat.c:92-124` |
| `rundir` | `OpenRunDir`, `RunDirFails` | `domain.c:243-251` |
| `files` | `AddDomain`, `SkipPidFile`, `CloseRunDir` | `domain.c:252-272`, `set_domain` up to line 212 |
| `stat` | `ReadDomainStat`, `DomainStatFails` | `proc.c:30-85` |
| `opentask` | `OpenTaskDir`, `TaskDirFails` | `domain.c:142-157` |
| `list` | `ListTasks` | the first `readdir` of line 159 |
| `tasks` | `ReadVcpu`, `ReadThread`, `LoseThread`, `EndTasks` | `domain.c:159-185`, 218-224 |
| `deltas` | `SkipNewDomain`, `RefreshDomain`, `SkipNewThread`, `RefreshThread`, `EndThreads`, `Return` | `domain.c:275-316` |

Every failure that can follow from what the host does is a disjunct: the file is
gone, the process is gone, the directory is empty. `VcpuListFails` and
`RunDirFails` are possible at any refresh.

**Granularity and abstraction.**

- An action is one read and what the code does until the next. Two reads are
  merged: pid file and cgroup (`AddDomain`, `SkipPidFile`). Between them the
  process may only end (then the cgroup read fails, as it would had the process
  ended before) or its pid may be taken over (as it could have been before the
  read of the pid file); no other outcome arises.
- `vcpu_stat` is read at one moment, its lines are in the order in which the
  vCPUs were created, and at most `MaxVcpus` (`MAX_VCPU_NUM`) are kept.
- The kernel fills a `getdents` buffer in one go: `ListTasks` takes the tids in
  creation order, at a moment after `opendir`. Likewise the names of the pid
  files, in any order.
- Of the fields of `struct domain` those are kept that decide something:
  `domain_id`, `pid`, `type`, `nlwp`, `smp_vcpus`, `threads`, `vmname`, and one
  counter with its delta for each of the two delta functions (`utime` for the
  `/proc` counters, `exits` for the ones of `vcpu_stat`). The other counters go
  through the same macros.
- A zombie (`nlwp` 0, `domain.c:149`) is covered by `TaskDirFails`.
- A failing `malloc` is in `Lists`; `st_max` and the fields that are only printed
  are left out.

### Meter and SamplingMeter

`Meter` has one variable, `shown`: a set of readings, each of a guest and perhaps
one of its threads, with a counter and its growth. Its one action `Sample` replaces
them all; the growth of a reading is that since the reading that was shown for the
same guest and tid, 0 if there was none, and the old growth once more if the counter
went back, which it may only if it is another thread's. `SamplingMeter` maps `shown`
to the readings of `now` between two refreshes and of `pre` during one (`OnScreen`):
so the twenty actions of a refresh, its failures included, implement one step of the
meter or a stutter, and `Rotate` is one. Guests that are entered twice, because two
pid files name one process, are told apart by `Entry`; the code compares both with
the first.

### Screen

| Variable | Code |
|---|---|
| `mode` | `"loop"` before a turn of `main`'s loop, `"shown"` in `getch`, `"filter"` in `show_filter`, `"done"` after `q` |
| `nlwp` | `scr_cur.domains` with the thread count of each |
| `node_num`, `resctrl_enable`, `scr_row_size`, `scr_col_size` | the globals; `node_num` keeps its value while bandwidth is off |
| `begin_task`, `begin_field`, `thread_mode` | the scroll position and `H` |
| `display_flag`, `high_light` | of `fields[]`; the bar of the filter |
| `frame`, `key`, `chosen` | history: the tasks and the size of the latest frame, what ended the wait, what the filter was told |

| `mode` | Actions | Code |
|---|---|---|
| `loop` | `MakeFrame` | `vmtop.c:554-568` with `summary`, `show_header`, `show_domains` |
| `shown` | `KeyUp`, `KeyDown`, `KeyNpage`, `KeyPpage`, `KeyLeft`, `KeyRight`, `KeyThreads`, `KeyQuit`, `KeyFilter`, `Timeout` | `parse_keys` |
| `filter` | `FilterUp`, `FilterDown`, `FilterToggle`, `FilterQuit` | `show_filter` |

What a sample finds, and the height and width of the terminal, are arbitrary in every
frame: that is what the scroll position has to survive. The lines of a text depend on
the width (`LinesOf`): `TopLines` counts those above the first task, where the first
line of the summary has `Title` characters, the second the number of domains, and the
lines of the bandwidth numbers of `BandDigits` digits. `Columns` are the columns of a
header or task line, which ends where it is full. `Cell` is the place of a field
in the list of the filter: the list begins at the line that `getyx` finds below the
help (`FirstLine`), whose second line wraps in a terminal of up to 75 characters, and is
never held against the width; `Listed` says whether an entry is on the screen
with its whole name. The table of fields keeps its order and its first two fields, and
has fewer fields between them and the nodes in the runs.

### MainLoop

| Variable | Code |
|---|---|
| `phase` | `"init"`, `"args"` in `parse_args`, `"sample"` before `refresh_domains`, `"bandwidth"` in `refresh_domains_bandwidth`, `"wait"` in `getch` or `usleep`, `"filter"`, `"turn"` at the end of the loop, `"exit"` |
| `delay_time`, `display_loop`, `scr_mode`, `thread_mode`, `monitor_id`, `resctrl_param_enable`, `quit_flag` | the globals |
| `timeout` | the argument of `wtimeout` |
| `elapsed` | the time since the counters of the latest sample were read, in microseconds of which `Micro` are a second |
| `sleep` | how long the latest sample sleeps for the bandwidth (`Sleeps`) |
| `status` | the exit status |
| `frames`, `told`, `ended` | history: samples shown, arguments given, what ended the latest wait |

| Action | Code |
|---|---|
| `Allocated` | `vmtop.c:540-543` |
| `OptDelay`, `OptNumber`, `OptMonitor`, `OptThreads`, `OptText`, `OptResctrl`, `OptExit` | a turn of the loop of `parse_args`, with `str_to_int` |
| `EndArgs` | `vmtop.c:544-552` |
| `Sample`, `Show` | `vmtop.c:554-568`: the counters are read, and the sample is shown |
| `Tick`, `Timeout`, `Key`, `FilterQuit` | the sleeps of `domain.c:370`, 374 and `resctrl.c:106`, and the wait, `vmtop.c:570-578` |
| `Turn` | `vmtop.c:580-583` |

An `int` has the values `Int32`, and the product of two wraps (`Wrap`): signed
overflow, which C leaves undefined, is what the multiplication of the processor
makes of it. A text that is no number is a number out of range, to which
`str_to_int` answers the same. Of the time that a sample takes only what it sleeps is
counted: `Outer` for the rounds of `refresh_domains_bandwidth`, and `Inner` for each
`get_mon_MB` that can open its files, of which the model has up to `MaxCalls`. The
time of the reads themselves is not.

### Usage

| Variable | Code |
|---|---|
| `counter`, `total` | what the kernel counts of the vCPU threads (user, system, guest) and of their process |
| `life`, `ticks` | which thread has the tid; the clock, in the unit of `vcpu_stat` |
| `pc` | which read comes next; `"vcpu_list"` is the time between two samples |
| `vcpu_list` | the global: the counters of `vcpu_stat` |
| `now`, `left` | what the sample has read from `/proc` so far, and the threads to come |
| `rows`, `dom` | the table: `stat` and `vcpu` are the counters of `/proc` and of `vcpu_stat`, `dstat` and `dvcpu` their `delta_` fields, `sum` those that `sum_vcpu_stat` adds up |
| `delay_time` | the global |
| `samples`, `begun`, `taken`, and the fields `at`, `was`, `listed`, `stays` | history: how many samples there were, and when and of which threads the counters were read |

| `pc` | Actions | Code |
|---|---|---|
| any | `Tick`, `Replace` | the host |
| `vcpu_list` | `GetVcpuList` | `vcpu_stat.c:92-124` |
| `domain` | `SetDomain` | `get_proc_stat` for the process, `proc.c:30-85` |
| `threads` | `GetThread`, once for each thread | `get_proc_stat` for the thread |
| `threads` | `RefreshDeltas` | `domain.c:275-316` with the delta and sum macros |

`%CPU` is of the `utime` and `stime` of `/proc`: whole jiffies, of `Jiffy` ticks each,
read for the process and for each thread at a moment of its own. `%GUE` and `%HYP`
are of `vcpu_stat`, in ticks, read for all vCPUs at once before that. The host goes
on between any two of these reads. `Percent` takes the length of a second in the unit
of its counter, `ClkTck` (`vmtop.c:218`) or `Second` (10^9, `vmtop.c:285`, 293).
`Cpu`, `Gue`, `Hyp` (for a vCPU) and `DomCpu`, `DomGue`, `DomHyp` (for the domain) are what
`print_domain_field` prints. Arithmetic is that of u64, modulo `U64`; a `double` is
a percentage without decimals, `NaN` or `Inf`. `%ST` goes the same way as `%GUE`. No
property is about `DomCpu`: it is of the whole process and cut to 100 for each vCPU, so
that what the other threads of a process use may not be seen.

### Lists

| Variable | Code |
|---|---|
| `heap`, `cell` | the allocated blocks, and the `threads` pointers in a block of domains |
| `now`, `pre` | `scr_cur` and `scr_pre`: `domains` and `num` |
| `files`, `rundir`, `taskdirs` | pid files still to come, and the open `DIR`s of `get_qemu_id` and `get_child_pid` |
| `pc` | `"vcpus"`, `"files"`, `"domain"` in `set_domain`, `"tasks"` in the loop of `get_child_pid`, `"deltas"`, `"idle"` |
| `lost`, `lostdirs`, `fault` | history: what was left behind, and whether a block was freed that was not allocated |

| Action | Code |
|---|---|
| `Rotate` | `domain.c:296-299`, `clear_domains` |
| `NothingRead`, `OpenRunDir` | `domain.c:301-303`, 243-251 |
| `NextFile`, `NoMemory` | `add_domains` and `domain.c:262-266` |
| `SetDomainFails`, `NoThreads`, `ThreadsFail`, `OpenTaskDir` | `set_domain` up to the end of its `malloc` in `get_child_pid` |
| `EndTasks`, `NameTooLong` | `closedir`, and the last test of `set_domain` |
| `CloseRunDir`, `Deltas` | the end of `get_qemu_id`, and the loops of `refresh_domains` |

`malloc` returns any free block or fails. What is freed is emptied, so that a
pointer that is followed into it cannot pass for a good one.

### Bandwidth

| Variable | Code |
|---|---|
| `domains` | `scr_cur.domains`, the fields `domain_id`, `ctl_bandwidth`, `bandwidth_updated_succ` |
| `node_num`, `bandwidth` | of `scr_cur`; `node_num` survives a refresh, `bandwidth` is zeroed by it |
| `sample_times_vms`, `sample_times_host`, `r`, `i` | the locals of `refresh_domains_bandwidth` (`r` and `i` from 1) |
| `pc` | `"sampled"` after `refresh_domains`, `"vms"` and `"host"` in a round, `"average"` before `calculate_all_bandwidth`, `"idle"` while the frame is shown |
| `root`, and the fields `series` and `from` | history: number and sums of the complete samples, whether one stopped half way, the groups that were read |

| Action | Code |
|---|---|
| `RefreshDomains` | `refresh_domains`, as seen from here |
| `NoResctrl` | `vmtop.c:560`: no `-G`, or no resctrl |
| `NumaFails`, `GetNumaNum` | `get_numa_num`, `domain.c:356-358` |
| `NoGroup`, `SampleVm`, `EndVms` | `domain.c:362-367` with `get_vm_ctl_bandwidth` and `get_mon_MB` |
| `SampleHost` | `domain.c:369-374`, `get_root_mon_bandwidth` |
| `CalculateAllBandwidth` | `domain.c:319-348` |

One `get_mon_MB` is one action: the readings of its nodes are independent of
each other and of everything else, so nothing is gained by interleaving them. A
node file that cannot be opened ends the call before anything is added, exactly
as a missing reading of node 0 does, and is modelled as that. Of the two inner
readings (`SAMPLE_TIMES_INNER`) the first is discarded by the code. The sum of
the guests is an `unsigned int`: `UintSize` is its range, and 2 in the runs, so
that it wraps.

## 3. Runs

All with two workers; state counts are distinct states after symmetry.

| Run | Instance | Checks |
|---|---|---|
| `threads` | 1 guest, 3 tids, 5 moves; 658,000 states | `TypeOK`, `InBounds`, `UtimeExact`, `ExitsExact`, `DomainSum`, `ThreadSlots`, `ThreadsComplete`, `ImplementsMeter` |
| `guests` | 2 guests, 2 tids, 5 moves; 1.3 million states | `DeltaNeedsBaseline`, `GuestsComplete`, `ShownGuestsLive`, `ImplementsMeter` |
| `options` | 2 guests, 2 tids, 5 moves, `-p 2`, one name too long, no symmetry; 168,000 states | `GuestsComplete`, `OnlyAsked`, `RefreshReturns` |
| `marked` | as `threads` | `ThreadRowsMarked`, which fails |
| `bandwidth` | up to 2 domains with ids 3 and 30, 2 nodes, 2 rounds, readings 1, 2 or none; 471,000 states | `TypeOK`, `AverageExact`, `HostCoversGuests`, `SummaryAddsUp` |
| `average` | as `bandwidth` | `AverageAlways`, which fails |
| `group` | as `bandwidth` | `OwnGroup`, which fails |
| `scroll` | lists of 0 to 9 tasks, screens of 5, 6 and 8 rows and of 30 and 40 characters, with and without bandwidth; 61,000 states | `FrameFits`, `PagingCovers`, `ScrollFindsTasks` |
| `fields` | 5 fields of which one is a node, 8 and 11 rows, 35 characters; 2.4 million states | `TypeOK`, `FilterHolds`, `FilterCells`, `ColumnsPassed`, `LeftFindsColumn` |
| `loop` | all options, 8 numbers, 5-bit ints; 1.2 million states | `TypeOK`, `AsTold`, `ShowsAsked`, `QuitStops`, `IntervalExact`, `Ends` |
| `usage` | 2 vCPUs, delays 1 and 2, jiffies of 2 ticks, 3 ticks, 2 samples; 3.3 million states | `TypeOK`, `HypIsRest`, `DomainShowsVcpus` |
| `lists` | 6 blocks, 3 pid files; 3,800 states | `TypeOK`, `Owned`, `FreesOnce`, `Accounted` |

What the passing runs show:

- `threads`: however threads come and go during a refresh, the array is never
  overrun (`InBounds`), is filled from the front with each tid once
  (`ThreadSlots`), and has a row for every thread that was there at the stat and
  still is (`ThreadsComplete`: the `nlwp` slots suffice because `readdir` returns
  threads in creation order, and a slot is given up only by a thread that is
  gone). The delta of a row is exactly what that thread did between its two
  reads (`UtimeExact`, `ExitsExact`), and the domain's exits are the sum of its
  vCPUs' (`DomainSum`), failed refreshes included.
- `guests`: with guests that start, end and take each other's pids, and stale pid
  files, a running guest is not lost because of others (`GuestsComplete`), a
  dead one is not shown (`ShownGuestsLive`), and no delta has a foreign or a
  missing base (`DeltaNeedsBaseline`).
- `options`: `-p` shows that guest and only it, and a domain that is dropped at
  the last moment, for its name, leaves no trace. Every refresh ends
  (`RefreshReturns`).
- `bandwidth`: whichever rounds fail for whichever domain, a row shows the average of
  the samples that were complete (`AverageExact`), and the summary shows the root's
  average plus the rows, each once (`SummaryAddsUp`). Since it adds the rows to the root's
  value, the total covers them even where samples stopped half way
  (`HostCoversGuests`), and the repair at `domain.c:343-346`, which would be wrong once
  the unsigned sum wraps, is never needed.
- `threads`, `guests` (`ImplementsMeter`): nothing of a refresh can be seen before it is over, and
  what is then shown is one step of the meter. The step is total: it says of every
  row, of guests that are entered twice and of tids that passed to other threads
  too, what its delta is compared with.
- `scroll`: header and `show_task` agree on the rows of the screen while no
  bandwidth is shown and the first line of the summary does not wrap (`FrameFits`);
  `KEY_NPAGE` leaves out no task (`PagingCovers`); a position beyond the end of a
  list that became shorter is left by `KEY_UP` or `KEY_NPAGE` (`ScrollFindsTasks`).
- `fields`: a field is shown as the filter was told, for as long as vmtop runs
  (`FilterHolds`). Its list stays between the help and the end of the screen, no
  two entries cover each other, and all are on the screen if any number of columns has
  room for them (`FilterCells`). The right end is computed from the number of fields
  that are shown, of which the first two never scroll, and the filter may hide columns
  after the position was chosen: still `KEY_RIGHT` steps over no column that was cut
  off and stops only when none to the right is (`ColumnsPassed`), and from where it
  leads `KEY_LEFT` shows a column that scrolls (`LeftFindsColumn`).
- `loop`: `vmtop` works with the numbers it was given, not with what an int makes of
  them (`AsTold`); `-n k` shows k samples, `-n 0` one, and `q` ends it at once
  (`ShowsAsked`, `QuitStops`). Left alone, and as long as the products fit, the
  counters are read `delay_time` apart, which is what every usage is divided by, and
  with `-G` later by what the sample slept; where a key or an overflow ends a wait
  early, it is never made up for by a longer one (`IntervalExact`). With `-n` it ends,
  also if keys are pressed all the time (`Ends`).
- `usage`: a domain shows its vCPUs' time, once, uncut by the clamp
  (`DomainShowsVcpus`). `%GUE` and `%HYP` add up to `%CPU`, although one is of
  nanoseconds and one of jiffies, read at different moments: the difference is bounded,
  in either direction, by the time between the two reads, the jiffies that are not
  whole, and the time that the sample is late (`HypIsRest`).
- `lists`: over refreshes without end in which any read and any `malloc` may fail,
  every pointer the code follows leads to a block that only it leads to (`Owned`),
  none is freed twice (`FreesOnce`), and whatever is not reachable is one of two
  known leaks (`Accounted`): the threads array of a domain whose name is too long
  (`domain.c:218`), and the `DIR` of a process without threads (`domain.c:149`).

Reservations the properties carry, because the code does not do more:

- `UtimeExact` speaks of rows whose two reads were of one incarnation. A tid taken
  over by a new thread of the same guest is matched by number (`start_time` is read
  and never compared), and a counter that went backwards repeats the old delta
  (`type.h:43-52`).
- `ThreadsComplete` speaks of domains that were entered by their guest's own pid. A
  stale pid file may name a tid that has become a lesser thread of another guest; the
  domain then has that guest's id, and if the tid is reused before its task directory
  is opened, it gets the rows of a third.
- `ExitsExact` speaks of rows whose `vcpu_stat` line was their own. A vCPU beyond
  the `MAX_VCPU_NUM` lines that are kept is a row with zero counters, since
  `get_vcpu_stat` does not report that it found nothing; once it is listed, all its
  exits since it started count as those of one interval. The instance has a place for
  every tid: with `MaxVcpus = 1` the property fails.
- `FrameFits` speaks of frames without bandwidth on screens that are wider than the
  first line of the summary (33 characters in version 1.1): `show_task` allows for a
  header of four lines. The bandwidth of n nodes takes at least n + 1 more, and a
  summary that wraps one more; the tasks at the end are then drawn below the screen.
  `PagingCovers` allows for headers of up to six lines, since a page is two lines
  shorter than the screen; with longer ones `KEY_NPAGE` does step over tasks. Both
  leave out positions below 0, to which only a page key on a screen of fewer than six
  rows leads.
- `FilterHolds` speaks of fields that are no nodes: `show_header` sets the flags of
  the node fields in every frame, whatever the filter was told about them.
- `FilterCells` does not say that every field is on the screen: print_field starts one
  column after the other without looking at the width. With the 49 fields of x86 on 14
  lines of 80 characters the fifth column begins at 83. It also leaves out screens
  without a line below the help. The terminal keeps its size while the filter is shown.
- `ColumnsPassed` and `LeftFindsColumn` speak of screens with room for the fixed columns
  and one more.
- `IntervalExact` only bounds the interval after waits that a key ended, after which
  the usages are divided by a delay that did not pass, and after delays whose product
  with 1000 or 1000000 does not fit its C type (2147483 s in terminal mode, 4294 s in text
  mode). It leaves out the sample after the filter, for which no bound holds, and a
  timeout that became negative, after which only a key helps.
- `HypIsRest` and `DomainShowsVcpus` speak of threads that stayed, and the latter of
  samples that were on time. After a tid passed to another vCPU the three deltas of
  `%HYP` are of two threads, and the u64 difference may wrap, which the clamp shows as
  100. With jiffies of 10 ms and a delay of one second, two counters that are each off
  by less than a jiffy make a slack of two percent in `HypIsRest`.
- `-d 0` is accepted, and an idle task then shows what `printf` makes of 0/0. The
  properties of `Usage` leave it out.
- A directory is listed in one step, so that nothing is said about what `readdir`
  returns of entries that come and go during a scan, nor does `RefreshReturns` speak of
  a directory that grows under it.
- The name of a domain comes from a pid file and its id from the process that has
  the pid by now; if the file outlived its guest these may be two guests. No
  property says that they are one.

### Disagreements

Three statements of the repository do not hold of its code; each has a run in
which TLC finds the counterexample:

- `marked`: threads that end between the stat of their process and the listing
  leave slots of the zeroed array unfilled. Type 0 is `ISDOMAIN`, so in thread
  mode such a slot is printed as a domain with id 0 instead of a thread with
  `|_` (`doc/FAQ:5-11`, 17).
- `average`: `get_mon_MB` adds to the caller's sums as it walks the nodes and gives
  up at the first without a reading. What it added stays, the sample is not
  counted, and the quotient is no average (`domain.c:377`): with readings 1 and 2
  a row may show 3. `AverageExact` is the same statement for domains that had no such
  sample; the last node is never affected.
- `group`: the control group of a domain is the first whose name starts with
  `qemu-<id>`, so guest 3 may be shown what guest 30 does (against the comment at
  `resctrl.c:183-186`; the parameter `vmname` is not used).

### Bounds

- `MaxMoves = 5`: start a guest, start a thread, work, exit, and one more, which is
  a reuse of the tid, a second thread or a second unit of work. The longest
  scenario that any property needs (and that any of the mutants and the
  counterexample need) takes at most five; the number of refreshes is not
  bounded, the host just stops moving.
- Three tids: the leader, and two threads whose order and fate differ. Two guests
  with two tids: a pid taken over by the other guest. `MaxVcpus` is at least
  the number of tids.
- `MonitorId = 2` in `options`: ids are clock values, so it is the second
  start, of either guest; the first start is the guest that is filtered.
- Symmetry: tids, and in `guests` also guests, are only compared for equality;
  `CHOOSE` is not used. `options` uses no symmetry, since it checks a liveness
  property.
- `bandwidth`: two rounds, so that a failure can come before or after a success; two
  nodes, so that a sample can stop half way; readings 1 and 2, whose sum does not
  divide by two; two domains for the sums. `MaxDoms` is far below the 1024 entries
  of `sample_times_vms`: that the list is not longer is taken as given.

- `scroll`: the longest list (3 domains, 9 tasks) needs more than one page on every
  screen, the empty one and one of a single domain make positions stale; 5, 6 and 8
  rows are below, at and above the height at which a page has no lines. `MaxBegin`
  is never reached by keys that are bounded by the list; it bounds negative
  positions.
  Of 30 and 40 characters one is below and one above the length of the title, and
  numbers of 2 and 8 digits make a node's line one line or two.
- `fields`: 35 characters are room for the two fixed fields and one other, they wrap
  the help to seven lines, and eight rows leave one line for the list (five columns, for
  which there is no room), eleven leave four (two columns, which just fit).
- `loop`: `IntMax` is 15, `Milli` 2, `Micro` 4, in the order of the real ones:
  `MCNumbers` has delays that fit both products, only the one of `wtimeout`, and
  neither, and arguments that would be valid if an int cut them. Frames are counted
  up to 6, more than any accepted `-n` that is checked to the end; `MaxTime` is
  longer than every wait, and stops the clock in the filter. Without `-n` the loop goes
  on, with its frames no longer counted. With `-G` a sample sleeps for nothing, one tick
  or two.
- `usage`: a second is one jiffy of two ticks, so that with three ticks a sample with
  delay 1 may be late and one with delay 2 may not, and a thread may work for a time
  that is no whole number of jiffies, before, between and after its two reads. Two
  samples are one delta; one tid may be taken over. Stale deltas that are not 0 need a
  third sample: no property speaks of them but for the type, and the theorems are for any
  number of samples.
- `lists`: two lists, each with an array and the threads of up to three domains,
  compete for six blocks, so that every `malloc` finds none left in some state, and
  the leaks use them up.
- `CHECK_DEADLOCK FALSE` where the program ends (`q`, `-n`, bad options) or the
  model's time does (`usage`).

### Fairness

`Fairness == WF_vars(SamplerNext)`: vmtop is one thread and none of its system
calls within a refresh waits for a guest, so the scheduler alone lets it go
on. The host is assumed to do nothing at all, and may stop. The number of moves
is bounded in the model; `RefreshReturns` does not lean on that: the lists a
refresh walks are fixed when they are opened, and each step shortens one.

`MainLoop` has `WF_vars(Main) /\ WF_vars(Tick)`: the loop is not kept from running,
and time passes. Nobody has to press a key, so `Ends` excludes a user who stays in
the filter and a negative timeout, after which only a key helps.

## 4. Proofs

The theorems hold for every value of the constants: every set of guests and every
finite set of tids (`Sampling`), every set of ids and readings and any number of
domains, nodes and rounds (`Bandwidth`), lists and screens of any height and width, any number of
fields and any of them hidden (`Screen`), any number of vCPUs, any jiffy, delays and
times of the reads (`Usage`), ints of any width and any options, numbers
and keys (`MainLoop`), any memory and any number of pid files (`Lists`).

| Theorem | In | Says |
|---|---|---|
| `TypeCorrect` | `SamplingProofs` | `Spec => []TypeOK` |
| `ArraysInBounds` | `SamplingProofs` | `Spec => []InBounds` |
| `DeltasHaveBaselines` | `SamplingProofs` | `Spec => []DeltaNeedsBaseline` |
| `ShownGuestsRan` | `SamplingProofs` | `Spec => []ShownGuestsLive` |
| `NothingElseIsShown` | `SamplingProofs` | `Spec => []OnlyAsked` |
| `NoGuestIsMissing` | `SamplingProofs` | `Spec => []GuestsComplete` |
| `SlotsFilled` | `RowProofs` | `Spec => []ThreadSlots` |
| `ExitsAddUp` | `RowProofs` | `Spec => []DomainSum` |
| `GrowthIsExact` | `RowProofs` | `Spec => []UtimeExact` |
| `SamplingIsMeter` | `RowProofs` | `Spec => ImplementsMeter` |
| `NoThreadIsMissing` | `RowProofs` | `Spec => []ThreadsComplete` |
| `ExitsAreExact` | `RowProofs` | `Spec /\ []ListFits => []ExitsExact` |
| `AveragesExact` | `BandwidthProofs` | `Spec => []AverageExact` |
| `TypeCorrect` | `BandwidthProofs` | `Spec => []TypeOK` |
| `HostCovers` | `BandwidthProofs` | `Spec => []HostCoversGuests` |
| `TotalsAddUp` | `BandwidthProofs` | `Spec => []SummaryAddsUp` |
| `TypeCorrect` | `ScreenProofs` | `Spec => []TypeOK` |
| `ChoiceIsKept` | `ScreenProofs` | `Spec => []FilterHolds` |
| `FramesFit` | `ScreenProofs` | `Spec => []FrameFits` |
| `ScrollingFindsTasks` | `ScreenProofs` | `Spec => ScrollFindsTasks` |
| `PagingIsComplete` | `ScreenProofs` | `Spec => PagingCovers` |
| `EveryColumnPasses` | `ScreenProofs` | `Spec => ColumnsPassed` |
| `LeftGetsBack` | `ScreenProofs` | `Spec => LeftFindsColumn` |
| `FieldsHavePlaces` | `ScreenProofs` | `Spec => []FilterCells` |
| `TypeCorrect` | `UsageProofs` | `Spec => []TypeOK` |
| `HypExact` | `UsageProofs` | `Spec => []HypIsRest` |
| `DomainExact` | `UsageProofs` | `Spec => []DomainShowsVcpus` |
| `TypeCorrect` | `MainLoopProofs` | `Spec => []TypeOK` |
| `NumbersAsTold` | `MainLoopProofs` | `Spec => []AsTold` |
| `SamplesAsAsked` | `MainLoopProofs` | `Spec => []ShowsAsked` |
| `QuitIsFinal` | `MainLoopProofs` | `Spec => QuitStops` |
| `IntervalsExact` | `MainLoopProofs` | `Spec => IntervalExact` |
| `TypeCorrect` | `ListsProofs` | `Spec => []TypeOK` |
| `BlocksOwned` | `ListsProofs` | `Spec => []Owned` |
| `FreedOnce` | `ListsProofs` | `Spec => []FreesOnce` |
| `LeaksKnown` | `ListsProofs` | `Spec => []Accounted` |

### Sampling

These theorems rest on `HostAssumption` (tids are finite, the null values are
outside) and `SamplingAssumption` (`MonitorId` is an integer, `MaxVcpus` a natural
number).

- *Types and bounds* are proved together, as `SafeInv == TypeOK /\ InBounds`: that a
  write to `threads[slot]` keeps the type needs the slot to be within the array,
  which `InBounds` says, and that `Delta` stays a natural number needs the rows
  of `pre` to exist. `InBounds` is inductive with the types because it
  ties array length to `nlwp` in every `pc`, with one exception: the last domain
  of `now` while it is still without its array. The lemmas are laid out per action:
  first the host's moves (nothing of the sampler changes), then the reads, then
  the deltas.
- *Baselines*: `DeltaNeedsBaseline` is inductive under `SafeInv`. Every record the
  reads put into `now` has zero deltas (`VcpuRow`, `ThreadRow`, `LostRow`,
  `NewDom`), only `RefreshDomain` and `RefreshThread` set one, and they have the
  domain and row of `pre` in hand; `Rotate` changes `pre` and empties `now` in the
  same step, which is why the property survives the beginning of a refresh.
- *Guests*: first the host (`HostInv`): a running guest has its leader thread, a
  thread has a running owner, and ids and incarnations are used once. Then the scan
  (`GuestInv`): a guest that has to be shown is among the files still to come, or the
  domain under construction, or shown already (`Found`). Dropping a domain keeps
  this because the domain that is dropped then is no longer, or never was, the
  guest's. `Recents` and `Asked` speak of every domain at every point of the scan.
- *Slots*: `SlotInv` adds to `ThreadSlots` what the array is like while it is
  filled, and `TasksLeft`: `readdir` does not return a tid that has a slot.
- *Sums*: `FreshInv` keeps `dexits` of a domain equal to the sum of its rows at every
  turn of the inner loop, which needs the deltas of the rows ahead to be zero.
- *Growth*: `SettledInv` says what the loop over the domains leaves behind it, in the
  terms of the code: a delta against whatever `get_domain_from_id` and
  `get_thread_from_pid` find. That this is the growth of the same thread needs
  `KnownInv`: a counter read from an incarnation that still runs is not above
  the counter the host has now, so the later of two reads is the greater one,
  and the case of a counter that went back is that of two incarnations.
- *Refinement*: `SettledInv` is also what a step of the meter needs. `SampleMeasured` is
  the one step that shows a sample; every other step leaves `Readings(OnScreen)` alone
  (`MeterStep`), `Rotate` because it moves the same domains from `now` to `pre`.
- *Threads*: `CoverInv` is the counting argument that `nlwp` slots suffice. When the
  stat is read, the threads that have to be shown are at most `nlwp`; they only
  become fewer; and since `readdir` lists them in the order of their creation, each
  of them that has no row stands at a place of the listing for which a slot is
  left (`ToCome`).
- *Exits*: the invariant ties each row to the line of `vcpu_list` it was filled from
  (`RowMarked`), and each row of the last sample to what the counter grew since
  (`GrewSince`). It holds while `vcpu_list` has a place for every vCPU of the host
  (`ListFits`; there are `MAX_VCPU_NUM`, 1024): a vCPU without a place has a row of
  zeroes, and all its exits count as growth when it gets one. With `MaxVcpus = 1` TLC
  finds that in the instance of `threads`, so `ExitsAreExact` needs the hypothesis. It is
  one about the host, and the run satisfies it in all its states (three tids, three
  places).

### Sums

A sum over a set is a recursive function, and an induction over the set is beyond
the provers. `SumProofs` replaces it by a minimal counterexample: the strict subsets of
a finite set are well-founded (a theorem of the library), so among the subsets
for which a fact fails there is a minimal one, and one unfolding of the recursion
refutes it. That the function exists at all (`TableExists`) is shown in the same way over
the number of elements. From there on sums are additive, monotonic, and change
by what one summand does.

### Bandwidth

- *Averages*: `AverageExact` speaks of the frame only; what makes it inductive is
  `Summing`: while the rounds go on, the sums kept for a domain without a half sample
  are the sums of its complete samples, the count is their number, and no flag is set
  yet. `AddedIsRecorded` is the lemma behind it, and the place where the
  proviso is needed: a sample that fails at node 0 adds nothing, one that fails later
  does. `Untouched` covers the frames for which nothing was sampled. The proof
  rests on `BandwidthAssumption`.
- *Totals*: `Totals` says of the root what `Summing` says of the domains, and that
  nothing is added for a node that does not exist; `Bounded` has the rest of the types,
  where a count stays below the number of rounds only because a domain is sampled
  once in each. `HostCoversGuests` holds since `calculate_all_bandwidth` adds the
  very rows, averaged before, to the root's value: a sum of naturals is not below
  one part of it, and reducing the guests' sum modulo `UintSize` only makes it smaller.

### Screen

- *Frames*: `TaskLines` is the closed form of the tasks that `show_task` draws from a
  position, and `Framed` says that this is what is on the screen. `FramesFit` follows
  from it, without a history, and from the lines of the summary: four while its
  first line is shorter than the screen is wide and no bandwidth is shown.
- *Paging and scrolling*: a page is drawn one turn after its key, from a position that no
  variable of the program remembers; `Turned` says that the position is that of the
  frame moved by a line or a page and cut to the length of the list. `PageInv`, which
  was checked with TLC first, has both.
- *Columns*: a line that has room for the fixed columns and one more shows the first
  column that scrolls (`WidthAssumption`: no such column is wider than that of a node, and
  a node not wider than the first two together, as in the table, `field.c:46-119`: 5
  and 14 for the first two, 10 for the nodes, at most 10 for all others). So the one
  column that a step of `KEY_RIGHT` drops was on the screen, which is `EveryColumnPasses`
  for positions that move. Where `KEY_RIGHT` moves no further, the position is one
  less than the number of displayed fields, and by counting ranks at most two fields
  are left, of which the first two of the table may be any. `LeftGetsBack` is the same
  count one column to the left: a rank that is at least the position exists if
  any column scrolls.
- *Filter*: the place of an entry is defined from that of the entry before it.
  `CellIsTable` shows that this recursion has the closed form `CellTable` (line
  `i % k` below the help, column `i \div k`). That entries of one line are a column
  apart, and that a number of columns with room for all lists all, is then division with
  remainder. The recursive function is a `CHOOSE`, so first the table is shown
  to satisfy its equation, then that nothing else does, from the least field at
  which it would differ.
- `FilterHolds` is inductive with the types: `show_header` writes to node fields only.

The proofs rest on `ScreenAssumption` and `WidthAssumption`.

### Usage

- *Deltas*: `IInv` follows the counters of each vCPU through the reads of a sample.
  `RowInv` says of a row whose thread still runs that its `vcpu_stat` counters grew by at
  most the ticks that passed since (`Grew`), and that its jiffies are those of the
  same thread, read so and so much later (`Near`); `ListInv` and `ReadInv` say the same of
  the counters that the sample under way has read so far; a replaced thread is told by its
  incarnation. When the sample is complete, `Agree` compares the deltas of both kinds of
  counters: each is that of the other, but for the time between the two reads in the
  earlier or in the later sample and for two jiffies that are not whole (`StayInv`).
- *Percentages*: `PartsAlike` divides both sides by their second and the delay:
  the conversion from jiffies and the one from ticks lose less than one percent each.
  `PartsAtMost` and `NotClamped` are for the clamp, which may only bring the two sides
  closer. `DomainShowsVcpus` splits the sums over the vCPUs with `SumAdds` and
  bounds them with `SumBounded`, so that none reaches `U64`.

The proofs rest on `UsageAssumption` and `TimeAssumption`: the time of all vCPUs
together fits 64 bits (of nanoseconds, 584 years). Counters that go back, after which a
difference wraps, are not excluded by it.

### Main loop and lists

- *Main loop*: the invariant is `Running /\ TypeOK /\ Kept /\ Counting /\ Quitting`.
  `Kept` says that the globals are what was told, unless the process is about to exit
  with status 1; `Counting` says, for each place in the loop, how `frames` and
  `display_loop` add up to `-n` (during a wait the latest frame is in both, which
  is where an off-by-one would be); `Quitting` says that after `q` only the end
  of the turn is left. The proof rests on `MainLoopAssumption`, of which it uses that
  an int holds the default delay of 3 and that `Micro` and `Milli` are positive.
  Both are facts about C. `Timing` is added for `IntervalExact`: the timeout is that of
  the delay from the end of the options on, a wait that no key ended lasted as long
  as it was to, after the sleeps of its sample, and one that a key ended no longer. That
  a wrapped product is the product where it fits, and not above it where it does not,
  are `WrapExact` and `WrapShortens`, by the uniqueness of division. `MaxFrames` is a
  bound of the model, and `ShowsAsked` is limited to the numbers it can count.
- *Lists*: ownership is stated without sequences, as a function of what the blocks
  hold (`Owns`, `Sound`), so that one lemma (`OtherBlock`) says for both lists that
  they do not change when another block does. `Parted` is the invariant: the
  blocks of the two lists and the lost ones partition the heap. `Owned` and
  `FreesOnce` are not inductive without the third part: a `malloc` must not return
  what a popped domain left, and `clear_domains` must not free it. `Working` says
  that the last domain of `now` is the one that `set_domain` works on, and whether
  its pointer is set, which decides whether popping it loses a block. The proof
  rests on `ListsAssumption` (`NULL` is no block).

Only model-checked: `RefreshReturns` and `Ends`, which are liveness and out of the
prover's reach. Every invariant and every action property that a passing run checks is
proved. The three that fail (`ThreadRowsMarked`, `AverageAlways`, `OwnGroup`) are
counterexamples of TLC's.

## 5. Not modelled

See `components` in `PROJECT.json`.

- Text: `sscanf` of the lines of `/proc` and `vcpu_stat`, `strtoul`, `snprintf`.
  Lines are the records they stand for, as the kernel and libvirt write them. Short
  lines and empty pid files, for which the code works on what a buffer held before,
  are hazards without a property: the host of the model does not produce them.
- More domains than the 1024 entries of `sample_times_vms` (`domain.c:352`): taken
  as excluded.
- `WAITmax`, state and processor are read and printed without any other effect.
- Screen in text mode: there are no keys, and the size of the screen is a constant.
- Time stamp, help and version texts, the build files: no behaviour.

## 6. Plan

Every component that has behaviour is modelled, and every safety property that a
passing run checks is proved. What is left is to go further:

1. `Usage`: the percentage of a domain's CPU (`DomCpu`) against those of its vCPUs, which
   needs the moments at which the stat of the process was read, as `HypIsRest` has those
   of a thread's.
2. `Bandwidth` after `Sampling`: that the domains `RefreshDomains` stands for are those
   a refresh leaves, stated as a refinement.
