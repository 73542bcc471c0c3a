------------------------------ MODULE MainLoop ------------------------------
(***************************************************************************)
(* The life of a vmtop process: init_parameter, parse_args with str_to_int *)
(* (utils.c), and the loop of main (vmtop.c) with its two ways to wait for *)
(* the next sample.  What a sample holds and how it is drawn is the        *)
(* business of other modules.  Of a sample only the time is counted that   *)
(* it sleeps: refresh_domains_bandwidth (domain.c) and get_mon_MB          *)
(* (resctrl.c) do after every reading.                                     *)
(*                                                                         *)
(* Time passes in ticks, Micro of them a second.  C's int is Int32: it has *)
(* the values from -IntMax - 1 to IntMax, and products wrap around, as the *)
(* multiplication of the processor does.                                   *)
(***************************************************************************)
EXTENDS Integers

CONSTANTS
    Options,    \* options that may be given, "?" for one that getopt refuses
    Numbers,    \* numbers that may be given as arguments
    IntMax,     \* INT_MAX
    Milli,      \* milliseconds in a second
    Micro,      \* microseconds in a second
    Outer,      \* ticks of the sleeps between the rounds of one sample
    Inner,      \* ticks of the sleeps in a get_mon_MB that found its files
    MaxCalls,   \* bound: such calls in one sample
    Keys,       \* keys that may be pressed: "q", "f", "other"
    MaxTime,    \* bound: ticks between two samples
    MaxFrames   \* bound: frames are counted up to this number

AllOptions == {"d", "H", "h", "v", "n", "b", "p", "G", "?"}

ASSUME MainLoopAssumption ==
    /\ Options \subseteq AllOptions
    /\ Numbers \subseteq Int
    /\ {IntMax, MaxTime, MaxFrames, Outer, Inner, MaxCalls} \subseteq Nat
    /\ IntMax >= 3 /\ MaxFrames >= 1
    /\ Milli \in Nat \ {0} /\ Micro \in Nat \ {0} /\ Micro % Milli = 0
    /\ Keys \subseteq {"q", "f", "other"}

VARIABLES
    phase,          \* where main is
    status,         \* the exit status
    delay_time, display_loop, scr_mode, thread_mode, monitor_id,
    resctrl_param_enable, quit_flag,
    timeout,        \* what wtimeout was told, in milliseconds
    elapsed,        \* ticks since the counters were read for the latest sample
    sleep,          \* ticks that the latest sample sleeps
    frames,         \* history: samples shown
    told,           \* history: the last arguments of -d, -n and -p
    ended           \* history: what ended the latest wait

optionVars == <<delay_time, display_loop, scr_mode, thread_mode, monitor_id,
                resctrl_param_enable>>
vars == <<phase, status, optionVars, quit_flag, timeout, elapsed, sleep, frames,
          told, ended>>

Int32 == (-IntMax - 1)..IntMax

\* What a C product of two ints is.
Wrap(n) == ((n + IntMax + 1) % (2 * (IntMax + 1))) - (IntMax + 1)

TypeOK ==
    /\ phase \in {"init", "args", "sample", "bandwidth", "wait", "filter", "turn",
                  "exit"}
    /\ status \in {-1, 0, 1}
    /\ delay_time \in Int32 /\ display_loop \in Int32 /\ monitor_id \in Int32
    /\ scr_mode \in {"TERM", "TEXT"}
    /\ thread_mode \in {0, 1} /\ quit_flag \in {0, 1}
    /\ resctrl_param_enable \in BOOLEAN
    /\ timeout \in Int32
    /\ elapsed \in 0..MaxTime
    /\ sleep \in Nat
    /\ frames \in 0..MaxFrames
    /\ told \in [{"d", "n", "p"} -> Int]
    /\ ended \in {"none", "timeout", "sleep", "key", "filter"}

\* init_parameter
Init ==
    /\ phase = "init" /\ status = 0
    /\ delay_time = 3 /\ display_loop = -1 /\ monitor_id = -1
    /\ scr_mode = "TERM" /\ thread_mode = 0 /\ quit_flag = 0
    /\ resctrl_param_enable = FALSE
    /\ timeout = -1
    /\ elapsed = 0 /\ sleep = 0 /\ frames = 0
    /\ told = [opt \in {"d", "n", "p"} |-> IF opt = "d" THEN 3 ELSE -1]
    /\ ended = "none"
-----------------------------------------------------------------------------
Exit(code) == phase' = "exit" /\ status' = code

\* The array of vcpu_list is there, or malloc failed.
Allocated ==
    /\ phase = "init"
    /\ \/ phase' = "args" /\ UNCHANGED status
       \/ Exit(-1)
    /\ UNCHANGED <<optionVars, quit_flag, timeout, elapsed, sleep, frames, told,
                   ended>>

(***************************************************************************)
(* parse_args: getopt returns one option after the other.                  *)
(***************************************************************************)
\* Mutant: the range is not looked at.
StrToInt_Any(arg) == arg

\* Mutant: what does not fit an int is cut.
StrToInt_Cuts(arg) == Wrap(arg)

\* str_to_int.  A text that is no number is a number outside of Int32 here:
\* the answer is the same.
StrToInt(arg) == IF arg \in Int32 THEN arg ELSE -1

Option(opt) ==
    /\ phase = "args"
    /\ opt \in Options
    /\ UNCHANGED <<quit_flag, timeout, elapsed, sleep, frames, ended>>

Numeric(opt, arg) ==
    /\ Option(opt)
    /\ told' = [told EXCEPT ![opt] = arg]
    /\ IF StrToInt(arg) < 0 THEN Exit(1) ELSE UNCHANGED <<phase, status>>
    /\ UNCHANGED <<scr_mode, thread_mode, resctrl_param_enable>>

OptDelay ==
    \E arg \in Numbers :
        /\ Numeric("d", arg)
        /\ delay_time' = StrToInt(arg)
        /\ UNCHANGED <<display_loop, monitor_id>>

OptNumber ==
    \E arg \in Numbers :
        /\ Numeric("n", arg)
        /\ display_loop' = StrToInt(arg)
        /\ UNCHANGED <<delay_time, monitor_id>>

OptMonitor ==
    \E arg \in Numbers :
        /\ Numeric("p", arg)
        /\ monitor_id' = StrToInt(arg)
        /\ UNCHANGED <<delay_time, display_loop>>

\* The options without an argument.
Switch(opt) ==
    /\ Option(opt)
    /\ UNCHANGED <<delay_time, display_loop, monitor_id, told>>

OptThreads ==
    /\ Switch("H")
    /\ thread_mode' = 1
    /\ UNCHANGED <<phase, status, scr_mode, resctrl_param_enable>>

OptText ==
    /\ Switch("b")
    /\ scr_mode' = "TEXT"
    /\ UNCHANGED <<phase, status, thread_mode, resctrl_param_enable>>

OptResctrl ==
    /\ Switch("G")
    /\ resctrl_param_enable' = TRUE
    /\ UNCHANGED <<phase, status, scr_mode, thread_mode>>

\* -h and -v print and exit; so does an option that getopt refuses.
OptExit ==
    /\ \/ \E opt \in {"h", "v"} : Switch(opt) /\ Exit(0)
       \/ Switch("?") /\ Exit(1)
    /\ UNCHANGED <<scr_mode, thread_mode, resctrl_param_enable>>

\* Mutant: wtimeout is called before the options are parsed.
WaitTime_Default == 3 * Milli

\* The argument of wtimeout.
WaitTime == Wrap(delay_time * Milli)

\* getopt returns -1, and main sets the terminal up if it is to use it.
EndArgs ==
    /\ phase = "args"
    /\ timeout' = IF scr_mode = "TERM" THEN WaitTime ELSE timeout
    /\ phase' = "sample"
    /\ UNCHANGED <<status, optionVars, quit_flag, elapsed, sleep, frames, told,
                   ended>>
-----------------------------------------------------------------------------
(***************************************************************************)
(* The loop.                                                               *)
(***************************************************************************)
loopFrame == UNCHANGED <<delay_time, scr_mode, thread_mode, monitor_id,
                         resctrl_param_enable, timeout, told>>

\* What refresh_domains_bandwidth sleeps in all: nothing without -G, or if there
\* is no resctrl or none of its nodes is found, else after every round and in
\* every get_mon_MB that can open its files.
Sleeps ==
    IF resctrl_param_enable
    THEN {0} \cup {Outer + calls * Inner : calls \in 0..MaxCalls}
    ELSE {0}

\* refresh_domains reads the counters of a new sample.
Sample ==
    /\ phase = "sample"
    /\ elapsed' = 0
    /\ sleep' \in Sleeps
    /\ phase' = "bandwidth"
    /\ UNCHANGED <<status, display_loop, quit_flag, frames, ended>>
    /\ loopFrame

\* The bandwidth is there as well, and the sample is shown.
Show ==
    /\ phase = "bandwidth" /\ elapsed = sleep
    /\ frames' = IF frames < MaxFrames THEN frames + 1 ELSE frames
    /\ phase' = "wait"
    /\ UNCHANGED <<status, display_loop, quit_flag, elapsed, sleep, ended>>
    /\ loopFrame

\* The argument of usleep, as a useconds_t.
SleepTime == Wrap(delay_time * Micro) % (2 * (IntMax + 1))

\* The ticks that the wait takes if no key is pressed.
WaitTicks ==
    IF scr_mode = "TEXT" THEN SleepTime ELSE timeout * (Micro \div Milli)

\* A negative timeout makes getch wait for a key.
Blocking == scr_mode = "TERM" /\ timeout < 0

\* Time passes while main sleeps or waits, and without end in the filter.
Tick ==
    /\ \/ phase = "bandwidth" /\ elapsed < sleep
       \/ phase = "filter"
       \/ phase = "wait" /\ (Blocking \/ elapsed < sleep + WaitTicks)
    /\ elapsed < MaxTime
    /\ elapsed' = elapsed + 1
    /\ UNCHANGED <<phase, status, display_loop, quit_flag, sleep, frames, ended>>
    /\ loopFrame

WaitEnds(how) ==
    /\ phase \in {"wait", "filter"}
    /\ ended' = how
    /\ UNCHANGED <<status, display_loop, elapsed, sleep, frames>>
    /\ loopFrame

\* getch returns ERR, or usleep returns.
Timeout ==
    /\ phase = "wait" /\ ~ Blocking /\ elapsed = sleep + WaitTicks
    /\ WaitEnds(IF scr_mode = "TERM" THEN "timeout" ELSE "sleep")
    /\ phase' = "turn"
    /\ UNCHANGED quit_flag

\* getch returns a key, and parse_keys looks at it.
Key(k) ==
    /\ phase = "wait" /\ scr_mode = "TERM"
    /\ k \in Keys
    /\ WaitEnds("key")
    /\ phase' = IF k = "f" THEN "filter" ELSE "turn"
    /\ quit_flag' = IF k = "q" THEN 1 - quit_flag ELSE quit_flag

\* 'q' within show_filter.
FilterQuit ==
    /\ phase = "filter"
    /\ "q" \in Keys
    /\ WaitEnds("filter")
    /\ phase' = "turn"
    /\ UNCHANGED quit_flag

\* Mutant: the loop goes on while it is not told both to end.
Again_Or == quit_flag = 0 \/ display_loop' # 0

\* The condition of the loop.
Again == quit_flag = 0 /\ display_loop' # 0

\* Mutant: a sample that a key ended does not count.
Counted_Timeouts ==
    IF ended \in {"timeout", "sleep"} THEN display_loop - 1 ELSE display_loop

\* Mutant: the last sample is not counted.
Counted_Late == IF display_loop > 1 THEN display_loop - 1 ELSE display_loop

\* display_loop after the decrement.
Counted == IF display_loop > 0 THEN display_loop - 1 ELSE display_loop

Turn ==
    /\ phase = "turn"
    /\ display_loop' = Counted
    /\ IF Again THEN phase' = "sample" /\ UNCHANGED status ELSE Exit(0)
    /\ UNCHANGED <<quit_flag, elapsed, sleep, frames, ended>>
    /\ loopFrame
-----------------------------------------------------------------------------
ParseArgs ==
    \/ OptDelay \/ OptNumber \/ OptMonitor
    \/ OptThreads \/ OptText \/ OptResctrl \/ OptExit

\* What main does by itself.
Main == Sample \/ Show \/ Timeout \/ Turn

Next ==
    \/ Allocated \/ ParseArgs \/ EndArgs
    \/ Main \/ Tick
    \/ \E k \in Keys : Key(k)
    \/ FilterQuit

\* The loop is never kept from running, and time passes.  Nobody needs to
\* press a key.
Fairness == WF_vars(Main) /\ WF_vars(Tick)

Spec == Init /\ [][Next]_vars /\ Fairness
-----------------------------------------------------------------------------
(***************************************************************************)
(* Properties.                                                             *)
(***************************************************************************)
Started == phase \notin {"init", "args"} /\ status = 0 /\ frames > 0

\* Once vmtop shows samples it works with the numbers that it was given, not
\* with what was left of them in an int: a number that is none, or is out of
\* range, or negative, ends it before (str_to_int, parse_args).
AsTold ==
    Started =>
        /\ delay_time = told.d /\ monitor_id = told.p
        /\ display_loop <= told.n
        /\ \A opt \in {"d", "n", "p"} : told[opt] \in Int32

\* The samples that -n asks for; with 0 the count is tested after the first.
Asked == IF told.n = 0 THEN 1 ELSE told.n

\* With -n n it shows n samples and then ends by itself, however the wait
\* after each of them ends, and less only if it was quit; with -n 0 it shows
\* one, and without -n it ends only when it is quit ("set the number of refresh
\* times before automatic quit", field.c:37).  Frames are counted up to
\* MaxFrames.
ShowsAsked ==
    /\ Started /\ told.n \in 0..MaxFrames =>
        /\ frames <= Asked
        /\ phase = "exit" /\ quit_flag = 0 => frames = Asked
    /\ Started /\ told.n = -1 /\ phase = "exit" => quit_flag = 1

\* No sample is taken after 'q' (README.md:46), whatever -n says.
QuitStops == [][quit_flag = 1 => frames' = frames]_vars

\* -n ends vmtop sooner or later even if keys are pressed all the time, unless
\* the user never leaves the filter again, or the timeout got negative and
\* nobody presses a key.
Ends ==
    [](Started /\ told.n >= 0 /\ ~ Blocking =>
        <>(phase = "exit" \/ [](phase = "filter")))

\* The delays whose products with Milli or Micro the C types hold.
Representable ==
    IF scr_mode = "TERM" THEN delay_time * Milli \in Int32
    ELSE delay_time * Micro \in 0..(2 * IntMax + 1)

TakesSample == phase = "sample" /\ phase' = "bandwidth" /\ frames > 0

\* Usages are divided by delay_time, however long the interval was.  Without keys,
\* the counters are read exactly delay_time seconds apart, for every delay whose
\* product fits, and with -G later by what the last sample slept.  After a key, and
\* where the product overflows, the interval may be shorter, but it is never
\* longer, so that no usage is shown too high: except after the filter, or
\* when the timeout got negative (main, "time interval for obtaining data",
\* doc/FAQ:12-14).
IntervalExact ==
    [][TakesSample =>
        /\ ended \in {"timeout", "sleep"} /\ Representable
            => elapsed = delay_time * Micro + sleep
        /\ ended # "filter" /\ ~ Blocking
            => elapsed <= delay_time * Micro + sleep
        /\ ~ resctrl_param_enable => sleep = 0]_vars
=============================================================================
