---------------------------- MODULE MainLoopProofs ----------------------------
(***************************************************************************)
(* What module MainLoop keeps for every set of options, numbers and keys   *)
(* and every width of an int.                                              *)
(***************************************************************************)
EXTENDS MainLoop, TLAPS

\* The numbers that the options gave are those that the process works with,
\* unless it is about to exit for one of them.  display_loop counts down.
Kept ==
    status # 1 =>
        /\ delay_time = told.d /\ monitor_id = told.p
        /\ display_loop <= told.n
        /\ \A opt \in {"d", "n", "p"} : told[opt] \in Int32

\* The samples shown and those that display_loop has still to count are as
\* many as -n says; in a wait the last one is in both.
Counting ==
    status # 1 =>
        /\ phase \in {"init", "args"} => frames = 0 /\ display_loop = told.n
        /\ told.n \in 1..MaxFrames =>
            /\ phase \in {"sample", "bandwidth"} => frames + display_loop = told.n
            /\ phase \in {"wait", "filter", "turn"} =>
                frames + display_loop = told.n + 1
            /\ phase \in {"sample", "bandwidth", "wait", "filter", "turn"} =>
                display_loop > 0
            /\ phase = "exit" /\ frames > 0 =>
                /\ frames <= told.n
                /\ quit_flag = 0 => frames = told.n
        /\ told.n = 0 =>
            /\ display_loop = 0
            /\ phase \in {"sample", "bandwidth"} => frames = 0
            /\ phase \notin {"init", "args", "sample", "bandwidth"} /\ frames > 0
                => frames = 1
            /\ phase \in {"wait", "filter", "turn"} => frames > 0
        /\ told.n = -1 =>
            /\ display_loop = -1
            /\ phase = "exit" /\ frames > 0 => quit_flag = 1

\* 'q' is seen at the end of the turn.
Quitting == quit_flag = 1 => phase \in {"turn", "exit"}

\* Nothing goes on after an exit.
Running == phase # "exit" => status = 0

IInv == Running /\ TypeOK /\ Kept /\ Counting /\ Quitting
-----------------------------------------------------------------------------
LEMMA Remainder ==
    ASSUME NEW n \in Int, NEW k \in Nat \ {0}
    PROVE  n % k \in 0..(k - 1)
OBVIOUS

\* The product of two ints is an int.
LEMMA WrapType ==
    ASSUME MainLoopAssumption, NEW n \in Int
    PROVE  Wrap(n) \in Int32
<1> DEFINE k == 2 * (IntMax + 1)
<1>1. IntMax \in Nat /\ k \in Nat \ {0} /\ k = 2 * (IntMax + 1)
  BY DEF MainLoopAssumption
<1>2. Wrap(n) = ((n + IntMax + 1) % k) - (IntMax + 1)
  BY DEF Wrap
<1> HIDE DEF k
<1>3. (n + IntMax + 1) % k \in 0..(k - 1)
  <2>1. n + IntMax + 1 \in Int
    BY <1>1
  <2> QED BY <1>1, <2>1, Remainder, Zenon
<1> QED BY <1>1, <1>2, <1>3 DEF Int32

\* str_to_int returns an int.
LEMMA StrToIntType ==
    ASSUME MainLoopAssumption, NEW arg \in Int
    PROVE  /\ StrToInt(arg) \in Int32
           /\ StrToInt(arg) >= 0 => StrToInt(arg) = arg
BY DEF StrToInt, Int32, MainLoopAssumption

LEMMA InitIInv ==
    ASSUME MainLoopAssumption, Init
    PROVE  IInv
<1> USE DEF Init
<1>1. told \in [{"d", "n", "p"} -> Int]
  <2>1. \A opt \in {"d", "n", "p"} : (IF opt = "d" THEN 3 ELSE -1) \in Int
    OBVIOUS
  <2> QED BY <2>1, Zenon
<1>2. 3 \in Int32 /\ -1 \in Int32
  BY DEF Int32, MainLoopAssumption
<1>3. MaxTime \in Nat /\ MaxFrames \in Nat
  BY DEF MainLoopAssumption
<1>4. elapsed \in 0..MaxTime /\ frames \in 0..MaxFrames
  BY <1>3
<1>5. TypeOK
  BY <1>1, <1>2, <1>4, Zenon DEF TypeOK
<1>6. Kept
  BY <1>2 DEF Kept
<1>7. Running /\ Counting /\ Quitting
  BY DEF Running, Counting, Quitting
<1> QED BY <1>5, <1>6, <1>7 DEF IInv
-----------------------------------------------------------------------------
\* The options that take a number.
LEMMA NumericIInv ==
    ASSUME MainLoopAssumption, IInv, OptDelay \/ OptNumber \/ OptMonitor
    PROVE  IInv'
<1> USE DEF IInv
<1>1. \A arg \in Numbers : arg \in Int
  BY DEF MainLoopAssumption
<1>2. CASE OptDelay
  <2>1. PICK arg \in Numbers : /\ Numeric("d", arg)
                               /\ delay_time' = StrToInt(arg)
                               /\ UNCHANGED <<display_loop, monitor_id>>
    BY <1>2 DEF OptDelay
  <2>2. /\ told' \in [{"d", "n", "p"} -> Int] /\ told'["d"] = arg
        /\ \A o \in {"n", "p"} : told'[o] = told[o]
    BY <1>1, <2>1 DEF TypeOK, Numeric
  <2>3. StrToInt(arg) \in Int32
    BY <1>1, StrToIntType
  <2>4. status' # 1 => StrToInt(arg) = arg /\ StrToInt(arg) >= 0 /\ arg \in Int32
    BY <1>1, <2>1, <2>3, StrToIntType DEF Numeric, Exit, Int32,
       MainLoopAssumption
  <2>5. /\ phase = "args" /\ phase' \in {"args", "exit"} /\ status' \in {status, 1}
        /\ status' = status \/ status' = 1
        /\ UNCHANGED <<quit_flag, timeout, elapsed, sleep, frames, ended, scr_mode,
                       thread_mode, resctrl_param_enable>>
    BY <2>1 DEF Numeric, Option, Exit
  <2>6. TypeOK'
    BY <2>1, <2>2, <2>3, <2>5 DEF TypeOK
  <2>7. Kept'
    BY <2>1, <2>2, <2>4, <2>5 DEF Kept, TypeOK, Int32, MainLoopAssumption
  <2>8. Counting'
    BY <2>1, <2>2, <2>4, <2>5 DEF Counting, Kept, TypeOK
  <2>9. Quitting' /\ Running'
    BY <2>1, <2>5 DEF Quitting, Running, Numeric, Exit
  <2> QED BY <2>6, <2>7, <2>8, <2>9
<1>3. CASE OptNumber
  <2>1. PICK arg \in Numbers : /\ Numeric("n", arg)
                               /\ display_loop' = StrToInt(arg)
                               /\ UNCHANGED <<delay_time, monitor_id>>
    BY <1>3 DEF OptNumber
  <2>2. /\ told' \in [{"d", "n", "p"} -> Int] /\ told'["n"] = arg
        /\ \A o \in {"d", "p"} : told'[o] = told[o]
    BY <1>1, <2>1 DEF TypeOK, Numeric
  <2>3. StrToInt(arg) \in Int32
    BY <1>1, StrToIntType
  <2>4. status' # 1 => StrToInt(arg) = arg /\ StrToInt(arg) >= 0 /\ arg \in Int32
    BY <1>1, <2>1, <2>3, StrToIntType DEF Numeric, Exit, Int32,
       MainLoopAssumption
  <2>5. /\ phase = "args" /\ phase' \in {"args", "exit"} /\ status' \in {status, 1}
        /\ status' = status \/ status' = 1
        /\ UNCHANGED <<quit_flag, timeout, elapsed, sleep, frames, ended, scr_mode,
                       thread_mode, resctrl_param_enable>>
    BY <2>1 DEF Numeric, Option, Exit
  <2>6. TypeOK'
    BY <2>1, <2>2, <2>3, <2>5 DEF TypeOK
  <2>7. Kept'
    BY <2>1, <2>2, <2>4, <2>5 DEF Kept, TypeOK, Int32, MainLoopAssumption
  <2>8. Counting'
    BY <2>1, <2>2, <2>4, <2>5 DEF Counting, Kept, TypeOK
  <2>9. Quitting' /\ Running'
    BY <2>1, <2>5 DEF Quitting, Running, Numeric, Exit
  <2> QED BY <2>6, <2>7, <2>8, <2>9
<1>4. CASE OptMonitor
  <2>1. PICK arg \in Numbers : /\ Numeric("p", arg)
                               /\ monitor_id' = StrToInt(arg)
                               /\ UNCHANGED <<delay_time, display_loop>>
    BY <1>4 DEF OptMonitor
  <2>2. /\ told' \in [{"d", "n", "p"} -> Int] /\ told'["p"] = arg
        /\ \A o \in {"d", "n"} : told'[o] = told[o]
    BY <1>1, <2>1 DEF TypeOK, Numeric
  <2>3. StrToInt(arg) \in Int32
    BY <1>1, StrToIntType
  <2>4. status' # 1 => StrToInt(arg) = arg /\ StrToInt(arg) >= 0 /\ arg \in Int32
    BY <1>1, <2>1, <2>3, StrToIntType DEF Numeric, Exit, Int32,
       MainLoopAssumption
  <2>5. /\ phase = "args" /\ phase' \in {"args", "exit"} /\ status' \in {status, 1}
        /\ status' = status \/ status' = 1
        /\ UNCHANGED <<quit_flag, timeout, elapsed, sleep, frames, ended, scr_mode,
                       thread_mode, resctrl_param_enable>>
    BY <2>1 DEF Numeric, Option, Exit
  <2>6. TypeOK'
    BY <2>1, <2>2, <2>3, <2>5 DEF TypeOK
  <2>7. Kept'
    BY <2>1, <2>2, <2>4, <2>5 DEF Kept, TypeOK, Int32, MainLoopAssumption
  <2>8. Counting'
    BY <2>1, <2>2, <2>4, <2>5 DEF Counting, Kept, TypeOK
  <2>9. Quitting' /\ Running'
    BY <2>1, <2>5 DEF Quitting, Running, Numeric, Exit
  <2> QED BY <2>6, <2>7, <2>8, <2>9
<1> QED BY <1>2, <1>3, <1>4

\* What happens before the first sample, but for those.
LEMMA StartIInv ==
    ASSUME MainLoopAssumption, IInv,
           Allocated \/ OptThreads \/ OptText \/ OptResctrl \/ OptExit \/ EndArgs
    PROVE  IInv'
<1> USE DEF IInv, Running, TypeOK, Kept, Counting, Quitting, Option, Switch, Exit,
            optionVars
<1>1. CASE Allocated
  BY <1>1 DEF Allocated
<1>2. CASE OptThreads \/ OptText \/ OptResctrl
  BY ZenonT(40), <1>2 DEF OptThreads, OptText, OptResctrl
<1>3. CASE OptExit
  BY <1>3 DEF OptExit
<1>4. CASE EndArgs
  <2>1. WaitTime \in Int32
    BY WrapType DEF WaitTime, MainLoopAssumption, Int32
  <2> QED BY <1>4, <2>1 DEF EndArgs
<1> QED BY <1>1, <1>2, <1>3, <1>4

\* A turn of the loop.
LEMMA LoopIInv ==
    ASSUME MainLoopAssumption, IInv,
           Sample \/ Show \/ Tick \/ Timeout \/ FilterQuit \/ (\E k \in Keys : Key(k))
    PROVE  IInv'
<1> USE DEF IInv, Running, TypeOK, Kept, Counting, Quitting, loopFrame, WaitEnds
<1>1. CASE Sample
  <2>1. sleep' \in Nat
    <3>1. 0 \in Nat /\ \A calls \in 0..MaxCalls : Outer + calls * Inner \in Nat
      BY DEF MainLoopAssumption
    <3> QED BY <1>1, <3>1 DEF Sample, Sleeps
  <2>2. 0 \in 0..MaxTime
    BY DEF MainLoopAssumption
  <2> QED BY <1>1, <2>1, <2>2 DEF Sample
<1>6. CASE Show
  BY <1>6 DEF Show, MainLoopAssumption, Int32
<1>2. CASE Tick
  BY <1>2 DEF Tick, MainLoopAssumption
<1>3. CASE Timeout
  BY <1>3 DEF Timeout
<1>4. CASE FilterQuit
  BY <1>4 DEF FilterQuit
<1>5. CASE \E k \in Keys : Key(k)
  BY <1>5 DEF Key
<1> QED BY <1>1, <1>2, <1>3, <1>4, <1>5, <1>6

LEMMA TurnIInv ==
    ASSUME MainLoopAssumption, IInv, Turn
    PROVE  IInv'
<1> USE DEF IInv, Turn, loopFrame, Exit, Again, Counted
<1>1. Counted \in Int32 /\ Counted <= display_loop
  BY DEF TypeOK, Int32, MainLoopAssumption
<1>2. TypeOK'
  BY <1>1 DEF TypeOK
<1>3. Kept'
  BY <1>1 DEF Running, Kept, TypeOK, Int32, MainLoopAssumption
<1>4. Counting'
  BY DEF Running, Counting, TypeOK, Int32, MainLoopAssumption
<1>5. Quitting'
  BY DEF Quitting
<1>6. Running'
  BY DEF Running
<1> QED BY <1>2, <1>3, <1>4, <1>5, <1>6

LEMMA NextIInv ==
    ASSUME MainLoopAssumption, IInv, [Next]_vars
    PROVE  IInv'
<1>1. CASE Next
  BY <1>1, NumericIInv, StartIInv, LoopIInv, TurnIInv
     DEF Next, ParseArgs, Main
<1>2. CASE UNCHANGED vars
  BY <1>2 DEF vars, optionVars, IInv, Running, TypeOK, Kept, Counting, Quitting
<1> QED BY <1>1, <1>2

LEMMA Inductive ==
    ASSUME MainLoopAssumption
    PROVE  Spec => []IInv
<1>1. Init => IInv
  BY InitIInv
<1>2. IInv /\ [Next]_vars => IInv'
  BY NextIInv
<1> QED BY <1>1, <1>2, PTL DEF Spec
-----------------------------------------------------------------------------
\* The numbers of the process are ints, and timers and counters stay within
\* their bounds.
THEOREM TypeCorrect == MainLoopAssumption => (Spec => []TypeOK)
<1> SUFFICES ASSUME MainLoopAssumption
             PROVE  Spec => []TypeOK
  OBVIOUS
<1>1. IInv => TypeOK
  BY DEF IInv
<1> QED BY <1>1, Inductive, PTL

\* Whatever is given, samples are shown only by a process that works with the
\* very numbers it was given (parse_args, str_to_int).
THEOREM NumbersAsTold == MainLoopAssumption => (Spec => []AsTold)
<1> SUFFICES ASSUME MainLoopAssumption
             PROVE  Spec => []AsTold
  OBVIOUS
<1>1. IInv => AsTold
  BY DEF IInv, Kept, AsTold, Started
<1> QED BY <1>1, Inductive, PTL

\* -n k makes it k samples, -n 0 one, and no -n as many as the user wants (main).
THEOREM SamplesAsAsked == MainLoopAssumption => (Spec => []ShowsAsked)
<1> SUFFICES ASSUME MainLoopAssumption
             PROVE  Spec => []ShowsAsked
  OBVIOUS
<1>1. IInv => ShowsAsked
  BY DEF IInv, TypeOK, Int32, MainLoopAssumption, Counting, ShowsAsked, Asked,
     Started
<1> QED BY <1>1, Inductive, PTL

\* After 'q' nothing is sampled any more (parse_keys, main).
THEOREM QuitIsFinal == MainLoopAssumption => (Spec => QuitStops)
<1> SUFFICES ASSUME MainLoopAssumption
             PROVE  Spec => QuitStops
  OBVIOUS
<1>1. ASSUME IInv, [Next]_vars
      PROVE  [quit_flag = 1 => frames' = frames]_vars
  <2> SUFFICES ASSUME Next, quit_flag = 1
               PROVE  frames' = frames
    BY <1>1 DEF vars
  <2>1. phase # "bandwidth"
    BY <1>1 DEF IInv, Quitting
  <2> QED BY <2>1 DEF Next, ParseArgs, Main, Allocated, OptDelay, OptNumber,
              OptMonitor, Numeric, Option, OptThreads, OptText, OptResctrl,
              OptExit, Switch, EndArgs, Sample, Show, Timeout, Turn, Tick, Key,
              FilterQuit, WaitEnds
<1> QED BY <1>1, Inductive, PTL DEF QuitStops, Spec
-----------------------------------------------------------------------------
(***************************************************************************)
(* The interval between samples.                                           *)
(***************************************************************************)

\* wtimeout has been told the delay before the loop starts; a sample whose wait
\* no key ended took as long as it was to sleep and to wait, and one that a key
\* ended no longer.  The delay is no negative one.
Timing ==
    /\ phase \in {"sample", "bandwidth", "wait", "filter", "turn"}
            /\ scr_mode = "TERM"
        => timeout = WaitTime
    /\ phase = "turn" \/ (phase = "sample" /\ frames > 0)
        => /\ ended \in {"timeout", "sleep"} => elapsed = sleep + WaitTicks
           /\ ended # "filter" /\ ~ Blocking => elapsed <= sleep + WaitTicks
    /\ phase = "wait" /\ ~ Blocking => elapsed <= sleep + WaitTicks
    /\ phase \notin {"init", "args"} /\ ~ resctrl_param_enable => sleep = 0
    /\ phase \in {"init", "args"} => sleep = 0
    /\ status # 1 => delay_time >= 0

\* A wait that ends by itself takes time or none.
LEMMA WaitNatural ==
    ASSUME MainLoopAssumption, TypeOK
    PROVE  WaitTicks \in Int /\ (~ Blocking => WaitTicks >= 0)
<1>1. Micro \div Milli \in Nat
  BY DEF MainLoopAssumption
<1>2. timeout \in Int /\ delay_time * Micro \in Int /\ IntMax \in Nat
  BY DEF TypeOK, Int32, MainLoopAssumption
<1>3. SleepTime \in Nat
  <2> DEFINE k == 2 * (IntMax + 1)
             w == Wrap(delay_time * Micro)
  <2>1. k \in Nat \ {0} /\ SleepTime = w % k
    BY <1>2 DEF SleepTime
  <2>2. w \in Int
    BY <1>2, WrapType DEF Int32
  <2> HIDE DEF k, w
  <2>3. w % k \in 0..(k - 1)
    BY <2>1, <2>2, Remainder, Zenon
  <2> QED BY <2>1, <2>3
<1>4. \A a \in Int, b \in Nat : a * b \in Int /\ (a >= 0 => a * b >= 0)
  OBVIOUS
<1>5. scr_mode \in {"TERM", "TEXT"}
  BY DEF TypeOK
<1> QED BY <1>1, <1>2, <1>3, <1>4, <1>5 DEF WaitTicks, Blocking

LEMMA TimingStep ==
    ASSUME MainLoopAssumption, IInv, Timing, [Next]_vars
    PROVE  Timing'
<1> USE DEF Timing, WaitTime, WaitTicks, SleepTime
<1>7. TypeOK
  BY DEF IInv
<1>1. CASE Allocated \/ ParseArgs
  <2>1. phase' \in {"init", "args", "exit"}
    BY <1>1 DEF Allocated, ParseArgs, OptDelay, OptNumber, OptMonitor, Numeric,
         Option, OptThreads, OptText, OptResctrl, OptExit, Switch, Exit
  <2>2. sleep' = sleep /\ phase \in {"init", "args"}
    BY <1>1 DEF Allocated, ParseArgs, OptDelay, OptNumber, OptMonitor, Numeric,
         Option, OptThreads, OptText, OptResctrl, OptExit, Switch
  <2>3. status' # 1 => delay_time' >= 0
    <3>1. CASE Allocated
      BY <3>1 DEF Allocated, Exit, optionVars, IInv, Running
    <3>2. CASE OptDelay
      BY <3>2 DEF OptDelay, Numeric, Exit, StrToInt, Int32, MainLoopAssumption
    <3>3. CASE OptNumber \/ OptMonitor
      BY <3>3 DEF OptNumber, OptMonitor, Numeric, Exit, Running, IInv, Option
    <3>4. CASE OptThreads \/ OptText \/ OptResctrl
      BY <3>4 DEF OptThreads, OptText, OptResctrl, Switch
    <3>5. CASE OptExit
      BY <3>5 DEF OptExit, Switch, Exit, Running, IInv, Option
    <3> QED BY <1>1, <3>1, <3>2, <3>3, <3>4, <3>5 DEF ParseArgs
  <2> QED BY <2>1, <2>2, <2>3
<1>2. CASE EndArgs
  <2>1. frames = 0
    BY <1>2 DEF EndArgs, IInv, Running, Counting
  <2> QED BY <1>2, <2>1 DEF EndArgs, optionVars
<1>3. CASE Sample \/ Show \/ Tick \/ (\E k \in Keys : Key(k)) \/ FilterQuit
  <2>1. CASE Sample
    BY <2>1 DEF Sample, Sleeps, loopFrame
  <2>2. CASE Show
    <3>1. ~ Blocking => WaitTicks >= 0
      BY <1>7, WaitNatural
    <3>2. sleep \in Nat /\ WaitTicks \in Int
      BY <1>7, WaitNatural DEF TypeOK
    <3> QED BY <2>2, <3>1, <3>2 DEF Show, loopFrame, Blocking
  <2>3. CASE Tick
    <3>1. sleep \in Nat /\ WaitTicks \in Int /\ elapsed \in Nat
      BY <1>7, WaitNatural DEF TypeOK
    <3>2. /\ UNCHANGED <<phase, status, sleep, frames, ended, delay_time, scr_mode,
                         resctrl_param_enable, timeout>>
          /\ phase \in {"bandwidth", "filter", "wait"}
          /\ elapsed' = elapsed + 1
          /\ phase = "wait" => Blocking \/ elapsed < sleep + WaitTicks
      BY <2>3 DEF Tick, loopFrame
    <3>3. WaitTicks' = WaitTicks /\ Blocking' = Blocking /\ WaitTime' = WaitTime
      BY <3>2 DEF Blocking
    <3> HIDE DEF WaitTicks, WaitTime
    <3> QED BY <3>1, <3>2, <3>3
  <2>4. CASE \E k \in Keys : Key(k)
    <3>1. UNCHANGED <<status, sleep, frames, elapsed, delay_time, scr_mode,
                      resctrl_param_enable, timeout>>
          /\ phase = "wait" /\ phase' \in {"filter", "turn"} /\ ended' = "key"
      BY <2>4 DEF Key, WaitEnds, loopFrame
    <3>3. WaitTicks' = WaitTicks /\ Blocking' = Blocking /\ WaitTime' = WaitTime
      BY <3>1 DEF Blocking
    <3> HIDE DEF WaitTicks, WaitTime
    <3> QED BY <3>1, <3>3
  <2>5. CASE FilterQuit
    <3>1. UNCHANGED <<status, sleep, frames, elapsed, delay_time, scr_mode,
                      resctrl_param_enable, timeout>>
          /\ phase = "filter" /\ phase' = "turn" /\ ended' = "filter"
      BY <2>5 DEF FilterQuit, WaitEnds, loopFrame
    <3> QED BY <3>1
  <2> QED BY <1>3, <2>1, <2>2, <2>3, <2>4, <2>5
<1>4. CASE Timeout
  <2>1. UNCHANGED <<status, sleep, frames, elapsed, delay_time, scr_mode,
                    resctrl_param_enable, timeout>>
        /\ phase = "wait" /\ phase' = "turn"
        /\ elapsed = sleep + WaitTicks
    BY <1>4 DEF Timeout, WaitEnds, loopFrame
  <2>2. elapsed \in Nat
    BY <1>7 DEF TypeOK
  <2>3. WaitTicks' = WaitTicks /\ WaitTime' = WaitTime
    BY <2>1
  <2> HIDE DEF WaitTicks, WaitTime
  <2> QED BY <2>1, <2>2, <2>3
<1>5. CASE Turn
  <2>1. UNCHANGED <<sleep, frames, elapsed, ended, delay_time, scr_mode,
                    resctrl_param_enable, timeout>>
        /\ phase = "turn" /\ phase' \in {"sample", "exit"}
        /\ status' # 1
    BY <1>5 DEF Turn, Exit, loopFrame, IInv, Running
  <2>2. WaitTicks' = WaitTicks /\ WaitTime' = WaitTime /\ Blocking' = Blocking
    BY <2>1 DEF Blocking
  <2>3. status # 1
    BY <2>1 DEF IInv, Running
  <2> HIDE DEF WaitTicks, WaitTime
  <2> QED BY <2>1, <2>2, <2>3
<1>6. CASE UNCHANGED vars
  <2>1. UNCHANGED <<phase, status, sleep, frames, elapsed, ended, delay_time,
                    scr_mode, resctrl_param_enable, timeout>>
    BY <1>6 DEF vars, optionVars
  <2>2. WaitTicks' = WaitTicks /\ WaitTime' = WaitTime /\ Blocking' = Blocking
    BY <2>1 DEF Blocking
  <2> HIDE DEF WaitTicks, WaitTime
  <2> QED BY <2>1, <2>2
<1> QED BY <1>1, <1>2, <1>3, <1>4, <1>5, <1>6 DEF Next, Main

\* Numbers within the range of the remainder are their own.
LEMMA RemainderOfSmall ==
    ASSUME NEW k \in Nat \ {0}, NEW n \in 0..(k - 1)
    PROVE  n % k = n /\ (n + k) % k = n /\ (n - k) % k = n
OBVIOUS

\* A product that an int holds is not changed, and one that an unsigned int
\* holds is found again when the int is taken for one.
LEMMA WrapExact ==
    ASSUME MainLoopAssumption, NEW n \in Int
    PROVE  /\ n \in Int32 => Wrap(n) = n
           /\ n \in 0..(2 * IntMax + 1) => Wrap(n) % (2 * (IntMax + 1)) = n
<1> DEFINE h == IntMax + 1
           k == 2 * h
<1>1. h \in Nat /\ h > 0 /\ k \in Nat \ {0} /\ k = 2 * h
  BY DEF MainLoopAssumption
<1>2. /\ Wrap(n) = ((n + h) % k) - h
      /\ n \in Int32 <=> n + h \in 0..(k - 1)
      /\ n \in 0..(2 * IntMax + 1) <=> n \in 0..(k - 1)
  <2>1. IntMax \in Nat
    BY DEF MainLoopAssumption
  <2>2. n + IntMax + 1 = n + (IntMax + 1)
    BY <2>1
  <2> QED BY <2>1, <2>2 DEF Wrap, Int32
<1>3. 2 * (IntMax + 1) = k
  OBVIOUS
<1> HIDE DEF h, k
<1>4. ASSUME n + h \in 0..(k - 1) PROVE Wrap(n) = n
  <2>1. (n + h) % k = n + h
    BY <1>1, <1>4, RemainderOfSmall
  <2> QED BY <1>1, <1>2, <2>1
<1>5. ASSUME n \in 0..(k - 1) PROVE Wrap(n) % k = n
  <2>1. n % k = n /\ (n - k) % k = n
    BY <1>1, <1>5, RemainderOfSmall
  <2>2. CASE n < h
    <3>1. n + h \in 0..(k - 1)
      BY <1>1, <1>5, <2>2
    <3> QED BY <1>4, <2>1, <3>1
  <2>3. CASE n >= h
    <3> DEFINE m == n - h
    <3>1. m \in 0..(k - 1) /\ n + h = m + k /\ n - k = m - h
      BY <1>1, <1>5, <2>3
    <3>2. (m + k) % k = m
      BY <1>1, <3>1, RemainderOfSmall
    <3>3. Wrap(n) = n - k
      BY <1>2, <3>1, <3>2
    <3> QED BY <2>1, <3>3
  <2> QED BY <1>1, <1>5, <2>2, <2>3
<1> QED BY <1>2, <1>3, <1>4, <1>5

\* The ticks that are waited for are the seconds of -d.
LEMMA WaitsTheDelay ==
    ASSUME MainLoopAssumption, TypeOK, Representable,
           scr_mode = "TERM" => timeout = WaitTime
    PROVE  WaitTicks = delay_time * Micro
<1>1. delay_time \in Int /\ Micro \in Nat \ {0} /\ Milli \in Nat \ {0}
  BY DEF TypeOK, Int32, MainLoopAssumption
<1>2. CASE scr_mode = "TERM"
  <2> DEFINE q == Micro \div Milli
  <2>1. q \in Int /\ Micro = Milli * q
    BY <1>1 DEF MainLoopAssumption
  <2>2. timeout = delay_time * Milli
    <3>1. delay_time * Milli \in Int /\ delay_time * Milli \in Int32
      BY <1>1, <1>2 DEF Representable
    <3> QED BY <1>2, <3>1, WrapExact DEF WaitTime
  <2>3. WaitTicks = (delay_time * Milli) * q
    BY <1>2, <2>2 DEF WaitTicks
  <2>4. \A a, b, c \in Int : (a * b) * c = a * (b * c)
    OBVIOUS
  <2> HIDE DEF q
  <2>5. (delay_time * Milli) * q = delay_time * (Milli * q)
    BY <1>1, <2>1, <2>4
  <2> QED BY <2>1, <2>3, <2>5
<1>3. CASE scr_mode # "TERM"
  <2>1. scr_mode = "TEXT"
    BY <1>3 DEF TypeOK
  <2>2. delay_time * Micro \in Int /\ delay_time * Micro \in 0..(2 * IntMax + 1)
    BY <1>1, <1>3 DEF Representable
  <2> QED BY <2>1, <2>2, WrapExact DEF WaitTicks, SleepTime
<1> QED BY <1>2, <1>3

LEMMA Division ==
    ASSUME NEW k \in Nat \ {0}, NEW n \in Nat
    PROVE  /\ n \div k \in Nat /\ n % k \in 0..(k - 1)
           /\ n = k * (n \div k) + (n % k)
OBVIOUS

\* A number has one remainder.
LEMMA OneRemainder ==
    ASSUME NEW k \in Nat \ {0}, NEW q \in Nat, NEW p \in Nat,
           NEW r \in 0..(k - 1), NEW s \in 0..(k - 1),
           k * q + r = k * p + s
    PROVE  r = s
<1>1. CASE q = p
  BY <1>1
<1>2. CASE q < p
  <2>1. PICK d \in Nat : p = q + d /\ d >= 1
    <3>1. p - q \in Nat /\ p = q + (p - q) /\ p - q >= 1
      BY <1>2
    <3> QED BY <3>1
  <2>2. k * p = k * q + k * d /\ k * d >= k
    BY <2>1
  <2> QED BY <2>2
<1>3. CASE q > p
  <2>1. PICK d \in Nat : q = p + d /\ d >= 1
    <3>1. q - p \in Nat /\ q = p + (q - p) /\ q - p >= 1
      BY <1>3
    <3> QED BY <3>1
  <2>2. k * q = k * p + k * d /\ k * d >= k
    BY <2>1
  <2> QED BY <2>2
<1> QED BY <1>1, <1>2, <1>3

LEMMA RemainderAgain ==
    ASSUME NEW k \in Nat \ {0}, NEW a \in Nat
    PROVE  (a + k) % k = a % k
<1> DEFINE q == a \div k
           p == (a + k) \div k
           r == a % k
           s == (a + k) % k
<1>1. q \in Nat /\ r \in 0..(k - 1) /\ a = k * q + r
  BY Division
<1>2. p \in Nat /\ s \in 0..(k - 1) /\ a + k = k * p + s
  <2>1. a + k \in Nat
    OBVIOUS
  <2> HIDE DEF p, s
  <2> QED BY <2>1, Division DEF p, s
<1> HIDE DEF q, p, r, s
<1>3. k * (q + 1) + r = k * p + s
  <2>1. k * (q + 1) = k * q + k
    BY <1>1
  <2> QED BY <1>1, <1>2, <2>1
<1>4. q + 1 \in Nat
  BY <1>1
<1>5. r = s
  BY <1>1, <1>2, <1>3, <1>4, OneRemainder
<1> QED BY <1>5 DEF r, s

\* What a wrapped number is, if it is not negative, is not above the number; nor
\* is what an unsigned int makes of it.
LEMMA WrapShortens ==
    ASSUME MainLoopAssumption, NEW n \in Nat
    PROVE  /\ Wrap(n) <= n
           /\ Wrap(n) % (2 * (IntMax + 1)) \in 0..n
<1> DEFINE h == IntMax + 1
           k == 2 * h
<1>1. h \in Nat /\ h > 0 /\ k \in Nat \ {0} /\ k = 2 * h
  BY DEF MainLoopAssumption
<1>2. Wrap(n) = ((n + h) % k) - h /\ 2 * (IntMax + 1) = k
  <2>1. IntMax \in Nat
    BY DEF MainLoopAssumption
  <2>2. n + IntMax + 1 = n + (IntMax + 1)
    BY <2>1
  <2> QED BY <2>1, <2>2 DEF Wrap
<1> HIDE DEF h, k
<1>3. \A a \in Nat : a % k \in 0..(k - 1) /\ a % k <= a /\ (a < k => a % k = a)
  BY <1>1, Z3
<1>4. Wrap(n) <= n
  BY <1>1, <1>2, <1>3
<1>5. Wrap(n) % k \in 0..n
  <2> DEFINE m == (n + h) % k
  <2>1. m \in 0..(k - 1) /\ m <= n + h /\ Wrap(n) = m - h
    BY <1>1, <1>2, <1>3
  <2>2. CASE m >= h
    <3>1. m - h \in Nat /\ m - h < k /\ m - h <= n
      BY <1>1, <2>1, <2>2
    <3> QED BY <1>3, <2>1, <3>1
  <2>3. CASE m < h
    <3>1. n + h >= k
      <4>1. n + h < k => m = n + h
        BY <1>1, <1>3
      <4> QED BY <1>1, <2>1, <2>3, <4>1
    <3>2. (m - h) % k = m + h
      <4>1. m + h \in 0..(k - 1) /\ (m + h) - k = m - h
        BY <1>1, <2>1, <2>3
      <4> QED BY <1>1, <4>1, RemainderOfSmall
    <3>3. m + h <= n
      <4>1. (n + h) - k \in Nat
        BY <1>1, <3>1
      <4>3. ((n + h) - k) % k = m
        <5>1. ((n + h) - k) + k = n + h
          BY <1>1
        <5> QED BY <1>1, <4>1, <5>1, RemainderAgain
      <4>2. m <= (n + h) - k
        BY <1>3, <4>1, <4>3
      <4> QED BY <1>1, <2>1, <4>2
    <3> QED BY <1>1, <2>1, <3>2, <3>3
  <2> QED BY <1>1, <2>1, <2>2, <2>3
<1> QED BY <1>2, <1>4, <1>5

\* A wait that ends by itself is not longer than the seconds of -d.
LEMMA WaitsAtMostTheDelay ==
    ASSUME MainLoopAssumption, TypeOK, ~ Blocking, delay_time >= 0,
           scr_mode = "TERM" => timeout = WaitTime
    PROVE  WaitTicks <= delay_time * Micro
<1>1. delay_time \in Nat /\ Micro \in Nat \ {0} /\ Milli \in Nat \ {0}
  BY DEF TypeOK, Int32, MainLoopAssumption
<1>2. CASE scr_mode = "TERM"
  <2> DEFINE q == Micro \div Milli
  <2>1. q \in Nat /\ Micro = Milli * q
    BY <1>1 DEF MainLoopAssumption
  <2>2. timeout \in Nat /\ timeout <= delay_time * Milli
    <3>1. delay_time * Milli \in Nat
      BY <1>1
    <3>2. timeout \in Int /\ timeout >= 0
      BY <1>2 DEF Blocking, TypeOK, Int32, MainLoopAssumption
    <3> QED BY <1>2, <3>1, <3>2, WrapShortens DEF WaitTime
  <2>3. WaitTicks = timeout * q
    BY <1>2 DEF WaitTicks
  <2>4. \A a, b, c \in Nat : a <= b => a * c <= b * c
    OBVIOUS
  <2>5. \A a, b, c \in Nat : (a * b) * c = a * (b * c) /\ a * b \in Nat
    OBVIOUS
  <2> HIDE DEF q
  <2>6. timeout * q <= (delay_time * Milli) * q
    BY <1>1, <2>1, <2>2, <2>4, <2>5
  <2>7. (delay_time * Milli) * q = delay_time * (Milli * q)
    BY <1>1, <2>1, <2>5
  <2> QED BY <2>1, <2>3, <2>6, <2>7
<1>3. CASE scr_mode # "TERM"
  <2>1. scr_mode = "TEXT"
    BY <1>3 DEF TypeOK
  <2>2. delay_time * Micro \in Nat
    BY <1>1
  <2> QED BY <2>1, <2>2, WrapShortens DEF WaitTicks, SleepTime
<1> QED BY <1>2, <1>3

\* Counters are read as many seconds apart as the usages are divided by, if no key
\* hastened the wait and the delay's product fits its C type, and the time that
\* the sample slept for -G; and whatever the keys and the delay, not longer
\* (wtimeout, usleep).
THEOREM IntervalsExact == MainLoopAssumption => (Spec => IntervalExact)
<1> SUFFICES ASSUME MainLoopAssumption
             PROVE  Spec => IntervalExact
  OBVIOUS
<1>1. Init => Timing
  BY DEF Init, Timing
<1>2. IInv /\ Timing /\ [Next]_vars => Timing'
  BY TimingStep
<1>3. IInv /\ Timing =>
        [TakesSample =>
            /\ ended \in {"timeout", "sleep"} /\ Representable
                => elapsed = delay_time * Micro + sleep
            /\ ended # "filter" /\ ~ Blocking
                => elapsed <= delay_time * Micro + sleep
            /\ ~ resctrl_param_enable => sleep = 0]_vars
  <2> SUFFICES ASSUME IInv, Timing, TakesSample
               PROVE  /\ ended \in {"timeout", "sleep"} /\ Representable
                            => elapsed = delay_time * Micro + sleep
                      /\ ended # "filter" /\ ~ Blocking
                            => elapsed <= delay_time * Micro + sleep
                      /\ ~ resctrl_param_enable => sleep = 0
    OBVIOUS
  <2>1. /\ phase = "sample" /\ frames > 0 /\ TypeOK
        /\ scr_mode = "TERM" => timeout = WaitTime
    BY DEF IInv, Timing, TakesSample
  <2>2. elapsed \in Int /\ delay_time * Micro \in Int /\ sleep \in Nat
    BY DEF IInv, TypeOK, Int32, MainLoopAssumption
  <2>3. ASSUME ended \in {"timeout", "sleep"}, Representable
        PROVE  elapsed = delay_time * Micro + sleep
    <3>1. elapsed = sleep + WaitTicks
      BY <2>1, <2>3 DEF Timing
    <3>2. WaitTicks = delay_time * Micro
      BY <2>1, <2>3, WaitsTheDelay
    <3> QED BY <2>2, <3>1, <3>2
  <2>4. ASSUME ended # "filter", ~ Blocking
        PROVE  elapsed <= delay_time * Micro + sleep
    <3>1. elapsed <= sleep + WaitTicks
      BY <2>1, <2>4 DEF Timing
    <3>2. delay_time >= 0
      BY <2>1 DEF IInv, Running, Timing
    <3>3. WaitTicks <= delay_time * Micro
      BY <2>1, <2>4, <3>2, WaitsAtMostTheDelay
    <3>4. WaitTicks \in Int
      BY <2>1, WaitNatural
    <3> QED BY <2>2, <3>1, <3>3, <3>4
  <2>5. ~ resctrl_param_enable => sleep = 0
    BY <2>1 DEF Timing
  <2> QED BY <2>3, <2>4, <2>5
<1> QED BY <1>1, <1>2, <1>3, Inductive, PTL DEF IntervalExact, Spec
=============================================================================
