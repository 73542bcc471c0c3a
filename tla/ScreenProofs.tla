---------------------------- MODULE ScreenProofs ----------------------------
(***************************************************************************)
(* Proofs about Screen: whatever is sampled and pressed, on screens of any *)
(* size, and with any number of fields.                                    *)
(***************************************************************************)
EXTENDS Screen, SumProofs

USE ScreenAssumption DEF ScreenAssumption
-----------------------------------------------------------------------------
(***************************************************************************)
(* Types.                                                                  *)
(***************************************************************************)
LEMMA FieldNumbers ==
    /\ FD_NODE0 \in Nat /\ FD_END \in Nat /\ FD_NODE0 >= 2
    /\ FD_NODE0 < FD_END /\ FD_NODE0 \in Fields
    /\ Fields \subseteq Nat /\ Fixed \subseteq Fields
BY DEF FD_NODE0, FD_END, Fields, Fixed, FD_DID, FD_VMNAME

LEMMA TotalIsNat ==
    ASSUME NEW list \in Lists \cup {<<>>}, NEW threads
    PROVE  Total(list, threads) \in Nat
<1>1. list \in Seq(Nat)
  <2>1. <<>> \in Seq(Nat)
    OBVIOUS
  <2> QED BY <2>1
<1>2. /\ Len(list) \in Nat /\ DOMAIN list = 1..Len(list)
      /\ \A i \in DOMAIN list : list[i] \in Nat
  BY <1>1
<1>3. IsFiniteSet(DOMAIN list)
  BY <1>2, FS_Interval
<1>4. SumFunction(list) \in Nat
  BY <1>2, <1>3, SumIsNat DEF SumFunction
<1> QED BY <1>2, <1>4 DEF Total, TaskNum

LEMMA SumOfLengths ==
    ASSUME NEW S, IsFiniteSet(S), NEW f, \A i \in S : f[i] \in Nat,
           f = [i \in S |-> f[i]]
    PROVE  SumFunction(f) \in Nat
<1>1. DOMAIN f = S
  OBVIOUS
<1> QED BY <1>1, SumIsNat DEF SumFunction

\* A text takes one line if it is shorter than the screen is wide.
LEMMA LinesAreNat ==
    ASSUME NEW length \in Nat, NEW width \in Nat \ {0}
    PROVE  /\ LinesOf(length, width) \in Nat /\ LinesOf(length, width) >= 1
           /\ length < width => LinesOf(length, width) = 1
<1>1. length \div width \in Nat /\ (length < width => length \div width = 0)
  BY SMTT(30)
<1> QED BY <1>1 DEF LinesOf

LEMMA DigitsAreNat ==
    ASSUME NEW n PROVE Digits(n) \in Nat /\ Digits(n) <= 10
<1> DEFINE S == {k \in 1..9 : n >= 10^k}
<1>1. IsFiniteSet(1..9) /\ Cardinality(1..9) = 9
  <2>1. PICK a \in Int, b \in Int : a = 1 /\ b = 9
    OBVIOUS
  <2>2. IsFiniteSet(a..b) /\ Cardinality(a..b) = IF a > b THEN 0 ELSE b - a + 1
    BY FS_Interval
  <2> QED BY <2>1, <2>2
<1>2. IsFiniteSet(S) /\ Cardinality(S) <= Cardinality(1..9)
  <2>1. S \in SUBSET (1..9)
    OBVIOUS
  <2> HIDE DEF S
  <2> QED BY <1>1, <2>1, FS_Subset
<1>3. Cardinality(S) \in Nat
  BY <1>2, FS_CardinalityType
<1>4. Digits(n) = 1 + Cardinality(S)
  BY DEF Digits
<1> HIDE DEF S
<1> QED BY <1>1, <1>2, <1>3, <1>4

LEMMA TopIsNat ==
    ASSUME NEW num, NEW resctrl \in BOOLEAN, NEW nodes \in 0..MaxNodeNum,
           NEW digits \in [0..nodes -> BandDigits], NEW width \in Widths
    PROVE  LET top == TopLines(num, resctrl, nodes, digits, width)
           IN  /\ top \in Nat /\ top >= 4
               /\ ~ resctrl /\ Title < width => top = 4
<1>1. width \in Nat \ {0} /\ Title \in Nat /\ Title >= 30
  OBVIOUS
<1>2. Digits(num) \in Nat /\ Digits(num) <= 10
  BY DigitsAreNat
<1>3. PICK a \in Nat, b \in Nat :
        /\ a = LinesOf(Title, width) /\ b = LinesOf(17 + Digits(num), width)
        /\ a >= 1 /\ b >= 1
        /\ Title < width => a = 1 /\ b = 1
  <2>1. 17 + Digits(num) \in Nat /\ 17 + Digits(num) < 30
    BY <1>2
  <2>2. Title < width => 17 + Digits(num) < width
    BY <1>1, <2>1
  <2> QED BY <1>1, <2>1, <2>2, LinesAreNat
<1>4. BandwidthLines(nodes, digits, width) \in Nat
  <2>1. nodes \in Nat /\ \A i \in 0..nodes : digits[i] \in Nat
    <3>1. \A i \in 0..nodes : digits[i] \in BandDigits
      OBVIOUS
    <3>2. BandDigits \subseteq Nat /\ nodes \in Nat
      OBVIOUS
    <3> QED BY <3>1, <3>2, Zenon
  <2>2. LinesOf(22 + digits[nodes], width) \in Nat
    <3>1. 22 + digits[nodes] \in Nat
      BY <2>1
    <3> QED BY <1>1, <3>1, LinesAreNat
  <2>3. ASSUME NEW i \in 0..(nodes - 1)
        PROVE  LinesOf(18 + Digits(i) + digits[i], width) \in Nat
    <3>1. Digits(i) \in Nat
      BY DigitsAreNat
    <3>2. digits[i] \in Nat
      BY <2>1
    <3>3. 18 + Digits(i) + digits[i] \in Nat
      BY <3>1, <3>2
    <3> QED BY <1>1, <3>3, LinesAreNat
  <2> DEFINE f == [i \in 0..(nodes - 1) |->
                    LinesOf(18 + Digits(i) + digits[i], width)]
  <2>4. IsFiniteSet(0..(nodes - 1))
    BY <2>1, FS_Interval
  <2>5. \A i \in 0..(nodes - 1) : f[i] \in Nat
    BY <2>3
  <2>6. f = [i \in 0..(nodes - 1) |-> f[i]]
    OBVIOUS
  <2>7. BandwidthLines(nodes, digits, width) =
            LinesOf(22 + digits[nodes], width) + SumFunction(f)
    BY DEF BandwidthLines
  <2> HIDE DEF f
  <2>8. SumFunction(f) \in Nat
    BY <2>4, <2>5, <2>6, SumOfLengths
  <2> QED BY <2>2, <2>7, <2>8
<1>5. TopLines(num, resctrl, nodes, digits, width) =
        a + b + 2 + (IF resctrl THEN BandwidthLines(nodes, digits, width) ELSE 0)
  BY <1>3 DEF TopLines
<1>6. CASE resctrl
  BY <1>3, <1>4, <1>5, <1>6
<1>7. CASE ~ resctrl
  <2>1. TopLines(num, resctrl, nodes, digits, width) = a + b + 2
    BY <1>3, <1>5, <1>7
  <2>2. a + b + 2 \in Nat /\ a + b + 2 >= 4 /\ (Title < width => a + b + 2 = 4)
    BY <1>3
  <2> QED BY <2>1, <2>2, Zenon
<1> QED BY <1>6, <1>7

\* What most keys leave alone.
LEMMA ScreenTyped ==
    ASSUME TypeOK, UNCHANGED <<screenVars, frame>>
    PROVE  /\ nlwp' \in Lists \cup {<<>>}
           /\ node_num' \in 0..MaxNodeNum
           /\ resctrl_enable' \in BOOLEAN
           /\ scr_row_size' \in Heights \cup {2048}
           /\ scr_col_size' \in Widths \cup {1024}
           /\ frame' \in [tasks : SUBSET Nat, total : Nat, rows : Nat,
                           top : Nat, threads : Flags]
<1>1. /\ nlwp' = nlwp /\ node_num' = node_num
      /\ resctrl_enable' = resctrl_enable
      /\ scr_row_size' = scr_row_size /\ scr_col_size' = scr_col_size
      /\ frame' = frame
  BY DEF screenVars
<1> QED BY <1>1 DEF TypeOK

LEMMA AllTyped ==
    ASSUME mode' \in {"loop", "shown", "filter", "done"},
           nlwp' \in Lists \cup {<<>>},
           node_num' \in 0..MaxNodeNum,
           resctrl_enable' \in BOOLEAN,
           scr_row_size' \in Heights \cup {2048},
           scr_col_size' \in Widths \cup {1024},
           begin_task' \in (-MaxBegin)..MaxBegin,
           begin_field' \in Int,
           thread_mode' \in Flags,
           display_flag' \in [Fields -> Flags],
           high_light' \in Fields,
           frame' \in [tasks : SUBSET Nat, total : Nat, rows : Nat,
                       top : Nat, threads : Flags],
           key' \in AllKeys \cup {"none"},
           chosen' \in [DOMAIN chosen' -> Flags], DOMAIN chosen' \subseteq Fields
    PROVE  TypeOK'
BY SMTT(30) DEF TypeOK

LEMMA FrameTyped ==
    ASSUME TypeOK, MakeFrame
    PROVE  TypeOK'
<1>1. /\ nlwp' \in Lists /\ scr_row_size' \in Heights /\ scr_col_size' \in Widths
      /\ resctrl_enable' \in BOOLEAN /\ node_num' \in 0..MaxNodeNum
  <2>1. /\ nlwp' \in Lists /\ scr_row_size' \in Heights
        /\ scr_col_size' \in Widths
    BY DEF MakeFrame
  <2>2. resctrl_enable' \in BOOLEAN
    <3>1. CASE HaveResctrl
      BY <3>1, Zenon DEF MakeFrame
    <3>2. CASE ~ HaveResctrl
      <4>1. resctrl_enable' \in {FALSE}
        BY <3>2 DEF MakeFrame
      <4> QED BY <4>1, Zenon
    <3> QED BY <3>1, <3>2
  <2>3. node_num' \in 0..MaxNodeNum
    <3>1. CASE resctrl_enable'
      BY <3>1, Zenon DEF MakeFrame
    <3>2. CASE ~ resctrl_enable'
      <4>1. node_num' \in {node_num}
        BY <3>2, Zenon DEF MakeFrame
      <4> QED BY <4>1 DEF TypeOK
    <3> QED BY <3>1, <3>2
  <2> QED BY <2>1, <2>2, <2>3
<1>2. display_flag' \in [Fields -> Flags]
  BY DEF TypeOK, MakeFrame, HeaderFlags, Flags
<1>3. Total(nlwp', thread_mode) \in Nat
  BY <1>1, TotalIsNat
<1>4. PICK digits \in [0..node_num' -> BandDigits] :
        frame' = [tasks |-> {n \in 1..Total(nlwp', thread_mode) :
                                Drawn(n, scr_row_size')},
                  total |-> Total(nlwp', thread_mode),
                  rows |-> scr_row_size',
                  top |-> TopLines(Len(nlwp'), resctrl_enable', node_num',
                                   digits, scr_col_size'),
                  threads |-> thread_mode]
  BY DEF MakeFrame
<1>5. frame' \in [tasks : SUBSET Nat, total : Nat, rows : Nat, top : Nat,
                  threads : Flags]
  <2>1. {n \in 1..Total(nlwp', thread_mode) : Drawn(n, scr_row_size')}
            \in SUBSET Nat
    BY <1>3
  <2>2. scr_row_size' \in Nat /\ thread_mode \in Flags
    BY <1>1 DEF TypeOK
  <2>3. TopLines(Len(nlwp'), resctrl_enable', node_num', digits, scr_col_size')
            \in Nat
    BY <1>1, TopIsNat
  <2> QED BY <1>3, <1>4, <2>1, <2>2, <2>3
<1>6. /\ begin_task' \in (-MaxBegin)..MaxBegin /\ begin_field' \in Int
      /\ thread_mode' \in Flags /\ high_light' \in Fields
      /\ key' \in AllKeys \cup {"none"}
      /\ chosen' \in [DOMAIN chosen' -> Flags] /\ DOMAIN chosen' \subseteq Fields
      /\ mode' = "shown"
  <2>1. /\ begin_task' = begin_task /\ begin_field' = begin_field
        /\ thread_mode' = thread_mode /\ high_light' = high_light
        /\ key' = key /\ chosen' = chosen /\ mode' = "shown"
    BY DEF MakeFrame, scrollVars
  <2> QED BY SMTT(30), <2>1 DEF TypeOK
<1>7. nlwp' \in Lists \cup {<<>>} /\ scr_row_size' \in Heights \cup {2048}
      /\ scr_col_size' \in Widths \cup {1024}
      /\ mode' \in {"loop", "shown", "filter", "done"}
  BY <1>1, <1>6
<1> QED BY SMTT(30), <1>1, <1>2, <1>5, <1>6, <1>7, AllTyped

LEMMA KeyTyped ==
    ASSUME TypeOK,
           \/ Timeout \/ KeyUp \/ KeyDown \/ KeyNpage \/ KeyPpage
           \/ KeyLeft \/ KeyRight \/ KeyThreads \/ KeyQuit \/ KeyFilter
    PROVE  TypeOK'
<1>1. /\ UNCHANGED <<screenVars, display_flag, frame, chosen>>
      /\ key' \in AllKeys \cup {"none"}
      /\ mode' \in {"loop", "shown", "filter", "done"}
  <2>1. UNCHANGED <<screenVars, display_flag, frame, chosen>>
    BY DEF Timeout, KeyUp, KeyDown, KeyNpage, KeyPpage, KeyLeft, KeyRight,
       KeyThreads, KeyQuit, KeyFilter, Pressed
  <2>2. key' \in AllKeys \cup {"none"}
    <3>1. \A k : Pressed(k) => key' \in AllKeys
      BY DEF Pressed
    <3>2. Timeout => key' = "none"
      BY DEF Timeout
    <3> QED BY <3>1, <3>2 DEF KeyUp, KeyDown, KeyNpage, KeyPpage, KeyLeft,
                KeyRight, KeyThreads, KeyQuit, KeyFilter
  <2>3. mode' \in {"loop", "shown", "filter", "done"}
    BY DEF Timeout, KeyUp, KeyDown, KeyNpage, KeyPpage, KeyLeft, KeyRight,
       KeyThreads, KeyQuit, KeyFilter, ScrollDown, ScrollUp
  <2> QED BY <2>1, <2>2, <2>3
<1>2. high_light' \in Fields
  <2>1. high_light' = high_light \/ high_light' = 0
    BY DEF Timeout, KeyUp, KeyDown, KeyNpage, KeyPpage, KeyLeft, KeyRight,
       KeyThreads, KeyQuit, KeyFilter, ScrollDown, ScrollUp
  <2>2. high_light \in Fields
    BY DEF TypeOK
  <2> QED BY <2>1, <2>2, FieldNumbers DEF Fields
<1>3. scr_row_size \in Nat
  BY DEF TypeOK
<1>4. begin_task' \in (-MaxBegin)..MaxBegin
  <2>1. ASSUME NEW size \in Int, ScrollUp(size)
        PROVE  begin_task' \in (-MaxBegin)..MaxBegin
    <3>1. begin_task' \in Int /\ begin_task' >= 1 /\ begin_task' <= MaxBegin
      BY SMTT(30), <2>1 DEF TypeOK, ScrollUp
    <3> QED BY <3>1
  <2>2. ASSUME NEW size, ScrollDown(size)
        PROVE  begin_task' \in (-MaxBegin)..MaxBegin
    BY <2>2 DEF ScrollDown
  <2>3. CASE KeyUp \/ KeyDown \/ KeyNpage \/ KeyPpage
    <3>1. PageSize \in Int
      BY <1>3 DEF PageSize
    <3> QED BY <2>1, <2>2, <2>3, <3>1 DEF KeyUp, KeyDown, KeyNpage, KeyPpage
  <2>4. CASE Timeout \/ KeyLeft \/ KeyRight \/ KeyThreads \/ KeyQuit \/ KeyFilter
    BY <2>4 DEF TypeOK, Timeout, KeyLeft, KeyRight, KeyThreads, KeyQuit,
       KeyFilter, scrollVars
  <2> QED BY <2>3, <2>4
<1>5. begin_field' \in Int
  <2>1. RightLimit \in Int
    <3>1. IsFiniteSet(Fields)
      BY FieldNumbers, FS_Interval DEF Fields
    <3>2. Displayed \in SUBSET Fields
      BY DEF Displayed
    <3> QED BY <3>1, <3>2, FS_Subset, FS_CardinalityType
            DEF RightLimit, ShowFieldNum
  <2> QED BY SMTT(30), <2>1
          DEF TypeOK, Timeout, KeyUp, KeyDown, KeyNpage, KeyPpage, KeyLeft,
          LeftOf, KeyRight, RightOf, KeyThreads, KeyQuit, KeyFilter, ScrollDown, ScrollUp,
          scrollVars
<1>6. thread_mode' \in Flags
  BY DEF TypeOK, Flags, Timeout, KeyUp, KeyDown, KeyNpage, KeyPpage, KeyLeft,
     KeyRight, KeyThreads, KeyQuit, KeyFilter, ScrollDown, ScrollUp, scrollVars
<1>7. /\ display_flag' \in [Fields -> Flags]
      /\ chosen' \in [DOMAIN chosen' -> Flags] /\ DOMAIN chosen' \subseteq Fields
  BY SMTT(30), <1>1 DEF TypeOK
<1>8. UNCHANGED <<screenVars, frame>>
  BY <1>1
<1> QED BY <1>1, <1>2, <1>4, <1>5, <1>6, <1>7, <1>8, ScreenTyped, AllTyped

LEMMA FilterTyped ==
    ASSUME TypeOK, FilterUp \/ FilterDown \/ FilterToggle \/ FilterQuit
    PROVE  TypeOK'
<1>1. /\ UNCHANGED <<screenVars, scrollVars, frame, key>>
      /\ mode' \in {"loop", "filter"}
  <2>1. UNCHANGED <<screenVars, scrollVars, frame, key>>
    BY DEF FilterUp, FilterDown, FilterToggle, FilterQuit, InFilter
  <2>2. mode' \in {"loop", "filter"}
    BY DEF FilterUp, FilterDown, FilterToggle, FilterQuit, InFilter
  <2> QED BY <2>1, <2>2
<1>2. high_light' \in Fields
  <2>1. high_light \in 0..(FD_END - 1)
    BY DEF TypeOK, Fields
  <2> QED BY <2>1, FieldNumbers
          DEF FilterUp, FilterDown, FilterToggle, FilterQuit, Fields
<1>3. /\ display_flag' \in [Fields -> Flags]
      /\ chosen' \in [DOMAIN chosen' -> Flags] /\ DOMAIN chosen' \subseteq Fields
  <2>1. CASE FilterToggle
    <3>1. high_light \in Fields /\ display_flag[high_light] \in Flags
      BY DEF TypeOK
    <3>2. 1 - display_flag[high_light] \in Flags
      BY <3>1 DEF Flags
    <3>3. display_flag' = [display_flag EXCEPT ![high_light] =
                                1 - display_flag[high_light]]
      BY <2>1 DEF FilterToggle
    <3>4. display_flag' \in [Fields -> Flags]
      BY <3>2, <3>3 DEF TypeOK
    <3>5. chosen' = [i \in DOMAIN chosen \cup {high_light} |->
                        IF i = high_light THEN display_flag'[i] ELSE chosen[i]]
      BY <2>1 DEF FilterToggle
    <3>6. /\ chosen \in [DOMAIN chosen -> Flags]
          /\ DOMAIN chosen \subseteq Fields
      BY SMTT(30) DEF TypeOK
    <3>7. \A i \in DOMAIN chosen \cup {high_light} :
            (IF i = high_light THEN display_flag'[i] ELSE chosen[i]) \in Flags
      BY <3>1, <3>4, <3>6
    <3> QED BY <3>1, <3>4, <3>5, <3>6, <3>7
  <2>2. CASE FilterUp \/ FilterDown \/ FilterQuit
    BY SMTT(30), <2>2 DEF TypeOK, FilterUp, FilterDown, FilterQuit
  <2> QED BY <2>1, <2>2
<1>4. /\ begin_task' \in (-MaxBegin)..MaxBegin /\ begin_field' \in Int
      /\ thread_mode' \in Flags
      /\ key' \in AllKeys \cup {"none"}
      /\ mode' \in {"loop", "shown", "filter", "done"}
  BY <1>1 DEF scrollVars, TypeOK
<1>5. UNCHANGED <<screenVars, frame>>
  BY <1>1
<1> QED BY <1>2, <1>3, <1>4, <1>5, ScreenTyped, AllTyped

LEMMA TypeInit == Init => TypeOK
<1>1. \A i \in Fields : TableFlags[i] \in Flags
  BY DEF TableFlags, Flags
<1>2. TableFlags \in [Fields -> Flags]
  BY <1>1 DEF TableFlags
<1>3. 0 \in Fields
  BY FieldNumbers DEF Fields
<1>4. NoFrame \in [tasks : SUBSET Nat, total : Nat, rows : Nat, top : Nat,
                   threads : Flags]
  BY DEF NoFrame, Flags
<1>5. 1 \in (-MaxBegin)..MaxBegin
  OBVIOUS
<1>6. <<>> \in [DOMAIN <<>> -> Flags] /\ DOMAIN <<>> \subseteq Fields
  OBVIOUS
<1>7. FALSE \in BOOLEAN
  OBVIOUS
<1> QED BY <1>2, <1>3, <1>4, <1>5, <1>6, <1>7 DEF Init, TypeOK

LEMMA TypeKeeps == TypeOK /\ [Next]_vars => TypeOK'
<1>1. ASSUME TypeOK, UNCHANGED vars PROVE TypeOK'
  BY SMTT(30), <1>1 DEF TypeOK, vars, screenVars, scrollVars
<1> QED BY <1>1, FrameTyped, KeyTyped, FilterTyped DEF Next

\* The variables keep their types; in particular the bar of the filter stays
\* on a field, and no scroll position leaves the numbers there are
\* (show_filter, parse_keys).
THEOREM TypeCorrect == Spec => []TypeOK
BY TypeInit, TypeKeeps, PTL DEF Spec
-----------------------------------------------------------------------------
(***************************************************************************)
(* The field filter.                                                       *)
(***************************************************************************)
LEMMA FewerNodes ==
    ASSUME NEW num \in 0..MaxNodeNum
    PROVE  NodeFields(num) \subseteq NodeFields(MaxNodeNum)
BY FieldNumbers DEF NodeFields

\* For a field that is no node, what the user chose in the filter, or the table
\* says, holds in every frame (show_filter, show_header).
THEOREM ChoiceIsKept == Spec => []FilterHolds
<1>1. Init => FilterHolds
  BY DEF Init, FilterHolds
<1>2. TypeOK /\ FilterHolds /\ [Next]_vars => FilterHolds'
  <2> SUFFICES ASSUME TypeOK, FilterHolds, [Next]_vars,
                      NEW i \in Fields \ NodeFields(MaxNodeNum)
               PROVE  display_flag'[i] = IF i \in DOMAIN chosen' THEN chosen'[i]
                                         ELSE TableFlags[i]
    BY DEF FilterHolds
  <2>1. display_flag[i] = IF i \in DOMAIN chosen THEN chosen[i]
                          ELSE TableFlags[i]
    BY DEF FilterHolds
  <2>2. CASE MakeFrame
    <3>1. node_num' \in 0..MaxNodeNum
      BY <2>2, FrameTyped DEF TypeOK
    <3>2. i \notin NodeFields(node_num')
      BY <3>1, FewerNodes
    <3>3. display_flag' = HeaderFlags(display_flag, resctrl_enable', node_num')
          /\ chosen' = chosen
      BY <2>2 DEF MakeFrame
    <3>4. display_flag'[i] = display_flag[i]
      BY <3>2, <3>3 DEF HeaderFlags
    <3> QED BY <2>1, <3>3, <3>4
  <2>3. CASE FilterToggle
    <3>1. display_flag' = [display_flag EXCEPT ![high_light] = 1 - @]
          /\ chosen' = [j \in DOMAIN chosen \cup {high_light} |->
                         IF j = high_light THEN display_flag'[j] ELSE chosen[j]]
      BY <2>3 DEF FilterToggle
    <3>2. CASE i = high_light
      BY <3>1, <3>2
    <3>3. CASE i # high_light
      <4>1. display_flag'[i] = display_flag[i]
        BY <3>1, <3>3
      <4>2. DOMAIN chosen' = DOMAIN chosen \cup {high_light}
        BY <3>1
      <4>3. i \in DOMAIN chosen' <=> i \in DOMAIN chosen
        BY <3>3, <4>2
      <4>4. i \in DOMAIN chosen => chosen'[i] = chosen[i]
        BY <3>1, <3>3
      <4> QED BY <2>1, <4>1, <4>3, <4>4
    <3> QED BY <3>2, <3>3
  <2>4. ASSUME ~ MakeFrame, ~ FilterToggle
        PROVE  display_flag' = display_flag /\ chosen' = chosen
    BY <2>4 DEF Next, vars, Timeout, KeyUp, KeyDown, KeyNpage, KeyPpage,
       KeyLeft, KeyRight, KeyThreads, KeyQuit, KeyFilter, Pressed, FilterUp,
       FilterDown, FilterQuit
  <2> QED BY <2>1, <2>2, <2>3, <2>4
<1> QED BY <1>1, <1>2, TypeCorrect, PTL DEF Spec
-----------------------------------------------------------------------------
(***************************************************************************)
(* Tasks and pages.  A frame is known by the position it was drawn at, and *)
(* between a key and the next frame the new position is known by the old   *)
(* one, which nothing else remembers.                                      *)
(***************************************************************************)
\* The tasks that are drawn from position b.
TaskLines(b, rows, total) ==
    {n \in 1..total : n >= b /\ n - b <= rows - 5}

\* What is on the screen was drawn from the lists and the position there are.
Framed ==
    mode = "shown" =>
        /\ frame.total = Total(nlwp, thread_mode)
        /\ frame.rows = scr_row_size
        /\ frame.top >= 4
        /\ ~ resctrl_enable /\ Title < scr_col_size => frame.top = 4
        /\ frame.tasks = TaskLines(begin_task, frame.rows, frame.total)

\* The position is size further than the one the frame was drawn at, as far
\* as there are tasks.
MovedBy(size) ==
    \E b \in (-MaxBegin)..MaxBegin :
        /\ frame.tasks = TaskLines(b, frame.rows, frame.total)
        /\ begin_task = IF b + size > frame.total THEN frame.total ELSE b + size

Turned ==
    /\ mode = "loop" /\ key = "up" => MovedBy(1)
    /\ mode = "loop" /\ key = "npage" => MovedBy(frame.rows - 6)
    /\ mode = "filter" => key = "f"

PageInv == TypeOK /\ Framed /\ Turned

LEMMA TotalNow == ASSUME TypeOK PROVE Total(nlwp, thread_mode) \in Nat
<1>1. nlwp \in Lists \cup {<<>>}
  BY DEF TypeOK
<1> QED BY <1>1, TotalIsNat, Zenon

LEMMA PageInit == Init => PageInv
<1>1. Init => Framed /\ Turned
  BY DEF Init, Framed, Turned
<1> QED BY <1>1, TypeInit DEF PageInv

LEMMA FramePages ==
    ASSUME PageInv, MakeFrame
    PROVE  Framed' /\ Turned'
<1>1. /\ mode' = "shown" /\ thread_mode' = thread_mode /\ begin_task' = begin_task
      /\ \E digits \in [0..node_num' -> BandDigits] :
            frame' = [tasks |-> {n \in 1..Total(nlwp', thread_mode) :
                                    Drawn(n, scr_row_size')},
                      total |-> Total(nlwp', thread_mode),
                      rows |-> scr_row_size',
                      top |-> TopLines(Len(nlwp'), resctrl_enable', node_num',
                                       digits, scr_col_size'),
                      threads |-> thread_mode]
  BY DEF MakeFrame, scrollVars
<1>4. /\ resctrl_enable' \in BOOLEAN /\ node_num' \in 0..MaxNodeNum
      /\ scr_col_size' \in Widths
  <2>1. scr_col_size' \in Widths
    BY DEF MakeFrame
  <2> QED BY <2>1, FrameTyped DEF PageInv, TypeOK
<1>5. /\ frame'.top >= 4
      /\ ~ resctrl_enable' /\ Title < scr_col_size' => frame'.top = 4
  BY <1>1, <1>4, TopIsNat
<1>2. frame'.tasks = TaskLines(begin_task, scr_row_size', Total(nlwp', thread_mode))
  BY <1>1 DEF Drawn, TaskLines
<1>3. Framed'
  BY <1>1, <1>2, <1>5 DEF Framed
<1> QED BY <1>1, <1>3 DEF Turned

\* A scroll key: the position moves away from the one that was drawn.
LEMMA KeyPages ==
    ASSUME PageInv, mode = "shown", NEW size, ScrollDown(size),
           UNCHANGED <<screenVars, frame>>
    PROVE  MovedBy(size)'
<1>1. /\ begin_task \in (-MaxBegin)..MaxBegin
      /\ frame.total = Total(nlwp, thread_mode)
      /\ frame.tasks = TaskLines(begin_task, frame.rows, frame.total)
  BY DEF PageInv, Framed, TypeOK
<1>2. /\ frame' = frame
      /\ begin_task' = IF begin_task + size > frame.total THEN frame.total
                       ELSE begin_task + size
  BY <1>1 DEF ScrollDown
<1>3. MovedBy(size)' <=>
        \E b \in (-MaxBegin)..MaxBegin :
            /\ frame'.tasks = TaskLines(b, frame'.rows, frame'.total)
            /\ begin_task' = IF b + size > frame'.total THEN frame'.total
                             ELSE b + size
  BY DEF MovedBy
<1> QED BY <1>1, <1>2, <1>3

LEMMA PageKeeps == PageInv /\ [Next]_vars => PageInv'
<1> SUFFICES ASSUME PageInv, [Next]_vars PROVE Framed' /\ Turned'
  <2>1. TypeOK /\ [Next]_vars => TypeOK'
    BY TypeKeeps
  <2> QED BY <2>1 DEF PageInv
<1>1. CASE MakeFrame
  BY <1>1, FramePages
<1>2. CASE KeyUp
  <2>1. /\ mode = "shown" /\ mode' = "loop" /\ key' = "up" /\ ScrollDown(1)
        /\ UNCHANGED <<screenVars, frame>>
    BY <1>2 DEF KeyUp, Pressed, ScrollDown
  <2>2. MovedBy(1)'
    BY <2>1, KeyPages
  <2> QED BY <2>1, <2>2 DEF Framed, Turned
<1>3. CASE KeyNpage
  <2>1. /\ mode = "shown" /\ mode' = "loop" /\ key' = "npage"
        /\ ScrollDown(PageSize) /\ UNCHANGED <<screenVars, frame>>
    BY <1>3 DEF KeyNpage, Pressed, ScrollDown
  <2>2. PICK size : size = PageSize
    OBVIOUS
  <2>3. MovedBy(size)'
    BY <2>1, <2>2, KeyPages
  <2>4. size = frame'.rows - 6
    BY <2>1, <2>2 DEF PageInv, Framed, PageSize
  <2>5. MovedBy(frame.rows - 6)'
    BY <2>3, <2>4 DEF MovedBy
  <2> QED BY <2>1, <2>5 DEF Framed, Turned
<1>4. CASE KeyFilter
  BY <1>4 DEF KeyFilter, Pressed, Framed, Turned
<1>5. CASE Timeout \/ KeyDown \/ KeyPpage \/ KeyLeft \/ KeyRight
           \/ KeyThreads \/ KeyQuit
  <2>1. mode' \in {"loop", "done"} /\ key' \notin {"up", "npage"}
    BY <1>5 DEF Timeout, KeyDown, KeyPpage, KeyLeft, KeyRight, KeyThreads,
       KeyQuit, Pressed, ScrollUp
  <2> QED BY <2>1 DEF Framed, Turned
<1>6. CASE FilterUp \/ FilterDown \/ FilterToggle \/ FilterQuit
  <2>1. mode = "filter" /\ key' = key /\ mode' \in {"loop", "filter"}
    BY <1>6 DEF FilterUp, FilterDown, FilterToggle, FilterQuit, InFilter
  <2>2. key' = "f"
    BY <2>1 DEF PageInv, Turned
  <2> QED BY <2>1, <2>2 DEF Framed, Turned
<1>7. CASE UNCHANGED vars
  <2>1. UNCHANGED <<mode, nlwp, resctrl_enable, scr_row_size, scr_col_size,
                    begin_task, thread_mode, frame, key>>
    BY <1>7 DEF vars, screenVars, scrollVars
  <2>2. Framed'
    BY <2>1 DEF PageInv, Framed
  <2>3. Turned'
    BY <2>1 DEF PageInv, Turned, MovedBy
  <2> QED BY <2>2, <2>3
<1> QED BY <1>1, <1>2, <1>3, <1>4, <1>5, <1>6, <1>7 DEF Next

LEMMA PagesHold == Spec => []PageInv
BY PageInit, PageKeeps, PTL DEF Spec

LEMMA MinOfInterval ==
    ASSUME NEW a \in Int, NEW b \in Int, a <= b
    PROVE  Min(a..b) = a
<1>1. a \in a..b /\ \A y \in a..b : a <= y
  OBVIOUS
<1>2. Min(a..b) \in a..b /\ \A y \in a..b : Min(a..b) <= y
  <2> HIDE DEF Min
  <2>1. \E x \in a..b : \A y \in a..b : x <= y
    BY <1>1
  <2> QED BY <2>1 DEF Min
<1> QED BY <1>1, <1>2

LEMMA FrameNumbers ==
    ASSUME TypeOK
    PROVE  /\ frame.rows \in Nat /\ frame.total \in Nat /\ frame.top \in Nat
           /\ frame.tasks \in SUBSET Nat
           /\ begin_task \in Int
           /\ \A b \in (-MaxBegin)..MaxBegin : b \in Int
BY DEF TypeOK

\* What is drawn of a list fits the screen, of whatever size it is: all of it
\* is on a line of the screen if there is no bandwidth above it and the title
\* does not wrap, and at most one line is left empty while tasks below are
\* hidden (summary, show_header, show_task, show_domains).
THEOREM FramesFit == Spec => []FrameFits
<1>1. PageInv => FrameFits
  <2> SUFFICES ASSUME PageInv, mode = "shown", frame.rows >= 4
               PROVE  /\ ~ resctrl_enable /\ Title < scr_col_size
                            => VisibleTasks(frame) = frame.tasks
                      /\ begin_task >= 0 /\ frame.tasks # {}
                            /\ frame.total \notin frame.tasks
                          => frame.top + Cardinality(frame.tasks)
                                >= frame.rows - 1
    BY DEF FrameFits
  <2>1. /\ frame.top \in Nat /\ frame.top >= 4
        /\ ~ resctrl_enable /\ Title < scr_col_size => frame.top = 4
    BY FrameNumbers DEF PageInv, Framed
  <2>2. frame.rows \in Nat /\ frame.total \in Nat /\ begin_task \in Int
    BY FrameNumbers DEF PageInv
  <2>3. PICK first \in Int : first = IF begin_task > 1 THEN begin_task ELSE 1
    BY <2>2
  <2>4. PICK last \in Int :
          last = IF begin_task + frame.rows - 5 > frame.total THEN frame.total
                 ELSE begin_task + frame.rows - 5
    BY <2>2
  <2>5. frame.tasks = first..last
    <3>1. frame.tasks = TaskLines(begin_task, frame.rows, frame.total)
      BY DEF PageInv, Framed
    <3>2. TaskLines(begin_task, frame.rows, frame.total) = first..last
      BY SMTT(30), <2>2, <2>3, <2>4 DEF TaskLines
    <3> QED BY <3>1, <3>2
  <2>6. CASE first > last
    <3>1. frame.tasks = {}
      BY <2>3, <2>4, <2>5, <2>6
    <3> QED BY <3>1 DEF VisibleTasks
  <2>7. CASE first <= last
    <3>1. Min(frame.tasks) = first
      BY <2>5, <2>7, MinOfInterval
    <3>2. ASSUME ~ resctrl_enable, Title < scr_col_size
          PROVE  VisibleTasks(frame) = frame.tasks
      <4>1. \A n \in first..last : 4 + (n - first) < frame.rows
        BY SMTT(30), <2>2, <2>3, <2>4
      <4> QED BY <2>1, <2>5, <3>1, <3>2, <4>1 DEF VisibleTasks
    <3>3. ASSUME begin_task >= 0, frame.total \notin frame.tasks
          PROVE  frame.top + Cardinality(frame.tasks) >= frame.rows - 1
      <4>1. Cardinality(frame.tasks) = last - first + 1
        <5>1. Cardinality(first..last) =
                IF first > last THEN 0 ELSE last - first + 1
          BY <2>3, <2>4, FS_Interval
        <5> QED BY <2>3, <2>4, <2>5, <2>7, <5>1
      <4>2. last # frame.total
        BY <2>2, <2>3, <2>4, <2>5, <2>7, <3>3
      <4>3. last - first + 1 >= frame.rows - 5
        BY <2>2, <2>3, <2>4, <3>3, <4>2
      <4>4. Cardinality(frame.tasks) >= frame.rows - 5
            /\ Cardinality(frame.tasks) \in Int
        BY <2>3, <2>4, <4>1, <4>3
      <4> QED BY <2>1, <2>2, <4>4
    <3> QED BY <3>2, <3>3
  <2> QED BY <2>3, <2>4, <2>6, <2>7
<1> QED BY <1>1, PagesHold, PTL

\* The frame after KEY_UP or KEY_NPAGE is drawn from where the key moved to.
LEMMA NextFrame ==
    ASSUME PageInv, [Next]_vars, FrameAfter("up") \/ FrameAfter("npage")
    PROVE  /\ frame'.tasks = TaskLines(begin_task, frame.rows, frame.total)
           /\ frame'.total = frame.total /\ begin_task \in Nat
           /\ FrameAfter("up") => MovedBy(1)
           /\ FrameAfter("npage") => MovedBy(frame.rows - 6)
<1>1. MakeFrame
  BY DEF FrameAfter, Next, vars, Timeout, KeyUp, KeyDown, KeyNpage, KeyPpage,
     KeyLeft, KeyRight, KeyThreads, KeyQuit, KeyFilter, Pressed, FilterUp,
     FilterDown, FilterToggle, FilterQuit, InFilter
<1>2. begin_task' = begin_task /\ mode' = "shown"
  BY <1>1 DEF MakeFrame, scrollVars
<1>3. Framed'
  BY PageKeeps DEF PageInv
<1>4. frame'.tasks = TaskLines(begin_task, frame'.rows, frame'.total)
  BY <1>2, <1>3 DEF Framed
<1>5. frame'.total = frame.total /\ frame'.rows = frame.rows /\ begin_task >= 0
  BY DEF FrameAfter
<1>6. begin_task \in Nat
  BY <1>5, FrameNumbers DEF PageInv
<1> QED BY <1>4, <1>5, <1>6 DEF FrameAfter, PageInv, Turned

\* However the list shrank under the position, KEY_UP and KEY_NPAGE lead to a
\* frame with tasks, if there are any (parse_keys).
THEOREM ScrollingFindsTasks == Spec => ScrollFindsTasks
<1>1. ASSUME PageInv, [Next]_vars,
             FrameAfter("up") \/ FrameAfter("npage"),
             frame.total > 0, frame.rows >= 6
      PROVE  frame'.tasks # {}
  <2>1. frame.rows \in Nat /\ frame.total \in Nat
    BY <1>1, FrameNumbers DEF PageInv
  <2>2. /\ frame'.tasks = TaskLines(begin_task, frame.rows, frame.total)
        /\ begin_task \in Nat
    BY <1>1, NextFrame
  <2>3. begin_task <= frame.total
    <3>1. PICK size \in Int : MovedBy(size)
      <4>1. 1 \in Int /\ frame.rows - 6 \in Int
        BY <2>1
      <4> QED BY <1>1, <4>1, NextFrame
    <3>2. PICK b \in (-MaxBegin)..MaxBegin :
            begin_task = IF b + size > frame.total THEN frame.total ELSE b + size
      BY <3>1 DEF MovedBy
    <3>3. b + size \in Int
      BY <3>2
    <3> QED BY <2>1, <3>2, <3>3
  <2>4. CASE begin_task = 0
    <3>1. 1 \in TaskLines(begin_task, frame.rows, frame.total)
      BY <1>1, <2>1, <2>4 DEF TaskLines
    <3> QED BY <2>2, <3>1
  <2>5. CASE begin_task # 0
    <3>1. begin_task \in TaskLines(begin_task, frame.rows, frame.total)
      BY <1>1, <2>1, <2>2, <2>3, <2>5 DEF TaskLines
    <3> QED BY <2>2, <3>1
  <2> QED BY <2>4, <2>5
<1>2. PageInv /\ [Next]_vars =>
        [/\ FrameAfter("up") \/ FrameAfter("npage")
         /\ frame.total > 0 /\ frame.rows >= 6
         => frame'.tasks # {}]_vars
  BY <1>1
<1> QED BY <1>2, PagesHold, PTL DEF Spec, ScrollFindsTasks

LEMMA FirstDrawn ==
    ASSUME NEW b \in Int, NEW rows \in Nat, NEW total \in Nat,
           TaskLines(b, rows, total) # {}
    PROVE  Min(TaskLines(b, rows, total)) = IF b > 1 THEN b ELSE 1
<1>1. PICK first \in Int : first = IF b > 1 THEN b ELSE 1
  OBVIOUS
<1>2. PICK last \in Int : last = IF b + rows - 5 > total THEN total
                                 ELSE b + rows - 5
  OBVIOUS
<1>3. TaskLines(b, rows, total) = first..last
  BY <1>1, <1>2 DEF TaskLines
<1>4. first <= last
  BY <1>3
<1> QED BY <1>1, <1>3, <1>4, MinOfInterval

\* KEY_NPAGE steps over no task that was not on the screen (parse_keys).
THEOREM PagingIsComplete == Spec => PagingCovers
<1>1. ASSUME PageInv, [Next]_vars, FrameAfter("npage"),
             frame.rows >= 6, frame.top <= 6,
             NEW n \in 1..frame.total, frame'.tasks # {}, n < Min(frame'.tasks),
             frame.tasks # {}, ~ (n < Min(frame.tasks))
      PROVE  n \in VisibleTasks(frame)
  <2>1. frame.rows \in Nat /\ frame.total \in Nat /\ frame.top \in Nat
    BY <1>1, FrameNumbers DEF PageInv
  <2>2. /\ frame'.tasks = TaskLines(begin_task, frame.rows, frame.total)
        /\ begin_task \in Nat /\ MovedBy(frame.rows - 6)
    BY <1>1, NextFrame
  <2>3. PICK b \in (-MaxBegin)..MaxBegin :
          /\ frame.tasks = TaskLines(b, frame.rows, frame.total)
          /\ begin_task = IF b + (frame.rows - 6) > frame.total
                          THEN frame.total ELSE b + (frame.rows - 6)
    BY <2>2 DEF MovedBy
  <2>4. b \in Int
    BY <2>3
  <2>5. Min(frame'.tasks) = IF begin_task > 1 THEN begin_task ELSE 1
    BY <1>1, <2>1, <2>2, FirstDrawn
  <2>6. Min(frame.tasks) = IF b > 1 THEN b ELSE 1
    BY <1>1, <2>1, <2>3, <2>4, FirstDrawn
  <2>7. n < begin_task
    BY <1>1, <2>2, <2>5
  <2>8. begin_task <= b + (frame.rows - 6)
    BY <2>1, <2>3, <2>4
  <2>9. n >= b /\ n >= 1
    BY <1>1, <2>1, <2>4, <2>6
  <2>10. n - b < frame.rows - 6
    BY <2>1, <2>2, <2>4, <2>7, <2>8
  <2>11. n \in frame.tasks
    BY <2>1, <2>3, <2>4, <2>9, <2>10 DEF TaskLines
  <2>12. n - Min(frame.tasks) <= n - b /\ Min(frame.tasks) \in Int
    BY <2>4, <2>6
  <2>13. frame.top + (n - Min(frame.tasks)) < frame.rows
    BY <1>1, <2>1, <2>4, <2>10, <2>12
  <2> QED BY <2>11, <2>13 DEF VisibleTasks
<1>2. PageInv /\ [Next]_vars =>
        [FrameAfter("npage") /\ frame.rows >= 6 /\ frame.top <= 6 =>
            \A n \in 1..frame.total :
                frame'.tasks # {} /\ n < Min(frame'.tasks)
                    => \/ n \in VisibleTasks(frame)
                       \/ frame.tasks # {} /\ n < Min(frame.tasks)
                       \/ frame.tasks = {}]_vars
  BY <1>1
<1> QED BY <1>2, PagesHold, PTL DEF Spec, PagingCovers
-----------------------------------------------------------------------------
(***************************************************************************)
(* Columns.  With begin_field at one less than the number of fields that   *)
(* are shown, the fixed ones counted in, at most two columns are left.     *)
(***************************************************************************)
LEMMA SumOfPair ==
    ASSUME NEW f, NEW x, NEW y, f[x] \in Nat, f[y] \in Nat,
           NEW T, T \subseteq {x, y}
    PROVE  /\ SumFunctionOnSet(f, T) <= f[x] + f[y]
           /\ T = {x, y} /\ x # y => SumFunctionOnSet(f, T) = f[x] + f[y]
<1>1. SumFunctionOnSet(f, {}) = 0
  BY SumOfZeros, FS_EmptySet
<1>2. ASSUME NEW z, f[z] \in Nat PROVE SumFunctionOnSet(f, {z}) = f[z]
  <2>1. IsFiniteSet({z}) /\ {z} \ {z} = {}
    BY FS_Singleton
  <2>2. SumFunctionOnSet(f, {z}) = f[z] + SumFunctionOnSet(f, {z} \ {z})
    BY <1>2, <2>1, SumRemove
  <2>3. SumFunctionOnSet(f, {z} \ {z}) = 0
    <3>1. \A S : S = {} => SumFunctionOnSet(f, S) = 0
      BY <1>1
    <3> QED BY <2>1, <3>1
  <2>4. SumFunctionOnSet(f, {z}) = f[z] + 0
    BY <2>2, <2>3
  <2> QED BY <1>2, <2>4
<1>3. ASSUME x # y PROVE SumFunctionOnSet(f, {x, y}) = f[x] + f[y]
  <2>1. IsFiniteSet({x, y})
    <3>1. IsFiniteSet({x} \cup {y})
      BY FS_Singleton, FS_Union
    <3>2. {x} \cup {y} = {x, y}
      OBVIOUS
    <3> QED BY <3>1, <3>2
  <2>2. {x, y} \ {x} = {y}
    BY <1>3
  <2>3. SumFunctionOnSet(f, {x, y}) =
            f[x] + SumFunctionOnSet(f, {x, y} \ {x})
    BY <2>1, SumRemove
  <2> QED BY <1>2, <2>2, <2>3
<1> DEFINE sum == SumFunctionOnSet(f, T)
<1>4. ASSUME T = {} PROVE sum <= f[x] + f[y]
  <2>1. sum = 0
    BY <1>1, <1>4
  <2> QED BY <2>1
<1>5. ASSUME T = {x} PROVE sum <= f[x] + f[y]
  <2>1. sum = f[x]
    BY <1>2, <1>5
  <2> QED BY <2>1
<1>6. ASSUME T = {y} PROVE sum <= f[x] + f[y]
  <2>1. sum = f[y]
    BY <1>2, <1>6
  <2> QED BY <2>1
<1>7. ASSUME T = {x, y}, x # y PROVE sum <= f[x] + f[y]
  <2>1. sum = f[x] + f[y]
    BY <1>3, <1>7
  <2> QED BY <2>1
<1>8. T = {} \/ T = {x} \/ T = {y} \/ (T = {x, y} /\ x # y)
  OBVIOUS
<1>9. sum <= f[x] + f[y]
  BY <1>4, <1>5, <1>6, <1>7, <1>8
<1> QED BY <1>3, <1>9

RankIn(S, i) == Cardinality({j \in S : j <= i})

LEMMA RankBelow ==
    ASSUME NEW S, S \subseteq Fields, NEW i \in S
    PROVE  /\ Cardinality(S) \in Nat /\ RankIn(S, i) \in Nat
           /\ RankIn(S, i) <= Cardinality(S)
           /\ \A k \in S : i < k => RankIn(S, i) <= Cardinality(S) - 1
           /\ \A k, l \in S : i < k /\ i < l /\ k # l =>
                    RankIn(S, i) <= Cardinality(S) - 2
<1>1. IsFiniteSet(S)
  <2>1. IsFiniteSet(Fields)
    BY FieldNumbers, FS_Interval DEF Fields
  <2> QED BY <2>1, FS_Subset
<1>2. S \subseteq Int
  BY FieldNumbers
<1> DEFINE B == {j \in S : j <= i}
<1>3. Cardinality(S) \in Nat
  BY <1>1, FS_CardinalityType
<1>4. ASSUME NEW R, IsFiniteSet(R), B \subseteq R
      PROVE  Cardinality(B) \in Nat /\ Cardinality(B) <= Cardinality(R)
  <2> HIDE DEF B
  <2>1. B \in SUBSET R
    BY <1>4
  <2>2. IsFiniteSet(B) /\ Cardinality(B) <= Cardinality(R)
    BY <1>4, <2>1, FS_Subset
  <2> QED BY <2>2, FS_CardinalityType
<1>5. Cardinality(B) \in Nat /\ Cardinality(B) <= Cardinality(S)
  BY <1>1, <1>4
<1>6. ASSUME NEW k \in S, i < k PROVE Cardinality(B) <= Cardinality(S) - 1
  <2>1. IsFiniteSet(S \ {k}) /\ Cardinality(S \ {k}) = Cardinality(S) - 1
    BY <1>1, FS_RemoveElement
  <2>2. B \subseteq S \ {k}
    BY <1>2, <1>6
  <2> QED BY <1>4, <2>1, <2>2
<1>7. ASSUME NEW k \in S, NEW l \in S, i < k, i < l, k # l
      PROVE  Cardinality(B) <= Cardinality(S) - 2
  <2>1. IsFiniteSet(S \ {k}) /\ Cardinality(S \ {k}) = Cardinality(S) - 1
    BY <1>1, FS_RemoveElement
  <2>2. /\ IsFiniteSet((S \ {k}) \ {l})
        /\ Cardinality((S \ {k}) \ {l}) = Cardinality(S \ {k}) - 1
    BY <1>7, <2>1, FS_RemoveElement
  <2>3. B \subseteq (S \ {k}) \ {l}
    BY <1>2, <1>7
  <2>4. Cardinality(B) <= Cardinality((S \ {k}) \ {l})
    BY <1>4, <2>2, <2>3
  <2> QED BY <1>3, <2>1, <2>2, <2>4
<1>8. RankIn(S, i) = Cardinality(B)
  BY DEF RankIn
<1> HIDE DEF B
<1> QED BY <1>3, <1>5, <1>6, <1>7, <1>8

\* What is left of the displayed fields D.
LeftFrom(D, begin) == {i \in D : i \in Fixed \/ RankIn(D \ Fixed, i) >= begin}

LEMMA TwoLeft ==
    ASSUME NEW D \in SUBSET Fields, NEW begin \in Int,
           begin >= Cardinality(D) - 1
    PROVE  \E x, y \in Fields :
              /\ LeftFrom(D, begin) \subseteq {x, y}
              /\ Align[x] + Align[y]
                    <= Align[FD_DID] + Align[FD_VMNAME] + Align[FD_NODE0]
<1> DEFINE S == D \ Fixed
           F == D \cap Fixed
           X == {i \in S : RankIn(S, i) >= begin}
           Bound == Align[FD_DID] + Align[FD_VMNAME] + Align[FD_NODE0]
<1>1. LeftFrom(D, begin) = F \cup X
  BY DEF LeftFrom
<1>2. /\ FD_DID \in Fields /\ FD_VMNAME \in Fields /\ FD_NODE0 \in Fields
      /\ Fixed = {FD_DID, FD_VMNAME} /\ FD_DID # FD_VMNAME
  BY FieldNumbers DEF Fixed, FD_DID, FD_VMNAME
<1>3. /\ \A i \in Fields : Align[i] \in Nat
      /\ \A i \in S : Align[i] <= Align[FD_NODE0]
      /\ Align[FD_NODE0] <= Align[FD_DID] + Align[FD_VMNAME]
  BY <1>2, WidthAssumption DEF WidthAssumption
<1>4. S \subseteq Fields /\ X \subseteq S /\ F \subseteq {FD_DID, FD_VMNAME}
  BY <1>2
<1>5. IsFiniteSet(S) /\ IsFiniteSet(F) /\ Cardinality(S) \in Nat
  <2>1. IsFiniteSet(Fields)
    BY FieldNumbers, FS_Interval DEF Fields
  <2>2. S \in SUBSET Fields /\ F \in SUBSET Fields
    OBVIOUS
  <2> QED BY <2>1, <2>2, FS_Subset, FS_CardinalityType
<1>6. Cardinality(D) = Cardinality(S) + Cardinality(F)
  <2>1. D = S \cup F /\ S \cap F = {}
    OBVIOUS
  <2> HIDE DEF S, F
  <2>2. Cardinality(S \cup F) =
            Cardinality(S) + Cardinality(F) - Cardinality(S \cap F)
    BY <1>5, FS_Union
  <2>3. Cardinality(S \cap F) = 0 /\ Cardinality(F) \in Nat
    BY <1>5, <2>1, FS_EmptySet, FS_CardinalityType
  <2> QED BY <1>5, <2>1, <2>2, <2>3
<1>7. \A i \in X : RankIn(S, i) >= begin
  OBVIOUS
<1> HIDE DEF S, F, X
<1>8. X \subseteq Fields /\ \A i \in X : i \in Int /\ RankIn(S, i) \in Nat
  <2>1. X \subseteq Fields /\ \A i \in X : i \in S /\ i \in Int
    BY <1>4, FieldNumbers
  <2> QED BY <1>4, <2>1, RankBelow
\* Both fixed columns are shown: nothing else is left.
<1>9. CASE F = {FD_DID, FD_VMNAME}
  <2>1. Cardinality(F) = 2
    <3>1. /\ FD_DID \in F /\ F \ {FD_DID} = {FD_VMNAME}
      BY <1>2, <1>9
    <3>2. Cardinality(F \ {FD_DID}) = 1
      <4>1. \A T : T = {FD_VMNAME} => Cardinality(T) = 1
        BY FS_Singleton
      <4> QED BY <3>1, <4>1
    <3>3. Cardinality(F \ {FD_DID}) = Cardinality(F) - 1
      BY <1>5, <3>1, FS_RemoveElement
    <3>4. Cardinality(F) \in Nat
      BY <1>5, FS_CardinalityType
    <3> QED BY <3>2, <3>3, <3>4
  <2>2. X = {}
    BY <1>4, <1>5, <1>6, <1>7, <1>8, <2>1, RankBelow
  <2>3. LeftFrom(D, begin) \subseteq {FD_DID, FD_VMNAME}
    BY <1>1, <1>9, <2>2
  <2>4. Align[FD_DID] + Align[FD_VMNAME] <= Bound
    BY <1>2, <1>3
  <2> QED BY <1>2, <2>3, <2>4
\* One of them is: and the last of the others.
<1>10. ASSUME NEW p \in {FD_DID, FD_VMNAME}, F = {p}
       PROVE  \E x, y \in Fields : LeftFrom(D, begin) \subseteq {x, y}
                                   /\ Align[x] + Align[y] <= Bound
  <2>1. Cardinality(F) = 1
    BY <1>10, FS_Singleton
  <2>2. \A i \in X : RankIn(S, i) > Cardinality(S) - 1
    BY <1>5, <1>6, <1>7, <1>8, <2>1
  <2>3. \A i, k \in X : ~ (i < k)
    BY <1>4, <1>5, <1>8, <2>2, RankBelow
  <2>4. \A i, k \in X : i = k
    BY <1>8, <2>3
  <2>5. p \in Fields
    BY <1>2, <1>10
  <2>6. CASE X = {}
    <3>1. LeftFrom(D, begin) \subseteq {p, FD_NODE0}
      BY <1>1, <1>10, <2>6
    <3>2. Align[p] + Align[FD_NODE0] <= Bound
      BY <1>2, <1>3, <1>10
    <3> QED BY <1>2, <2>5, <3>1, <3>2
  <2>7. CASE X # {}
    <3>1. PICK x \in X : TRUE
      BY <2>7
    <3>2. LeftFrom(D, begin) \subseteq {p, x}
      BY <1>1, <1>10, <2>4, <3>1
    <3>3. Align[p] + Align[x] <= Bound
      BY <1>2, <1>3, <1>4, <1>8, <1>10, <3>1
    <3> QED BY <1>8, <2>5, <3>1, <3>2, <3>3
  <2> QED BY <2>6, <2>7
\* None is: the last two of the others are left.
<1>11. CASE F = {}
  <2>1. Cardinality(F) = 0
    BY <1>11, FS_EmptySet
  <2>2. \A i \in X : RankIn(S, i) > Cardinality(S) - 2
    BY <1>5, <1>6, <1>7, <1>8, <2>1
  <2>3. \A i, k, l \in X : ~ (i < k /\ i < l /\ k # l)
    BY <1>4, <1>5, <1>8, <2>2, RankBelow
  <2>4. \A i, k, l \in X : i = k \/ i = l \/ k = l
    BY <1>8, <2>3
  <2>5. \A x, y \in X : Align[x] + Align[y] <= Bound
    BY SMTT(30), <1>2, <1>3, <1>4, <1>8
  <2>6. CASE X = {}
    <3>1. LeftFrom(D, begin) \subseteq {FD_DID, FD_VMNAME}
      BY <1>1, <1>11, <2>6
    <3>2. Align[FD_DID] + Align[FD_VMNAME] <= Bound
      BY <1>2, <1>3
    <3> QED BY <1>2, <3>1, <3>2
  <2>7. CASE X # {}
    <3>1. PICK x \in X : TRUE
      BY <2>7
    <3>2. PICK y \in X : y # x \/ X \subseteq {x}
      BY <3>1
    <3>3. LeftFrom(D, begin) \subseteq {x, y}
      BY <1>1, <1>11, <2>4, <3>1, <3>2
    <3> QED BY <1>8, <2>5, <3>1, <3>2, <3>3
  <2> QED BY <2>6, <2>7
<1>12. F = {} \/ F = {FD_DID} \/ F = {FD_VMNAME} \/ F = {FD_DID, FD_VMNAME}
  BY <1>4
<1> QED BY <1>9, <1>10, <1>11, <1>12

LEMMA ColumnsAre ==
    ASSUME NEW begin
    PROVE  /\ ScrolledFrom(begin) = LeftFrom(Displayed, begin)
           /\ \A i : Rank(i) = RankIn(Displayed \ Fixed, i)
           /\ ColumnsFrom(begin) =
                {i \in ScrolledFrom(begin) :
                    SumFunctionOnSet(Align, {j \in ScrolledFrom(begin) : j <= i})
                        < scr_col_size}
<1>1. \A i : Rank(i) = RankIn(Displayed \ Fixed, i)
  BY DEF Rank, RankIn
<1>2. ScrolledFrom(begin) = LeftFrom(Displayed, begin)
  BY <1>1 DEF ScrolledFrom, LeftFrom
<1>3. ColumnsFrom(begin) =
        {i \in ScrolledFrom(begin) :
            SumFunctionOnSet(Align, {j \in ScrolledFrom(begin) : j <= i})
                < scr_col_size}
  BY DEF ColumnsFrom, MapThenSumSet, SumFunctionOnSet, FoldFunctionOnSet
<1> QED BY <1>1, <1>2, <1>3

\* The width of the fixed columns and of one more.
Bound == Align[FD_DID] + Align[FD_VMNAME] + Align[FD_NODE0]

LEMMA Widths0 ==
    /\ \A i \in Fields : Align[i] \in Nat
    /\ \A i \in Fields \ Fixed : Align[i] <= Align[FD_NODE0]
    /\ FD_DID \in Fields /\ FD_VMNAME \in Fields /\ FD_NODE0 \in Fields
    /\ Fixed = {FD_DID, FD_VMNAME} /\ FD_DID # FD_VMNAME
    /\ Bound \in Nat
<1>1. /\ FD_DID \in Fields /\ FD_VMNAME \in Fields /\ FD_NODE0 \in Fields
      /\ Fixed = {FD_DID, FD_VMNAME} /\ FD_DID # FD_VMNAME
  BY FieldNumbers DEF Fixed, FD_DID, FD_VMNAME
<1>2. /\ \A i \in Fields : Align[i] \in Nat
      /\ \A i \in Fields \ Fixed : Align[i] <= Align[FD_NODE0]
  BY <1>1, WidthAssumption DEF WidthAssumption
<1> QED BY <1>1, <1>2 DEF Bound

LEMMA FixedWidth ==
    MapThenSumSet(LAMBDA j : Align[j], Fixed) = Align[FD_DID] + Align[FD_VMNAME]
<1>1. MapThenSumSet(LAMBDA j : Align[j], Fixed) = SumFunctionOnSet(Align, Fixed)
  BY DEF MapThenSumSet, SumFunctionOnSet, FoldFunctionOnSet
<1>2. SumFunctionOnSet(Align, Fixed) = Align[FD_DID] + Align[FD_VMNAME]
  BY Widths0, SumOfPair
<1> QED BY <1>1, <1>2

\* Two columns that are no wider than Bound fit, with whatever part of them
\* there is.
LEMMA TwoFit ==
    ASSUME TypeOK, scr_col_size > Bound, NEW x \in Fields, NEW y \in Fields,
           Align[x] + Align[y] <= Bound, NEW T, T \subseteq {x, y}
    PROVE  SumFunctionOnSet(Align, T) < scr_col_size
<1>1. IsFiniteSet(T)
  <2>1. IsFiniteSet({x} \cup {y}) /\ {x} \cup {y} = {x, y}
    BY FS_Singleton, FS_Union
  <2>2. T \in SUBSET ({x} \cup {y})
    BY <2>1
  <2> QED BY <2>1, <2>2, FS_Subset
<1>2. Align[x] \in Nat /\ Align[y] \in Nat /\ \A i \in T : Align[i] \in Nat
  BY Widths0
<1>3. SumFunctionOnSet(Align, T) \in Nat
  BY <1>1, <1>2, SumIsNat
<1>4. SumFunctionOnSet(Align, T) <= Align[x] + Align[y]
  BY <1>2, SumOfPair
<1>5. scr_col_size \in Nat
  BY DEF TypeOK
<1> QED BY <1>2, <1>3, <1>4, <1>5, Widths0

\* And so does one column after the fixed ones.
LEMMA OneFits ==
    ASSUME TypeOK, scr_col_size > Bound, NEW i \in Fields \ Fixed,
           NEW T, T \subseteq Fixed \cup {i}, i \in T
    PROVE  SumFunctionOnSet(Align, T) < scr_col_size
<1>1. T \ {i} \subseteq {FD_DID, FD_VMNAME}
  BY Widths0
<1>2. IsFiniteSet(T) /\ IsFiniteSet(T \ {i})
  <2>1. IsFiniteSet(Fields)
    BY FieldNumbers, FS_Interval DEF Fields
  <2>2. T \in SUBSET Fields /\ T \ {i} \in SUBSET Fields
    BY Widths0
  <2> QED BY <2>1, <2>2, FS_Subset
<1>3. /\ \A j \in T : Align[j] \in Nat
      /\ \A j \in T \ {i} : Align[j] \in Nat
  BY Widths0
<1>4. SumFunctionOnSet(Align, T) =
        Align[i] + SumFunctionOnSet(Align, T \ {i})
  BY <1>2, <1>3, SumRemove
<1>5. SumFunctionOnSet(Align, T \ {i}) <= Align[FD_DID] + Align[FD_VMNAME]
  BY <1>1, Widths0, SumOfPair
<1>6. SumFunctionOnSet(Align, T \ {i}) \in Nat
  BY <1>2, <1>3, SumIsNat
<1>7. scr_col_size \in Nat
  BY DEF TypeOK
<1>8. /\ Align[i] \in Nat /\ Align[i] <= Align[FD_NODE0]
      /\ Align[FD_DID] \in Nat /\ Align[FD_VMNAME] \in Nat
      /\ Align[FD_NODE0] \in Nat
  BY Widths0
<1> QED BY <1>4, <1>5, <1>6, <1>7, <1>8 DEF Bound

\* The first column that the position leaves is on the screen.
LEMMA FirstFits ==
    ASSUME TypeOK, scr_col_size > Bound, NEW begin \in Int,
           NEW i \in Displayed \ Fixed, Rank(i) >= begin,
           \A j \in Displayed \ Fixed : j < i => ~ (Rank(j) >= begin)
    PROVE  i \in ColumnsFrom(begin)
<1> DEFINE T == {j \in ScrolledFrom(begin) : j <= i}
<1>1. i \in Fields /\ Displayed \subseteq Fields /\ Fields \subseteq Nat
  BY FieldNumbers DEF Displayed
<1>2. i \in ScrolledFrom(begin) /\ i \in T
  BY <1>1 DEF ScrolledFrom
<1>3. T \subseteq Fixed \cup {i}
  <2> SUFFICES ASSUME NEW j \in T, j \notin Fixed, j # i PROVE FALSE
    OBVIOUS
  <2>1. j \in Displayed \ Fixed /\ Rank(j) >= begin /\ j <= i
    BY DEF ScrolledFrom
  <2>2. j < i
    BY <1>1, <2>1
  <2> QED BY <2>1, <2>2
<1> HIDE DEF T
<1>4. SumFunctionOnSet(Align, T) < scr_col_size
  BY <1>1, <1>2, <1>3, OneFits
<1> QED BY <1>2, <1>4, ColumnsAre DEF T

\* Ranks grow from column to column.
LEMMA RankGrows ==
    ASSUME TypeOK, NEW i \in Displayed \ Fixed, NEW j \in Displayed \ Fixed, j < i
    PROVE  Rank(i) \in Nat /\ Rank(j) \in Nat /\ Rank(j) < Rank(i)
<1> DEFINE S == {k \in Displayed \ Fixed : k <= i}
<1>1. /\ Displayed \subseteq Fields /\ Fields \subseteq Nat
      /\ i \in Nat /\ j \in Nat
  BY FieldNumbers DEF Displayed
<1>2. S \subseteq Fields /\ i \in S /\ j \in S
  <2>1. i <= i /\ j <= i
    BY <1>1
  <2> QED BY <1>1, <2>1, Zenon
<1>3. RankIn(S, j) <= Cardinality(S) - 1 /\ Cardinality(S) \in Nat
      /\ RankIn(S, j) \in Nat
  <2> HIDE DEF S
  <2> QED BY <1>2, RankBelow
<1>4. Cardinality(S) = Rank(i)
  BY DEF Rank
<1>5. RankIn(S, j) = Rank(j)
  <2>1. ASSUME NEW k \in Displayed \ Fixed, k <= j PROVE k <= i
    <3>1. k \in Nat
      BY <1>1
    <3> QED BY <1>1, <2>1, <3>1
  <2>2. {k \in S : k <= j} = {k \in Displayed \ Fixed : k <= j}
    BY <2>1
  <2> QED BY <2>2 DEF RankIn, Rank
<1> HIDE DEF S
<1> QED BY <1>3, <1>4, <1>5

LEMMA LeastIn ==
    ASSUME NEW S, S \subseteq Nat, S # {}
    PROVE  \E n \in S : \A m \in S : n <= m
<1>1. PICK n \in S : \A m \in S : ~ (<<m, n>> \in OpToRel(<, Nat))
  BY NatLessThanWellFounded, WFMin
<1>2. \A m \in S : m < n => <<m, n>> \in OpToRel(<, Nat)
  BY DEF OpToRel
<1>3. \A m \in S : ~ (m < n)
  BY <1>1, <1>2
<1>4. \A m \in S : m \in Nat /\ n \in Nat
  OBVIOUS
<1> QED BY <1>3, <1>4

LEMMA GreatestIn ==
    ASSUME NEW S, S \subseteq Fields, S # {}
    PROVE  \E n \in S : \A m \in S : m <= n
<1> DEFINE U == {n \in Nat : \A i \in S : i <= n}
<1>1. S \subseteq Nat /\ FD_END \in U
  BY FieldNumbers DEF Fields
<1>2. PICK n \in U : \A m \in U : n <= m
  <2> HIDE DEF U
  <2>1. U \subseteq Nat
    BY DEF U
  <2> QED BY <1>1, <2>1, LeastIn
<1>3. ASSUME n \notin S PROVE FALSE
  <2>1. \A i \in S : i <= n /\ i # n
    BY <1>2, <1>3
  <2>2. n \in Nat /\ n >= 1 /\ \A i \in S : i <= n - 1
    <3>1. n \in Nat /\ \A i \in S : i \in Nat
      BY <1>1, <1>2
    <3>2. \A i \in S : n >= 1 /\ i <= n - 1
      BY <2>1, <3>1
    <3> QED BY <3>1, <3>2
  <2>3. n - 1 \in U
    BY <1>2, <2>2
  <2> QED BY <1>2, <2>3
<1> QED BY <1>2, <1>3

\* A position that is not above the number of columns leaves one.
LEMMA SomeColumn ==
    ASSUME TypeOK, scr_col_size > Bound, Displayed \ Fixed # {},
           NEW begin \in Int, begin <= Cardinality(Displayed \ Fixed)
    PROVE  ColumnsFrom(begin) \ Fixed # {}
<1> DEFINE S == Displayed \ Fixed
           X == {i \in S : Rank(i) >= begin}
<1>1. S \subseteq Fields /\ Fields \subseteq Nat
  BY FieldNumbers DEF Displayed
<1>2. X # {}
  <2>1. PICK last \in S : \A m \in S : m <= last
    <3> HIDE DEF S
    <3> QED BY <1>1, GreatestIn DEF S
  <2>2. {j \in S : j <= last} = S
    BY <2>1
  <2>3. Rank(last) = Cardinality(S)
    BY <2>2 DEF Rank
  <2>4. Rank(last) >= begin
    BY <2>3
  <2> QED BY <2>1, <2>4
<1>3. PICK i \in X : \A j \in X : i <= j
  <2>1. X \subseteq Nat
    BY <1>1
  <2> HIDE DEF X
  <2> QED BY <1>2, <2>1, LeastIn
<1>4. ASSUME NEW j \in S, j < i PROVE ~ (Rank(j) >= begin)
  <2>1. i \in Nat /\ j \in Nat
    BY <1>1, <1>3
  <2>2. ~ (i <= j)
    BY <1>4, <2>1
  <2> QED BY <1>3, <2>2
<1>5. i \in S /\ Rank(i) >= begin
  BY <1>3
<1>6. i \in ColumnsFrom(begin)
  BY <1>4, <1>5, FirstFits
<1> QED BY <1>5, <1>6

LEMMA ShownNumber ==
    /\ IsFiniteSet(Displayed) /\ Displayed \in SUBSET Fields
    /\ Cardinality(Displayed) \in Nat /\ Cardinality(Displayed \ Fixed) \in Nat
    /\ Cardinality(Displayed) <= Cardinality(Displayed \ Fixed) + 2
<1>1. IsFiniteSet(Fields)
  BY FieldNumbers, FS_Interval DEF Fields
<1>2. Displayed \in SUBSET Fields /\ Displayed \ Fixed \in SUBSET Fields
  BY DEF Displayed
<1>3. IsFiniteSet(Displayed) /\ IsFiniteSet(Displayed \ Fixed)
  BY <1>1, <1>2, FS_Subset
<1>4. IsFiniteSet(Fixed) /\ Cardinality(Fixed) \in Nat /\ Cardinality(Fixed) <= 2
  <2>1. IsFiniteSet({FD_DID}) /\ IsFiniteSet({FD_VMNAME})
    BY FS_Singleton
  <2>2. /\ Cardinality({FD_DID}) = 1 /\ Cardinality({FD_VMNAME}) = 1
    BY FS_Singleton
  <2>3. Fixed = {FD_DID} \cup {FD_VMNAME}
    BY DEF Fixed
  <2>4. IsFiniteSet({FD_DID} \cup {FD_VMNAME})
        /\ Cardinality({FD_DID} \cup {FD_VMNAME}) =
            Cardinality({FD_DID}) + Cardinality({FD_VMNAME})
                - Cardinality({FD_DID} \cap {FD_VMNAME})
    BY <2>1, FS_Union
  <2>5. Cardinality({FD_DID} \cap {FD_VMNAME}) \in Nat
    <3>1. {FD_DID} \cap {FD_VMNAME} \in SUBSET {FD_DID}
      OBVIOUS
    <3> QED BY <2>1, <3>1, FS_Subset, FS_CardinalityType
  <2>6. Cardinality(Fixed) \in Nat
    BY <2>3, <2>4, FS_CardinalityType
  <2>7. PICK c \in Nat : c = Cardinality({FD_DID} \cap {FD_VMNAME})
    BY <2>5
  <2>8. Cardinality(Fixed) = 1 + 1 - c
    BY <2>2, <2>3, <2>4, <2>7, Zenon
  <2>9. IsFiniteSet(Fixed)
    BY <2>3, <2>4, Zenon
  <2> QED BY <2>6, <2>7, <2>8, <2>9
<1>5. Cardinality(Displayed) \in Nat /\ Cardinality(Displayed \ Fixed) \in Nat
  BY <1>3, FS_CardinalityType
<1>6. Cardinality((Displayed \ Fixed) \cup Fixed) =
        Cardinality(Displayed \ Fixed) + Cardinality(Fixed)
            - Cardinality((Displayed \ Fixed) \cap Fixed)
  BY <1>3, <1>4, FS_Union
<1>7. (Displayed \ Fixed) \cap Fixed = {} /\ Cardinality({}) = 0
  BY FS_EmptySet
<1>8. Cardinality(Displayed) <= Cardinality((Displayed \ Fixed) \cup Fixed)
  <2>1. IsFiniteSet((Displayed \ Fixed) \cup Fixed)
    BY <1>3, <1>4, FS_Union
  <2>2. Displayed \in SUBSET ((Displayed \ Fixed) \cup Fixed)
    OBVIOUS
  <2> QED BY <2>1, <2>2, FS_Subset
<1>9. Cardinality((Displayed \ Fixed) \cup Fixed) =
        Cardinality(Displayed \ Fixed) + Cardinality(Fixed)
  <2>1. Cardinality((Displayed \ Fixed) \cap Fixed) = 0
    BY <1>7, Zenon
  <2> QED BY <1>4, <1>5, <1>6, <2>1
<1> QED BY <1>2, <1>3, <1>4, <1>5, <1>8, <1>9

\* What KEY_RIGHT does to the position.
LEMMA RightKey ==
    ASSUME TypeOK, [Next]_vars, RightPressed
    PROVE  /\ scr_col_size > Bound
           /\ begin_field \in Int /\ begin_field' \in Int
           /\ begin_field' <= begin_field + 1
           /\ begin_field' <= Cardinality(Displayed) - 1
           /\ begin_field' <= begin_field
                => begin_field' >= Cardinality(Displayed) - 1
<1>1. KeyRight
  BY DEF RightPressed, Next, vars, MakeFrame, Timeout, KeyUp, KeyDown, KeyNpage,
     KeyPpage, KeyLeft, KeyThreads, KeyQuit, KeyFilter, Pressed,
     FilterUp, FilterDown, FilterToggle, FilterQuit, InFilter
<1>2. begin_field' = IF begin_field + 1 >= Cardinality(Displayed)
                     THEN Cardinality(Displayed) - 1 ELSE begin_field + 1
  BY <1>1 DEF KeyRight, RightOf, RightLimit, ShowFieldNum
<1>3. begin_field \in Int
  BY DEF TypeOK
<1>4. scr_col_size > Bound
  <2>1. scr_col_size \in Nat
    BY DEF TypeOK
  <2>2. scr_col_size > Align[FD_DID] + Align[FD_VMNAME] + Align[FD_NODE0]
    BY FixedWidth DEF RightPressed
  <2> QED BY <2>1, <2>2 DEF Bound
<1> QED BY <1>2, <1>3, <1>4, ShownNumber

\* From one KEY_RIGHT to the next every column is on the screen at some time
\* (parse_keys, get_show_field_num, show_header).
THEOREM EveryColumnPasses == Spec => ColumnsPassed
<1>1. ASSUME TypeOK, [Next]_vars, RightPressed, NEW i \in Displayed \ Fixed
      PROVE  /\ Rank(i) < begin_field' => Rank(i) < begin_field \/ i \in Columns
             /\ begin_field' <= begin_field
                  => Rank(i) < begin_field' \/ i \in ColumnsFrom(begin_field')
  <2>1. Rank(i) \in Nat
    <3>1. Displayed \ Fixed \subseteq Fields
      BY DEF Displayed
    <3>2. RankIn(Displayed \ Fixed, i) \in Nat
      BY <1>1, <3>1, RankBelow
    <3> QED BY <3>2, ColumnsAre
  <2>2. /\ scr_col_size > Bound
        /\ begin_field \in Int /\ begin_field' \in Int
        /\ begin_field' <= begin_field + 1
        /\ begin_field' <= begin_field
             => begin_field' >= Cardinality(Displayed) - 1
    BY <1>1, RightKey
  <2>3. ASSUME Rank(i) < begin_field', ~ (Rank(i) < begin_field)
        PROVE  i \in Columns
    <3>1. Rank(i) = begin_field
      BY <2>1, <2>2, <2>3
    <3>2. \A j \in Displayed \ Fixed : j < i => ~ (Rank(j) >= begin_field)
      BY <1>1, <3>1, RankGrows
    <3> QED BY <1>1, <2>1, <2>2, <3>1, <3>2, FirstFits DEF Columns
  <2>4. ASSUME begin_field' <= begin_field, ~ (Rank(i) < begin_field')
        PROVE  i \in ColumnsFrom(begin_field')
    <3>1. PICK begin \in Int : begin = begin_field'
      BY <2>2
    <3>2. begin >= Cardinality(Displayed) - 1 /\ Rank(i) >= begin
      BY <2>1, <2>2, <2>4, <3>1
    <3>3. PICK x, y \in Fields :
            /\ LeftFrom(Displayed, begin) \subseteq {x, y}
            /\ Align[x] + Align[y] <= Bound
      BY <3>2, ShownNumber, TwoLeft DEF Bound
    <3>4. ScrolledFrom(begin) \subseteq {x, y} /\ i \in ScrolledFrom(begin)
      BY <1>1, <3>2, <3>3, ColumnsAre DEF ScrolledFrom
    <3>5. SumFunctionOnSet(Align, {j \in ScrolledFrom(begin) : j <= i})
            < scr_col_size
      <4>1. {j \in ScrolledFrom(begin) : j <= i} \subseteq {x, y}
        BY <3>4
      <4> QED BY <1>1, <2>2, <3>3, <4>1, TwoFit
    <3> QED BY <3>1, <3>4, <3>5, ColumnsAre
  <2> QED BY <2>3, <2>4
<1>2. TypeOK /\ [Next]_vars =>
        [RightPressed =>
          \A i \in Displayed \ Fixed :
            /\ Rank(i) < begin_field' => Rank(i) < begin_field \/ i \in Columns
            /\ begin_field' <= begin_field
                => \/ Rank(i) < begin_field'
                   \/ i \in ColumnsFrom(begin_field')]_vars
  BY <1>1
<1> QED BY <1>2, TypeCorrect, PTL DEF Spec, ColumnsPassed

\* Wherever the filter left the position: KEY_RIGHT and KEY_LEFT lead to a
\* column that scrolls (parse_keys, show_filter).
THEOREM LeftGetsBack == Spec => LeftFindsColumn
<1>1. ASSUME TypeOK, [Next]_vars, RightPressed, Displayed \ Fixed # {}
      PROVE  ColumnsFrom(LeftOf(begin_field')) \ Fixed # {}
  <2>1. /\ scr_col_size > Bound /\ begin_field' \in Int
        /\ begin_field' <= Cardinality(Displayed) - 1
    BY <1>1, RightKey
  <2>2. Cardinality(Displayed \ Fixed) >= 1
    <3>1. IsFiniteSet(Displayed \ Fixed)
      <4>1. Displayed \ Fixed \in SUBSET Displayed
        OBVIOUS
      <4> QED BY <4>1, ShownNumber, FS_Subset
    <3>2. Cardinality(Displayed \ Fixed) # 0
      BY <1>1, <3>1, FS_EmptySet
    <3> QED BY <3>2, ShownNumber
  <2>3. PICK right \in Int : right = begin_field'
    BY <2>1
  <2>4. PICK begin \in Int : begin = LeftOf(right)
    BY DEF LeftOf
  <2>5. begin = IF right - 1 < 1 THEN 1 ELSE right - 1
    BY <2>4 DEF LeftOf
  <2>6. begin <= Cardinality(Displayed \ Fixed)
    <3>1. /\ Cardinality(Displayed \ Fixed) \in Nat
          /\ Cardinality(Displayed) <= Cardinality(Displayed \ Fixed) + 2
          /\ Cardinality(Displayed) \in Nat
      BY ShownNumber, Zenon
    <3>2. right <= Cardinality(Displayed) - 1
      BY <2>1, <2>3
    <3> QED BY <2>2, <2>5, <3>1, <3>2
  <2>7. ColumnsFrom(begin) \ Fixed # {}
    BY <1>1, <2>1, <2>6, SomeColumn
  <2> QED BY <2>3, <2>4, <2>7
<1>2. TypeOK /\ [Next]_vars =>
        [RightPressed /\ Displayed \ Fixed # {}
          => ColumnsFrom(LeftOf(begin_field')) \ Fixed # {}]_vars
  BY <1>1
<1> QED BY <1>2, TypeCorrect, PTL DEF Spec, LeftFindsColumn
-----------------------------------------------------------------------------
(***************************************************************************)
(* The list of the filter.  Cell is a recursive function; that there is    *)
(* one is shown by a table that satisfies its equation, and that it is     *)
(* this table from the least field at which it would not be.               *)
(***************************************************************************)
LEMMA Division ==
    ASSUME NEW i \in Nat, NEW k \in Nat, k >= 1
    PROVE  i = (i \div k) * k + (i % k)
OBVIOUS

LEMMA NextQuotient ==
    ASSUME NEW i \in Nat, i # 0, NEW k \in Nat, k >= 1
    PROVE  /\ ((i - 1) % k) + 1 >= k =>
                i % k = 0 /\ i \div k = ((i - 1) \div k) + 1
           /\ ((i - 1) % k) + 1 < k =>
                i % k = ((i - 1) % k) + 1 /\ i \div k = (i - 1) \div k
<1>1. CASE ((i - 1) % k) + 1 >= k
  BY SMTT(30), <1>1
<1>2. CASE ((i - 1) % k) + 1 < k
  BY <1>2
<1> QED BY <1>1, <1>2

LEMMA Multiples ==
    ASSUME NEW a \in Nat, NEW b \in Nat, NEW k \in Nat, a <= b
    PROVE  a * k \in Nat /\ b * k \in Nat /\ a * k <= b * k
OBVIOUS

\* Columns of k lines each, the first of which is top.
CellTable(top, k) == [i \in Nat |-> <<top + (i % k), 3 + 20 * (i \div k)>>]

LEMMA HelpIsNat ==
    ASSUME TypeOK
    PROVE  FirstLine \in Nat
<1>1. scr_col_size \in Nat \ {0}
  BY DEF TypeOK
<1>2. \A length \in Nat : LinesOf(length, scr_col_size) \in Nat
  BY <1>1, LinesAreNat
<1>3. /\ LinesOf(46, scr_col_size) \in Nat /\ LinesOf(75, scr_col_size) \in Nat
      /\ LinesOf(29, scr_col_size) \in Nat
  BY <1>2
<1> QED BY <1>3 DEF FirstLine

CellFrom(f, i) ==
    NewColumn(IF i = 0 THEN <<FirstLine, 3>> ELSE <<f[i - 1][1] + 1, f[i - 1][2]>>)

LEMMA TableSolves ==
    ASSUME TypeOK, FirstLine < scr_row_size, NEW i \in Nat
    PROVE  CellTable(FirstLine, scr_row_size - FirstLine)[i] =
                CellFrom(CellTable(FirstLine, scr_row_size - FirstLine), i)
<1>0. scr_row_size \in Nat /\ FirstLine \in Nat
  <2>1. scr_row_size \in Nat
    BY DEF TypeOK
  <2> QED BY <2>1, HelpIsNat
<1>1. PICK top \in Nat, k \in Nat :
        top = FirstLine /\ k = scr_row_size - top /\ k >= 1
  BY <1>0
<1> DEFINE f == CellTable(top, k)
           Line(j) == j % k
           Col(j) == j \div k
<1>2. \A j \in Nat : f[j] = <<top + Line(j), 3 + 20 * Col(j)>>
  BY DEF CellTable
<1>3. /\ Line(0) = 0 /\ Col(0) = 0
      /\ \A j \in Nat : Line(j) \in 0..(k - 1) /\ Col(j) \in Nat
  BY <1>1
<1>4. ASSUME i # 0
      PROVE  /\ Line(i - 1) + 1 >= k => Line(i) = 0 /\ Col(i) = Col(i - 1) + 1
             /\ Line(i - 1) + 1 < k =>
                    Line(i) = Line(i - 1) + 1 /\ Col(i) = Col(i - 1)
  <2>1. i # 0 /\ k \in Nat /\ k >= 1
    BY <1>1, <1>4
  <2> QED BY <2>1, NextQuotient, Zenon
<1> HIDE DEF f, Line, Col
<1>5. \A l \in Nat, c \in Nat :
        /\ l >= k => NewColumn(<<top + l, c>>) = <<top, c + 20>>
        /\ l < k => NewColumn(<<top + l, c>>) = <<top + l, c>>
  BY <1>0, <1>1 DEF NewColumn
<1>6. ASSUME i = 0 PROVE f[i] = CellFrom(f, i)
  <2>1. Line(0) = 0 /\ Col(0) = 0
    BY <1>3
  <2>2. f[0] = <<top + 0, 3 + 20 * 0>>
    BY <1>2, <2>1
  <2>3. f[0] = <<top, 3>>
    BY <2>2
  <2>4. NewColumn(<<top, 3>>) = <<top, 3>>
    BY <1>0, <1>1 DEF NewColumn
  <2>5. CellFrom(f, i) = NewColumn(<<top, 3>>)
    BY <1>1, <1>6 DEF CellFrom
  <2>6. f[i] = f[0]
    BY <1>6
  <2> QED BY <2>3, <2>4, <2>5, <2>6
<1>7. ASSUME i # 0 PROVE f[i] = CellFrom(f, i)
  <2>1. PICK m \in Nat, q \in Nat : m = Line(i - 1) /\ q = Col(i - 1)
    BY SMTT(30), <1>3, <1>7
  <2>2. f[i - 1] = <<top + m, 3 + 20 * q>>
    BY <1>2, <1>7, <2>1
  <2>3. (top + m) + 1 = top + (m + 1) /\ m + 1 \in Nat /\ 3 + 20 * q \in Nat
    OBVIOUS
  <2>4. CellFrom(f, i) = NewColumn(<<top + (m + 1), 3 + 20 * q>>)
    BY <1>7, <2>2, <2>3 DEF CellFrom
  <2>5. f[i] = <<top + Line(i), 3 + 20 * Col(i)>>
    BY <1>2
  <2>6. CASE m + 1 >= k
    <3>1. Line(i) = 0 /\ Col(i) = q + 1
      BY <1>4, <1>7, <2>1, <2>6
    <3>2. CellFrom(f, i) = <<top, (3 + 20 * q) + 20>>
      BY <1>5, <2>3, <2>4, <2>6
    <3>3. top + Line(i) = top /\ 3 + 20 * Col(i) = (3 + 20 * q) + 20
      BY <3>1
    <3> QED BY <2>5, <3>2, <3>3
  <2>7. CASE m + 1 < k
    <3>1. Line(i) = m + 1 /\ Col(i) = q
      BY <1>4, <1>7, <2>1, <2>7
    <3>2. CellFrom(f, i) = <<top + (m + 1), 3 + 20 * q>>
      BY <1>5, <2>3, <2>4, <2>7
    <3> QED BY <2>5, <3>1, <3>2
  <2> QED BY <1>1, <2>6, <2>7
<1>8. f[i] = CellFrom(f, i)
  BY <1>6, <1>7
<1> QED BY <1>1, <1>8 DEF f

LEMMA CellIsTable ==
    ASSUME TypeOK, FirstLine < scr_row_size
    PROVE  Cell = CellTable(FirstLine, scr_row_size - FirstLine)
<1> DEFINE g == CellTable(FirstLine, scr_row_size - FirstLine)
<1>1. Cell = CHOOSE f : f = [i \in Nat |-> CellFrom(f, i)]
  BY DEF Cell, CellFrom
<1>2. g = [i \in Nat |-> CellFrom(g, i)]
  <2>1. g = [i \in Nat |-> g[i]]
    BY DEF CellTable
  <2> QED BY <2>1, TableSolves
<1>3. Cell = [i \in Nat |-> CellFrom(Cell, i)]
  BY <1>1, <1>2
<1> DEFINE T == {i \in Nat : Cell[i] # g[i]}
<1>4. T = {}
  <2> SUFFICES ASSUME T # {} PROVE FALSE
    OBVIOUS
  <2>1. PICK n \in T : \A m \in T : ~ (m < n)
    <3>1. T \subseteq Nat
      OBVIOUS
    <3>2. PICK n \in T : \A m \in T : ~ (<<m, n>> \in OpToRel(<, Nat))
      <4> HIDE DEF T
      <4> QED BY <3>1, NatLessThanWellFounded, WFMin
    <3>3. \A m \in T : m < n => <<m, n>> \in OpToRel(<, Nat)
      BY DEF OpToRel
    <3> QED BY <3>2, <3>3
  <2>2. n \in Nat /\ Cell[n] # g[n]
    BY <2>1
  <2>3. Cell[n] = CellFrom(Cell, n) /\ g[n] = CellFrom(g, n)
    BY <1>2, <1>3, <2>2
  <2>4. CASE n = 0
    BY <2>2, <2>3, <2>4 DEF CellFrom
  <2>5. CASE n # 0
    <3>1. n - 1 \in Nat /\ n - 1 \notin T
      BY <2>1, <2>2, <2>5
    <3>2. Cell[n - 1] = g[n - 1]
      BY <3>1
    <3> HIDE DEF g
    <3> QED BY <2>2, <2>3, <2>5, <3>2 DEF CellFrom
  <2> QED BY <2>4, <2>5
<1>5. g = [i \in Nat |-> g[i]]
  BY DEF CellTable
<1>6. \A i \in Nat : Cell[i] = g[i]
  BY <1>4
<1> HIDE DEF g
<1>7. Cell = [i \in Nat |-> Cell[i]]
  BY <1>3
<1>8. Cell = g
  BY <1>5, <1>6, <1>7
<1> QED BY <1>8 DEF g

\* For any number of fields, and on screens of any size that have a line below
\* the help, the entries of the filter keep apart and on the lines of the screen,
\* and none is off its right edge unless their columns have no room (print_field).
THEOREM FieldsHavePlaces == Spec => []FilterCells
<1>1. ASSUME TypeOK, FirstLine < scr_row_size
      PROVE  /\ \A i \in Fields : Cell[i][1] \in FirstLine..(scr_row_size - 1)
             /\ \A i, j \in Fields :
                 i < j /\ Cell[i][1] = Cell[j][1]
                    => Cell[i][2] + 20 <= Cell[j][2]
             /\ \A n \in 1..FD_END :
                 /\ FD_END <= n * (scr_row_size - FirstLine)
                 /\ 3 + 20 * (n - 1) + NameLength <= scr_col_size
                 => \A i \in Fields : Listed(i)
  <2>1. /\ scr_row_size \in Nat /\ FirstLine \in Nat
        /\ scr_col_size \in Nat
    <3>1. FirstLine \in Nat
      BY <1>1, HelpIsNat
    <3>2. scr_row_size \in Nat /\ scr_col_size \in Nat
      BY <1>1 DEF TypeOK
    <3> QED BY <3>1, <3>2
  <2>2. PICK k \in Nat : k = scr_row_size - FirstLine /\ k >= 1
    BY <1>1, <2>1
  <2>3. \A i \in Fields : i \in Nat /\ i < FD_END
    BY FieldNumbers DEF Fields
  <2> DEFINE Line(i) == i % k
             Col(i) == i \div k
  <2>4. \A i \in Fields : /\ Cell[i][1] = FirstLine + Line(i)
                         /\ Cell[i][2] = 3 + 20 * Col(i)
    <3>1. Cell = CellTable(FirstLine, k)
      BY <1>1, <2>2, CellIsTable
    <3>2. \A i \in Nat : CellTable(FirstLine, k)[i] =
                <<FirstLine + Line(i), 3 + 20 * Col(i)>>
      BY DEF CellTable
    <3> HIDE DEF Line, Col
    <3> QED BY <2>3, <3>1, <3>2
  <2>5. \A i \in Nat : Line(i) \in 0..(k - 1) /\ Col(i) \in Nat
    BY SMTT(30), <2>2
  <2>6. \A i \in Nat : i = Col(i) * k + Line(i)
    BY <2>2, Division
  <2> HIDE DEF Line, Col
  <2>7. ASSUME NEW i \in Fields
        PROVE  Cell[i][1] \in FirstLine..(scr_row_size - 1)
    <3>1. Line(i) \in 0..(k - 1) /\ Cell[i][1] = FirstLine + Line(i)
      BY <2>3, <2>4, <2>5
    <3> QED BY <2>1, <2>2, <3>1
  <2>8. ASSUME NEW i \in Fields, NEW j \in Fields, i < j,
               Cell[i][1] = Cell[j][1]
        PROVE  Cell[i][2] + 20 <= Cell[j][2]
    <3>1. /\ i \in Nat /\ j \in Nat /\ Col(i) \in Nat /\ Col(j) \in Nat
          /\ Line(i) \in Nat /\ Line(j) \in Nat
      BY <2>2, <2>3, <2>5
    <3>2. Line(i) = Line(j)
      BY <2>1, <2>4, <2>8, <3>1
    <3>3. ASSUME Col(j) <= Col(i) PROVE FALSE
      <4>1. /\ Col(j) * k <= Col(i) * k
            /\ Col(j) * k \in Nat /\ Col(i) * k \in Nat
        BY <3>1, <3>3, Multiples
      <4>2. i = Col(i) * k + Line(i) /\ j = Col(j) * k + Line(j)
        BY <2>6, <3>1
      <4> QED BY <2>8, <3>1, <3>2, <4>1, <4>2
    <3>4. Col(i) + 1 <= Col(j)
      BY <3>1, <3>3
    <3> QED BY <2>4, <3>1, <3>4
  <2>9. ASSUME NEW n \in 1..FD_END,
               FD_END <= n * (scr_row_size - FirstLine),
               3 + 20 * (n - 1) + NameLength <= scr_col_size,
               NEW i \in Fields
        PROVE  Listed(i)
    <3>1. /\ i \in Nat /\ i < FD_END /\ Col(i) \in Nat /\ Line(i) \in Nat
          /\ n \in Nat /\ FD_END \in Nat
      BY <2>2, <2>3, <2>5, FieldNumbers
    <3>2. ASSUME n <= Col(i) PROVE FALSE
      <4>1. n * k <= Col(i) * k /\ n * k \in Nat /\ Col(i) * k \in Nat
        BY <3>1, <3>2, Multiples
      <4>2. i = Col(i) * k + Line(i)
        BY <2>6, <3>1
      <4>3. FD_END <= n * k
        BY <2>2, <2>9
      <4> QED BY <3>1, <4>1, <4>2, <4>3
    <3>3. Col(i) <= n - 1
      BY <3>1, <3>2
    <3>4. Cell[i][2] + NameLength <= scr_col_size
      <4>1. Cell[i][2] = 3 + 20 * Col(i)
        BY <2>4
      <4> QED BY <2>1, <2>9, <3>1, <3>3, <4>1 DEF NameLength
    <3>5. Cell[i][1] < scr_row_size
      BY <2>1, <2>7
    <3> QED BY <3>4, <3>5 DEF Listed
  <2> QED BY <2>7, <2>8, <2>9
<1>2. TypeOK => FilterCells
  BY <1>1 DEF FilterCells
<1> QED BY <1>2, TypeCorrect, PTL
=============================================================================
