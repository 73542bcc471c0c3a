------------------------------- MODULE Screen -------------------------------
(***************************************************************************)
(* Frames and keys in terminal mode: show_header, show_task, show_domains, *)
(* show_filter and parse_keys (vmtop.c) with the table of fields (field.c, *)
(* field.h).                                                               *)
(*                                                                         *)
(* A turn of main's loop is two actions: MakeFrame samples and draws, and  *)
(* then a key, or the timeout, ends the wait.  What was sampled, and the   *)
(* size of the terminal, are whatever they are at that turn; the scroll    *)
(* position and the flags of the fields are kept from turn to turn.        *)
(***************************************************************************)
EXTENDS Integers, Sequences, FiniteSets, FiniteSetsExt, Functions

CONSTANTS
    Keys,       \* the keys that are pressed
    Lists,      \* the samples there may be: nlwp of every domain
    Heights,    \* the heights that the terminal may have
    Widths,     \* the widths that it may have
    Plain,      \* number of fields between FD_VMNAME and FD_NODE0
    Hidden,     \* those of them that are FIELDS_HIDDEN in the table
    MaxNodeNum, \* MAX_NODE_NUM
    Align,      \* width of a field
    Title,      \* characters in the first line of the summary
    BandDigits, \* the numbers of digits that a bandwidth may have
    HaveResctrl,\* option -G
    MaxBegin    \* bound: how far begin_task moves from 0

AllKeys == {"f", "q", "H", "space", "up", "down", "npage", "ppage", "left",
            "right"}

ASSUME ScreenAssumption ==
    /\ Keys \subseteq AllKeys
    /\ Lists \subseteq Seq(Nat)
    /\ Heights \subseteq Nat /\ Widths \subseteq Nat \ {0}
    /\ Title \in Nat /\ Title >= 30 /\ BandDigits \subseteq Nat
    /\ Plain \in Nat /\ MaxNodeNum \in Nat \ {0}
    /\ Hidden \subseteq 2..(Plain + 1)
    /\ HaveResctrl \in BOOLEAN
    /\ MaxBegin \in Nat \ {0}

FD_DID == 0
FD_VMNAME == 1
FD_NODE0 == 2 + Plain
FD_END == FD_NODE0 + MaxNodeNum
Fields == 0..(FD_END - 1)
NodeFields(num) == FD_NODE0..(FD_NODE0 + num - 1)

\* Of the widths in the table: no column that scrolls is wider than that of a
\* node, which is not wider than the first two together.
ASSUME WidthAssumption ==
    /\ \A i \in Fields : Align[i] \in Nat
    /\ \A i \in Fields \ {FD_DID, FD_VMNAME} : Align[i] <= Align[FD_NODE0]
    /\ Align[FD_NODE0] <= Align[FD_DID] + Align[FD_VMNAME]

VARIABLES
    mode,           \* "loop": next turn; "shown": wait; "filter"; "done"
    nlwp,           \* scr_cur.domains: the threads of each
    node_num,       \* scr_cur.node_num
    resctrl_enable,
    scr_row_size,
    scr_col_size,
    begin_task,
    begin_field,
    thread_mode,
    display_flag,   \* fields[].display_flag
    high_light,     \* show_filter: the field under the bar
    frame,          \* the latest frame: its tasks and what they depend on
    key,            \* history: the latest key, "none" if it was a timeout
    chosen          \* history: what the filter was told about which fields

screenVars == <<nlwp, node_num, resctrl_enable, scr_row_size, scr_col_size>>
scrollVars == <<begin_task, begin_field, thread_mode>>
vars == <<mode, screenVars, scrollVars, display_flag, high_light, frame, key,
          chosen>>

Flags == {0, 1}     \* FIELDS_HIDDEN, FIELDS_DISPLAY

TypeOK ==
    /\ mode \in {"loop", "shown", "filter", "done"}
    /\ nlwp \in Lists \cup {<<>>}
    /\ node_num \in 0..MaxNodeNum
    /\ resctrl_enable \in BOOLEAN
    /\ scr_row_size \in Heights \cup {2048}
    /\ scr_col_size \in Widths \cup {1024}
    /\ begin_task \in (-MaxBegin)..MaxBegin
    /\ begin_field \in Int
    /\ thread_mode \in Flags
    /\ display_flag \in [Fields -> Flags]
    /\ high_light \in Fields
    /\ frame \in [tasks : SUBSET Nat, total : Nat, rows : Nat, top : Nat,
                  threads : Flags]
    /\ key \in AllKeys \cup {"none"}
    /\ chosen \in [DOMAIN chosen -> Flags] /\ DOMAIN chosen \subseteq Fields

NoFrame == [tasks |-> {}, total |-> 0, rows |-> 0, top |-> 0, threads |-> 0]

\* The display flags of the table: WAITmax and the nodes are hidden, among others.
TableFlags ==
    [i \in Fields |-> IF i \in Hidden \/ i >= FD_NODE0 THEN 0 ELSE 1]

\* init_parameter, and the flags that the table starts with.
Init ==
    /\ mode = "loop"
    /\ nlwp = <<>> /\ node_num = 0 /\ resctrl_enable = FALSE
    /\ scr_row_size = 2048 /\ scr_col_size = 1024
    /\ begin_task = 1 /\ begin_field = 1
    /\ thread_mode \in Flags
    /\ display_flag = TableFlags
    /\ high_light = 0
    /\ frame = NoFrame
    /\ key = "none"
    /\ chosen = <<>>
-----------------------------------------------------------------------------
(***************************************************************************)
(* A frame.                                                                *)
(***************************************************************************)
\* get_task_num
TaskNum(list) == Len(list) + SumFunction(list)

\* The tasks that show_domains goes through.
Total(list, threads) == IF threads = 1 THEN TaskNum(list) ELSE Len(list)

\* printw: the lines that so many characters and a newline take.
LinesOf(length, width) == length \div width + 1

\* The length of an int in the summary.
Digits(n) == 1 + Cardinality({k \in 1..9 : n >= 10^k})

\* Lines of the summary that hold the total and the bandwidth of each node;
\* digits is how long these numbers are, the total's last.
BandwidthLines(nodes, digits, width) ==
    LinesOf(22 + digits[nodes], width)
        + SumFunction([i \in 0..(nodes - 1) |->
                        LinesOf(18 + Digits(i) + digits[i], width)])

\* Lines above the first task: the summary, an empty line, the header.
TopLines(num, resctrl, nodes, digits, width) ==
    LinesOf(Title, width) + LinesOf(17 + Digits(num), width) + 2
        + (IF resctrl THEN BandwidthLines(nodes, digits, width) ELSE 0)

\* Mutant: one line more.
Drawn_OneMore(n, rows) == n >= begin_task /\ n - begin_task <= rows - 4

\* show_task does not return early for the n-th task.
Drawn(n, rows) == n >= begin_task /\ n - begin_task <= rows - 5

\* Mutant: the flags of the columns before the nodes are set as well.
HeaderFlags_Early(flags, resctrl, nodes) ==
    [i \in Fields |->
        IF i \in FD_NODE0 - 1..(FD_NODE0 + nodes - 1)
        THEN (IF resctrl THEN 1 ELSE 0) ELSE flags[i]]

\* show_header sets the flags of the nodes that there are.
HeaderFlags(flags, resctrl, nodes) ==
    [i \in Fields |->
        IF i \in NodeFields(nodes) THEN (IF resctrl THEN 1 ELSE 0)
        ELSE flags[i]]

MakeFrame ==
    /\ mode = "loop"
    /\ scr_row_size' \in Heights
    /\ scr_col_size' \in Widths
    /\ nlwp' \in Lists
    /\ resctrl_enable' \in (IF HaveResctrl THEN BOOLEAN ELSE {FALSE})
    /\ node_num' \in
        (IF resctrl_enable' THEN 0..MaxNodeNum ELSE {node_num})
    /\ display_flag' = HeaderFlags(display_flag, resctrl_enable', node_num')
    /\ \E digits \in [0..node_num' -> BandDigits] :
        LET total == Total(nlwp', thread_mode)
        IN frame' = [tasks |-> {n \in 1..total : Drawn(n, scr_row_size')},
                     total |-> total,
                     rows |-> scr_row_size',
                     top |-> TopLines(Len(nlwp'), resctrl_enable', node_num',
                                      digits, scr_col_size'),
                     threads |-> thread_mode]
    /\ mode' = "shown"
    /\ UNCHANGED <<scrollVars, high_light, key, chosen>>
-----------------------------------------------------------------------------
(***************************************************************************)
(* Columns of a header or task line.                                       *)
(***************************************************************************)
Fixed == {FD_DID, FD_VMNAME}
Displayed == {i \in Fields : display_flag[i] = 1}

\* get_show_field_num
ShowFieldNum == Cardinality(Displayed)

\* showd_field once the loop has come to field i.
Rank(i) == Cardinality({j \in Displayed \ Fixed : j <= i})

\* The fields that a scroll position leaves.
ScrolledFrom(begin) == {i \in Displayed : i \in Fixed \/ Rank(i) >= begin}

\* Those before the line is full.
ColumnsFrom(begin) ==
    {i \in ScrolledFrom(begin) :
        MapThenSumSet(LAMBDA j : Align[j],
                      {j \in ScrolledFrom(begin) : j <= i})
            < scr_col_size}

Columns == ColumnsFrom(begin_field)
-----------------------------------------------------------------------------
(***************************************************************************)
(* parse_keys                                                              *)
(***************************************************************************)
\* getch returns k: the loop goes on with its next turn.
Pressed(k) ==
    /\ mode = "shown"
    /\ k \in Keys
    /\ key' = k
    /\ UNCHANGED <<screenVars, display_flag, frame, chosen>>

\* getch times out.
Timeout ==
    /\ mode = "shown"
    /\ key' = "none"
    /\ mode' = "loop"
    /\ UNCHANGED <<screenVars, scrollVars, display_flag, high_light, frame,
                   chosen>>

\* Mutant: the end of the list is not looked at.
ScrollDown_NoEnd(size) ==
    /\ begin_task' = begin_task + size
    /\ begin_task' <= MaxBegin
    /\ mode' = "loop"
    /\ UNCHANGED <<begin_field, thread_mode, high_light>>

\* case KEY_UP, which moves towards the end of the list.
ScrollDown(size) ==
    /\ LET task_num == Total(nlwp, thread_mode)
       IN begin_task' = IF begin_task + size > task_num THEN task_num
                        ELSE begin_task + size
    /\ begin_task' \in (-MaxBegin)..MaxBegin
    /\ mode' = "loop"
    /\ UNCHANGED <<begin_field, thread_mode, high_light>>

\* case KEY_DOWN
ScrollUp(size) ==
    /\ begin_task' = IF begin_task - size < 1 THEN 1 ELSE begin_task - size
    /\ begin_task' <= MaxBegin
    /\ mode' = "loop"
    /\ UNCHANGED <<begin_field, thread_mode, high_light>>

\* Mutant: a page is what fits under an empty summary.
PageSize_Full == scr_row_size - 3

PageSize == scr_row_size - 6

KeyUp == Pressed("up") /\ ScrollDown(1)
KeyNpage == Pressed("npage") /\ ScrollDown(PageSize)
KeyDown == Pressed("down") /\ ScrollUp(1)
KeyPpage == Pressed("ppage") /\ ScrollUp(PageSize)

LeftOf(begin) == IF begin - 1 < 1 THEN 1 ELSE begin - 1

KeyLeft ==
    /\ Pressed("left")
    /\ begin_field' = LeftOf(begin_field)
    /\ mode' = "loop"
    /\ UNCHANGED <<begin_task, thread_mode, high_light>>

\* Mutant: only the columns that scroll are counted.
RightLimit_Scrolling == Cardinality(Displayed \ Fixed)

RightLimit == ShowFieldNum

\* Mutant: a position at or past the end is left where it is.
RightOf_Stays(begin) == IF begin + 1 >= RightLimit THEN begin ELSE begin + 1

RightOf(begin) ==
    IF begin + 1 >= RightLimit THEN RightLimit - 1 ELSE begin + 1

KeyRight ==
    /\ Pressed("right")
    /\ begin_field' = RightOf(begin_field)
    /\ mode' = "loop"
    /\ UNCHANGED <<begin_task, thread_mode, high_light>>

KeyThreads ==
    /\ Pressed("H")
    /\ thread_mode' = 1 - thread_mode
    /\ begin_task' = 1
    /\ mode' = "loop"
    /\ UNCHANGED <<begin_field, high_light>>

KeyQuit ==
    /\ Pressed("q")
    /\ mode' = "done"
    /\ UNCHANGED <<scrollVars, high_light>>

(***************************************************************************)
(* show_filter                                                             *)
(***************************************************************************)
KeyFilter ==
    /\ Pressed("f")
    /\ mode' = "filter"
    /\ high_light' = 0
    /\ UNCHANGED scrollVars

\* getch within show_filter.  A timeout, and any other key, changes nothing.
InFilter(k) ==
    /\ mode = "filter"
    /\ k \in Keys
    /\ UNCHANGED <<screenVars, scrollVars, frame, key>>

FilterUp ==
    /\ InFilter("up")
    /\ high_light' = IF high_light - 1 < 0 THEN FD_END - 1 ELSE high_light - 1
    /\ UNCHANGED <<mode, display_flag, chosen>>

\* Mutant: the bar leaves the list at its end.
FilterDown_NoWrap ==
    /\ InFilter("down")
    /\ high_light' = high_light + 1
    /\ UNCHANGED <<mode, display_flag, chosen>>

FilterDown ==
    /\ InFilter("down")
    /\ high_light' = IF high_light + 1 >= FD_END THEN 0 ELSE high_light + 1
    /\ UNCHANGED <<mode, display_flag, chosen>>

FilterToggle ==
    /\ InFilter("space")
    /\ display_flag' = [display_flag EXCEPT ![high_light] = 1 - @]
    /\ chosen' = [i \in DOMAIN chosen \cup {high_light} |->
                    IF i = high_light THEN display_flag'[i] ELSE chosen[i]]
    /\ UNCHANGED <<mode, high_light>>

FilterQuit ==
    /\ InFilter("q")
    /\ mode' = "loop"
    /\ UNCHANGED <<display_flag, high_light, chosen>>

\* The line that getyx finds: under the three lines of help, the second of
\* which wraps in a narrow terminal, and an empty one.
FirstLine ==
    LinesOf(46, scr_col_size) + LinesOf(75, scr_col_size)
        + LinesOf(29, scr_col_size) + 1

\* Mutant: the column is not left when it is full.
NewColumn_Never(cell) == cell

\* The top of the next column, if line and column are those below the screen.
NewColumn(cell) ==
    IF cell[1] >= scr_row_size THEN <<FirstLine, cell[2] + 20>> ELSE cell

\* print_field: line and column at which field i is listed.
Cell[i \in Nat] ==
    NewColumn(IF i = 0 THEN <<FirstLine, 3>>
              ELSE LET above == Cell[i - 1] IN <<above[1] + 1, above[2]>>)

\* The longest of the names, VM/task-name.
NameLength == 12

\* A field is listed on the screen, with all of its name.
Listed(i) ==
    /\ Cell[i][1] < scr_row_size
    /\ Cell[i][2] + NameLength <= scr_col_size
-----------------------------------------------------------------------------
Next ==
    \/ MakeFrame \/ Timeout
    \/ KeyUp \/ KeyDown \/ KeyNpage \/ KeyPpage \/ KeyLeft \/ KeyRight
    \/ KeyThreads \/ KeyQuit \/ KeyFilter
    \/ FilterUp \/ FilterDown \/ FilterToggle \/ FilterQuit

Spec == Init /\ [][Next]_vars
-----------------------------------------------------------------------------
(***************************************************************************)
(* Properties.                                                             *)
(***************************************************************************)
\* The drawn tasks that have a line on the screen.
VisibleTasks(f) == {n \in f.tasks : f.top + (n - Min(f.tasks)) < f.rows}

\* The header and the tasks agree on the size of the screen: what show_task
\* draws under a header without bandwidth has a line of its own on the screen,
\* if the summary's first line is shorter than those of the screen; and while
\* tasks below are hidden at most one line is left empty.  (One, if begin_task
\* is 0; below 0 it gets only by a page key on a tiny screen.)
FrameFits ==
    mode = "shown" /\ frame.rows >= 4 =>
        /\ ~ resctrl_enable /\ Title < scr_col_size
            => VisibleTasks(frame) = frame.tasks
        /\ begin_task >= 0 /\ frame.tasks # {} /\ frame.total \notin frame.tasks
            => frame.top + Cardinality(frame.tasks) >= frame.rows - 1

\* A frame that was made right after key k, and one of as many tasks on a
\* screen of the same size before it.
FrameAfter(k) ==
    /\ mode = "loop" /\ mode' = "shown" /\ key = k
    /\ frame'.total = frame.total /\ frame'.rows = frame.rows
    /\ frame'.threads = frame.threads
    /\ begin_task >= 0

\* Paging leaves no task out: each one before the first of the new page was
\* on the screen, or above it, when KEY_NPAGE was pressed ("move pagesize - 6
\* for beauty", vmtop.c:487), as long as the summary takes no more than the
\* two lines that the page is shorter than the screen allows.
PagingCovers ==
    [][FrameAfter("npage") /\ frame.rows >= 6 /\ frame.top <= 6 =>
        \A n \in 1..frame.total :
            frame'.tasks # {} /\ n < Min(frame'.tasks)
                => \/ n \in VisibleTasks(frame)
                   \/ frame.tasks # {} /\ n < Min(frame.tasks)
                   \/ frame.tasks = {}]_vars

\* A screen that shows nothing because the list became shorter than the
\* position kept for it shows tasks again after KEY_UP or KEY_NPAGE
\* (parse_keys).
ScrollFindsTasks ==
    [][/\ FrameAfter("up") \/ FrameAfter("npage")
       /\ frame.total > 0 /\ frame.rows >= 6
       => frame'.tasks # {}]_vars

\* KEY_RIGHT was pressed, on a screen that is wide enough for the fixed columns
\* and one more.
RightPressed ==
    /\ mode = "shown" /\ key' = "right" /\ mode' = "loop"
    /\ scr_col_size > MapThenSumSet(LAMBDA j : Align[j], Fixed)
                         + Align[FD_NODE0]

\* With KEY_RIGHT every column comes on the screen: it steps over none that is
\* cut off, and when it moves the position no further, none to the right is
\* (parse_keys; get_show_field_num counts the fixed columns as well,
\* show_header does not, and the filter may have hidden any of them).
ColumnsPassed ==
    [][RightPressed =>
        \A i \in Displayed \ Fixed :
            /\ Rank(i) < begin_field' => Rank(i) < begin_field \/ i \in Columns
            /\ begin_field' <= begin_field
                => \/ Rank(i) < begin_field'
                   \/ i \in ColumnsFrom(begin_field')]_vars

\* However many fields the filter hid after the position was reached: from
\* where KEY_RIGHT takes it, KEY_LEFT brings a column on the screen that is
\* not a fixed one, if any is displayed (parse_keys, show_filter).
LeftFindsColumn ==
    [][RightPressed /\ Displayed \ Fixed # {}
        => ColumnsFrom(LeftOf(begin_field')) \ Fixed # {}]_vars

\* A field is shown or hidden as the filter was told last ("use space to set
\* whether chosen filed to be showed", field.c:29), or as the table says if it
\* was told nothing; for the fields that are not nodes, whose flags every frame
\* sets (show_header).
FilterHolds ==
    \A i \in Fields \ NodeFields(MaxNodeNum) :
        display_flag[i] = IF i \in DOMAIN chosen THEN chosen[i]
                          ELSE TableFlags[i]

\* The filter lists every field on a line of the screen below the help, fields
\* of one line a column's width apart, and if some number of columns has room
\* for all of them on this screen, each is listed with its whole name
\* (print_field: "start another col to show fields list with 20 intervals",
\* vmtop.c:401-404), if there is a line below the help at all.
FilterCells ==
    mode = "filter" /\ FirstLine < scr_row_size =>
        /\ \A i \in Fields : Cell[i][1] \in FirstLine..(scr_row_size - 1)
        /\ \A i, j \in Fields :
            i < j /\ Cell[i][1] = Cell[j][1] => Cell[i][2] + 20 <= Cell[j][2]
        /\ \A n \in 1..FD_END :
            /\ FD_END <= n * (scr_row_size - FirstLine)
            /\ 3 + 20 * (n - 1) + NameLength <= scr_col_size
            => \A i \in Fields : Listed(i)
=============================================================================
