----------------------------- MODULE ListsProofs -----------------------------
(***************************************************************************)
(* Who owns what in the domain lists, for any memory and any number of     *)
(* domains.                                                                *)
(***************************************************************************)
EXTENDS Lists, TLAPS

\* The pointers of list l when the blocks hold c.
Row(c, l) == {c[l.domains][i] : i \in 1..l.num}

Owns(c, l) == ({l.domains} \cup Row(c, l)) \ {NULL}

\* No index leaves the array, and no two pointers are the same.
Sound(c, l) ==
    /\ l \in DomainList
    /\ l.domains = NULL => l.num = 0
    /\ l.domains # NULL => l.num <= Len(c[l.domains])
    /\ \A i \in 1..l.num : c[l.domains][i] # l.domains
    /\ \A i, j \in 1..l.num :
        c[l.domains][i] = c[l.domains][j] => i = j \/ c[l.domains][i] = NULL

\* A block belongs to one of the lists, or to a domain that was popped.
Parted(h, c, n, p, lo) ==
    /\ Sound(c, n) /\ Sound(c, p)
    /\ Owns(c, n) \cap Owns(c, p) = {}
    /\ lo \cap (Owns(c, n) \cup Owns(c, p)) = {}
    /\ h = Owns(c, n) \cup Owns(c, p) \cup lo

\* The domain that set_domain works on is the last of now; its threads pointer
\* is set by get_child_pid.
Working ==
    /\ pc \in {"domain", "tasks"} => now.domains # NULL /\ now.num > 0
    /\ pc = "domain" => cell[now.domains][now.num] = NULL
    /\ pc = "tasks" => cell[now.domains][now.num] # NULL

Streams ==
    /\ taskdirs = lostdirs + (IF pc = "tasks" THEN 1 ELSE 0)
    /\ rundir <=> pc \in {"files", "domain", "tasks"}

IInv ==
    /\ TypeOK
    /\ Parted(heap, cell, now, pre, lost)
    /\ Working
    /\ Streams
    /\ fault = FALSE
-----------------------------------------------------------------------------
(***************************************************************************)
(* Lists of domains in a memory.                                           *)
(***************************************************************************)
\* What a list is depends on its own block only.
LEMMA OtherBlock ==
    ASSUME NEW c, NEW d, NEW l, Sound(c, l),
           l.domains # NULL => d[l.domains] = c[l.domains]
    PROVE  Sound(d, l) /\ Owns(d, l) = Owns(c, l)
<1>1. CASE l.domains # NULL
  BY <1>1 DEF Sound, Owns, Row
<1>2. CASE l.domains = NULL
  <2>1. l.num = 0 /\ 1..l.num = {}
    BY <1>2 DEF Sound
  <2> QED BY <1>2, <2>1 DEF Sound, Owns, Row
<1> QED BY <1>1, <1>2

\* The pointers that are followed are those that Reach collects.
LEMMA Followed ==
    ASSUME TypeOK, NEW list \in {now, pre}, Sound(cell, list)
    PROVE  /\ Reach(list) = Owns(cell, list)
           /\ ThreadsOf(list) = Row(cell, list) \ {NULL}
           /\ Len(Threads(list)) = list.num
           /\ \A i \in 1..list.num : Threads(list)[i] = cell[list.domains][i]
<1>1. list.domains \in Pointers /\ list.num \in Nat
  BY DEF Sound, DomainList
<1>2. /\ Len(Threads(list)) = list.num
      /\ \A i \in 1..list.num : Threads(list)[i] = cell[list.domains][i]
  <2>1. CASE list.domains = NULL
    BY <2>1 DEF Sound, Threads
  <2>2. CASE list.domains # NULL
    <3>1. cell[list.domains] \in Seq(Pointers)
      BY <1>1, <2>2 DEF TypeOK, Pointers
    <3>2. list.num <= Len(cell[list.domains])
      BY <2>2 DEF Sound
    <3> QED BY <1>1, <2>2, <3>1, <3>2 DEF Threads
  <2> QED BY <2>1, <2>2
<1>3. ThreadsOf(list) = Row(cell, list) \ {NULL}
  BY <1>2 DEF ThreadsOf, Row
<1>4. Reach(list) = Owns(cell, list)
  BY <1>3 DEF Reach, Owns
<1> QED BY <1>2, <1>3, <1>4

\* pop_domains gives up the pointer of the last domain.
LEMMA Popped ==
    ASSUME NEW c, NEW l, Sound(c, l), l.num > 0,
           NEW m, m = [l EXCEPT !.num = @ - 1]
    PROVE  /\ Sound(c, m)
           /\ Owns(c, m) = Owns(c, l) \ {c[l.domains][l.num]}
<1>1. /\ l.domains \in Pointers /\ l.num \in Nat
      /\ m.domains = l.domains /\ m.num = l.num - 1 /\ m \in DomainList
  BY DEF Sound, DomainList
<1>2. Sound(c, m)
  BY <1>1 DEF Sound
<1>3. c[l.domains][l.num] = NULL \/ c[l.domains][l.num] \notin Row(c, m)
  BY SMTT(30), <1>1 DEF Sound, Row
<1>4. Row(c, l) = Row(c, m) \cup {c[l.domains][l.num]}
  BY <1>1 DEF Row
<1>5. c[l.domains][l.num] # l.domains
  BY <1>1 DEF Sound
<1> QED BY <1>1, <1>2, <1>3, <1>4, <1>5 DEF Owns
-----------------------------------------------------------------------------
(***************************************************************************)
(* The actions.                                                            *)
(***************************************************************************)
LEMMA InitIInv ==
    ASSUME ListsAssumption, Init
    PROVE  IInv
<1> USE DEF Init
<1>1. 0 \in 0..MaxFiles /\ 0 \in 0..MaxLost
  BY DEF ListsAssumption
<1>2. cell \in [Blocks -> Seq(Pointers)]
  OBVIOUS
<1>3. Empty \in DomainList /\ Empty.num = 0 /\ Empty.domains = NULL
  BY DEF Empty, DomainList, Pointers
<1>4. TypeOK
  BY <1>1, <1>2, <1>3 DEF TypeOK
<1>5. Parted(heap, cell, now, pre, lost)
  BY <1>3 DEF Parted, Sound, Owns, Row
<1>6. pc \notin {"files", "domain", "tasks"} /\ pc # "tasks"
  OBVIOUS
<1>7. Working
  BY <1>6 DEF Working
<1>8. Streams
  BY <1>6 DEF Streams
<1> QED BY <1>4, <1>5, <1>7, <1>8 DEF IInv

\* clear_domains frees what pre owns, and that is allocated.
LEMMA RotateIInv ==
    ASSUME ListsAssumption, IInv, Rotate
    PROVE  IInv'
<1> DEFINE s == Owns(cell, pre)
<1> USE DEF IInv
<1>1. Reach(pre) = s
  BY Followed DEF Parted
<1>2. /\ heap' = heap \ s
      /\ cell' = [b \in Blocks |-> IF b \in s THEN <<>> ELSE cell[b]]
      /\ fault' = (fault \/ ~ s \subseteq heap)
      /\ pre' = now /\ now' = Empty /\ pc' = "vcpus" /\ lost' = lost
      /\ UNCHANGED <<files, dirVars>>
  BY <1>1 DEF Rotate, Clear, Freed, HandOver, Reach
<1>3. s \subseteq heap /\ s \cap Owns(cell, now) = {}
  BY DEF Parted
<1>4. now.domains # NULL => now.domains \in Blocks \ s
  BY <1>3 DEF TypeOK, DomainList, Pointers, Owns
<1>5. Sound(cell', now) /\ Owns(cell', now) = Owns(cell, now)
  <2>1. now.domains # NULL => cell'[now.domains] = cell[now.domains]
    BY <1>2, <1>4
  <2>2. Sound(cell, now)
    BY DEF Parted
  <2> QED BY <2>1, <2>2, OtherBlock
<1>6. Empty \in DomainList /\ Empty.num = 0 /\ Empty.domains = NULL
  BY DEF Empty, DomainList, Pointers
<1>7. Sound(cell', Empty) /\ Owns(cell', Empty) = {}
  BY <1>6 DEF Sound, Owns, Row
<1>8. Parted(heap', cell', now', pre', lost')
  BY <1>2, <1>3, <1>5, <1>7 DEF Parted
<1>9. TypeOK'
  <2>1. cell' \in [Blocks -> Seq(Pointers)]
    BY <1>2 DEF TypeOK
  <2> QED BY <1>2, <1>6, <2>1 DEF TypeOK, dirVars
<1>10. fault' = FALSE
  BY <1>2, <1>3
<1>11. Working' /\ Streams'
  BY <1>2 DEF Rotate, Working, Streams, dirVars
<1> QED BY <1>8, <1>9, <1>10, <1>11

\* add_domains frees the array that it copied.
LEMMA NextFileIInv ==
    ASSUME ListsAssumption, IInv, NextFile
    PROVE  IInv'
<1> USE DEF IInv
<1>1. PICK b \in Blocks \ heap : AddDomains(b)
  BY DEF NextFile
<1>2. /\ pc = "files" /\ pc' = "domain" /\ files > 0 /\ files' = files - 1
      /\ pre' = pre /\ lost' = lost
      /\ UNCHANGED dirVars
  BY DEF NextFile
<1>3. /\ Sound(cell, now) /\ Sound(cell, pre)
      /\ Owns(cell, now) \cap Owns(cell, pre) = {}
      /\ lost \cap (Owns(cell, now) \cup Owns(cell, pre)) = {}
      /\ heap = Owns(cell, now) \cup Owns(cell, pre) \cup lost
  BY DEF Parted
<1>4. /\ now.domains \in Pointers /\ now.num \in Nat /\ pre.domains \in Pointers
      /\ b # NULL /\ b # now.domains /\ b # pre.domains
  BY <1>3 DEF TypeOK, DomainList, Owns, Pointers, ListsAssumption
<1>5. /\ Len(Threads(now)) = now.num
      /\ \A i \in 1..now.num : Threads(now)[i] = cell[now.domains][i]
  BY <1>3, Followed
<1>6. Threads(now) \in Seq(Pointers)
  <2>1. CASE now.domains = NULL
    BY <2>1 DEF Threads
  <2>2. CASE now.domains # NULL
    <3>1. cell[now.domains] \in Seq(Pointers)
      BY <1>4, <2>2 DEF TypeOK, Pointers
    <3>2. now.num <= Len(cell[now.domains])
      BY <1>3, <2>2 DEF Sound
    <3> QED BY <1>4, <2>2, <3>1, <3>2 DEF Threads
  <2> QED BY <2>1, <2>2
<1> DEFINE a == Append(Threads(now), NULL)
<1>7. /\ a \in Seq(Pointers) /\ Len(a) = now.num + 1
      /\ a[now.num + 1] = NULL
      /\ \A i \in 1..now.num : a[i] = cell[now.domains][i]
  BY <1>4, <1>5, <1>6 DEF Pointers
<1>8. /\ heap' = (heap \ {now.domains}) \cup {b}
      /\ fault' = (fault \/ now.domains \notin heap \cup {NULL})
      /\ cell' = [c \in Blocks |-> IF c = b THEN a
                                   ELSE IF c = now.domains THEN <<>> ELSE cell[c]]
      /\ now' = [domains |-> b, num |-> now.num + 1]
  BY <1>1 DEF AddDomains
<1> HIDE DEF a
<1>9. cell'[b] = a
  BY <1>1, <1>8
<1>10. now'.domains = b /\ now'.num = now.num + 1 /\ now' \in DomainList
  BY <1>1, <1>4, <1>8 DEF DomainList, Pointers
<1>11. \A i \in 1..now.num : cell[now.domains][i] # b
  BY <1>3, <1>4 DEF Owns, Row
<1>12. Sound(cell', now')
  <2>1. \A i \in 1..(now.num + 1) : a[i] # b
    <3> TAKE i \in 1..(now.num + 1)
    <3>1. i \in 1..now.num \/ i = now.num + 1
      BY <1>4
    <3> QED BY <1>4, <1>7, <1>11, <3>1
  <2>2. \A i, j \in 1..(now.num + 1) : a[i] = a[j] => i = j \/ a[i] = NULL
    <3> SUFFICES ASSUME NEW i \in 1..(now.num + 1), NEW j \in 1..(now.num + 1),
                        a[i] = a[j], a[i] # NULL
                 PROVE  i = j
      OBVIOUS
    <3>1. i \in 1..now.num /\ j \in 1..now.num
      BY <1>4, <1>7
    <3> QED BY <1>3, <1>7, <3>1 DEF Sound
  <2> QED BY <1>4, <1>7, <1>9, <1>10, <2>1, <2>2 DEF Sound
<1>13. Owns(cell', now') = (Owns(cell, now) \ {now.domains}) \cup {b}
  <2>1. Row(cell', now') = Row(cell, now) \cup {NULL}
    <3>1. 1..(now.num + 1) = (1..now.num) \cup {now.num + 1}
      BY <1>4
    <3>2. Row(cell', now') = {a[i] : i \in 1..(now.num + 1)}
      BY <1>9, <1>10 DEF Row
    <3>3. {a[i] : i \in 1..now.num} = Row(cell, now)
      BY <1>7 DEF Row
    <3> QED BY <1>7, <3>1, <3>2, <3>3
  <2>2. now.domains \notin Row(cell, now)
    BY <1>3 DEF Sound, Row
  <2> QED BY <1>4, <1>10, <2>1, <2>2 DEF Owns
<1>14. Sound(cell', pre) /\ Owns(cell', pre) = Owns(cell, pre)
  <2>1. pre.domains # NULL => pre.domains # now.domains
    BY <1>3 DEF Owns
  <2>2. pre.domains # NULL => cell'[pre.domains] = cell[pre.domains]
    BY <1>4, <1>8, <2>1 DEF Pointers
  <2> QED BY <1>3, <2>2, OtherBlock
<1>15. now.domains # NULL => now.domains \in Owns(cell, now)
  BY DEF Owns
<1>16. /\ Owns(cell', now') \cap Owns(cell', pre) = {}
       /\ lost \cap (Owns(cell', now') \cup Owns(cell', pre)) = {}
  BY <1>1, <1>3, <1>13, <1>14
<1>17. NULL \notin Owns(cell, pre) /\ NULL \notin Blocks /\ lost \subseteq Blocks
  BY DEF Owns, ListsAssumption, TypeOK
<1>18. heap' = Owns(cell', now') \cup Owns(cell', pre) \cup lost
  BY <1>3, <1>8, <1>13, <1>14, <1>15, <1>17
<1>19. Parted(heap', cell', now', pre', lost')
  BY <1>2, <1>12, <1>14, <1>16, <1>18 DEF Parted
<1>20. TypeOK'
  <2>1. cell' \in [Blocks -> Seq(Pointers)]
    BY <1>7, <1>8 DEF TypeOK
  <2>2. files' \in 0..MaxFiles
    BY <1>2 DEF TypeOK, ListsAssumption
  <2>3. heap' \subseteq Blocks /\ fault' \in BOOLEAN
    BY <1>8 DEF TypeOK
  <2> QED BY <1>2, <1>10, <2>1, <2>2, <2>3 DEF TypeOK, dirVars
<1>21. fault' = FALSE
  BY <1>3, <1>8, <1>15
<1>22. Working'
  BY <1>2, <1>4, <1>7, <1>9, <1>10 DEF Working
<1>23. Streams'
  BY <1>2 DEF Streams, dirVars
<1> QED BY <1>19, <1>20, <1>21, <1>22, <1>23

\* What leaves the memory and the lists alone.
LEMMA FrameIInv ==
    ASSUME ListsAssumption, IInv,
           \/ NothingRead \/ OpenRunDir \/ NoMemory \/ EndTasks \/ CloseRunDir
           \/ Deltas \/ UNCHANGED vars
    PROVE  IInv'
<1> USE DEF IInv
<1>1. UNCHANGED <<heap, cell, lost, fault, now, pre>>
  BY DEF NothingRead, OpenRunDir, NoMemory, EndTasks, CloseRunDir, Deltas, vars,
         heapVars
<1>2. Parted(heap', cell', now', pre', lost')
  BY <1>1
<1>3. pc' \in {"domain", "tasks"} => UNCHANGED pc
  BY DEF NothingRead, OpenRunDir, NoMemory, EndTasks, CloseRunDir, Deltas, vars
<1>4. Working'
  BY <1>1, <1>3 DEF Working
<1>5. /\ pc' \in {"idle", "vcpus", "files", "domain", "tasks", "deltas"}
      /\ files' \in 0..MaxFiles /\ rundir' \in BOOLEAN /\ lostdirs' = lostdirs
      /\ taskdirs' \in Nat /\ Streams'
  <2> USE DEF TypeOK, Streams
  <2>1. CASE NothingRead
    BY <2>1 DEF NothingRead, dirVars
  <2>2. CASE OpenRunDir
    BY <2>2 DEF OpenRunDir
  <2>3. CASE NoMemory
    <3>1. 0 \in 0..MaxFiles
      BY DEF ListsAssumption
    <3> QED BY <2>3, <3>1 DEF NoMemory
  <2>4. CASE EndTasks
    BY <2>4 DEF EndTasks
  <2>5. CASE CloseRunDir
    BY <2>5 DEF CloseRunDir
  <2>6. CASE Deltas
    BY <2>6 DEF Deltas, dirVars
  <2>7. CASE UNCHANGED vars
    BY <2>7 DEF vars, dirVars
  <2> QED BY <2>1, <2>2, <2>3, <2>4, <2>5, <2>6, <2>7
<1>6. TypeOK'
  BY <1>1, <1>5 DEF TypeOK
<1> QED BY <1>1, <1>2, <1>4, <1>5, <1>6

\* set_domain fails: the last domain is popped, and with it the threads array
\* that it may have by then.
LEMMA PopIInv ==
    ASSUME ListsAssumption, IInv,
           SetDomainFails \/ NoThreads \/ ThreadsFail \/ NameTooLong
    PROVE  IInv'
<1> DEFINE b == cell[now.domains][now.num]
<1> USE DEF IInv
<1>1. /\ UNCHANGED <<heap, cell, fault, pre, files, rundir>>
      /\ now' = [now EXCEPT !.num = @ - 1]
      /\ pc \in {"domain", "tasks"} /\ pc' = "files"
  BY DEF SetDomainFails, NoThreads, ThreadsFail, NameTooLong, Pop, heapVars,
         dirVars
<1>2. lost' = lost \cup ({b} \ {NULL})
  <2>1. CASE NameTooLong
    BY <2>1 DEF NameTooLong, Working
  <2>2. CASE SetDomainFails \/ NoThreads \/ ThreadsFail
    BY <2>2 DEF SetDomainFails, NoThreads, ThreadsFail, Working, heapVars
  <2> QED BY <2>1, <2>2
<1>3. /\ Sound(cell, now) /\ Sound(cell, pre)
      /\ Owns(cell, now) \cap Owns(cell, pre) = {}
      /\ lost \cap (Owns(cell, now) \cup Owns(cell, pre)) = {}
      /\ heap = Owns(cell, now) \cup Owns(cell, pre) \cup lost
  BY DEF Parted
<1>4. now.num \in Nat /\ now.num > 0 /\ now.domains # NULL
  BY <1>1, <1>3 DEF Working, Sound, DomainList
<1>5. Sound(cell, now') /\ Owns(cell, now') = Owns(cell, now) \ {b}
  BY <1>1, <1>3, <1>4, Popped
<1>6. {b} \ {NULL} \subseteq Owns(cell, now) /\ NULL \notin Owns(cell, now)
  BY <1>4 DEF Owns, Row
<1> HIDE DEF b
<1>7. Parted(heap', cell', now', pre', lost')
  <2>1. lost' \cap (Owns(cell, now') \cup Owns(cell, pre)) = {}
    BY <1>2, <1>3, <1>5, <1>6
  <2>2. heap = Owns(cell, now') \cup Owns(cell, pre) \cup lost'
    BY <1>2, <1>3, <1>5, <1>6
  <2>3. Owns(cell, now') \cap Owns(cell, pre) = {}
    BY <1>3, <1>5
  <2> QED BY <1>1, <1>3, <1>5, <2>1, <2>2, <2>3 DEF Parted
<1>8. /\ taskdirs' \in Nat /\ lostdirs' \in 0..MaxLost
      /\ taskdirs' = lostdirs'
  <2> USE DEF TypeOK, Streams, ListsAssumption
  <2>1. CASE SetDomainFails
    BY <2>1 DEF SetDomainFails, dirVars
  <2>2. CASE NoThreads
    BY <2>2 DEF NoThreads
  <2>3. CASE ThreadsFail
    BY <2>3 DEF ThreadsFail, dirVars
  <2>4. CASE NameTooLong
    BY <2>4 DEF NameTooLong
  <2> QED BY <2>1, <2>2, <2>3, <2>4
<1>9. now' \in DomainList
  BY <1>5 DEF Sound
<1>10. lost' \subseteq Blocks
  BY <1>2, <1>3, <1>6 DEF TypeOK
<1>11. TypeOK'
  BY <1>1, <1>8, <1>9, <1>10 DEF TypeOK
<1>12. Streams'
  <2>1. rundir
    BY <1>1 DEF Streams
  <2> QED BY <1>1, <1>8, <2>1 DEF Streams, TypeOK
<1>13. Working'
  BY <1>1 DEF Working
<1> QED BY <1>1, <1>7, <1>11, <1>12, <1>13

\* get_child_pid puts a free block where the pointer was NULL.
LEMMA OpenTaskDirIInv ==
    ASSUME ListsAssumption, IInv, OpenTaskDir
    PROVE  IInv'
<1> USE DEF IInv
<1>1. PICK b \in Blocks \ heap :
        /\ heap' = heap \cup {b}
        /\ cell' = [cell EXCEPT ![now.domains][now.num] = b]
  BY DEF OpenTaskDir
<1>2. /\ pc = "domain" /\ pc' = "tasks"
      /\ taskdirs' = taskdirs + 1
      /\ UNCHANGED <<lost, fault, now, pre, files, rundir, lostdirs>>
  BY DEF OpenTaskDir
<1>3. /\ Sound(cell, now) /\ Sound(cell, pre)
      /\ Owns(cell, now) \cap Owns(cell, pre) = {}
      /\ lost \cap (Owns(cell, now) \cup Owns(cell, pre)) = {}
      /\ heap = Owns(cell, now) \cup Owns(cell, pre) \cup lost
  BY DEF Parted
<1> DEFINE n == now.num
           a == cell[now.domains]
           z == cell'[now.domains]
<1>4. /\ n \in Nat /\ n > 0 /\ now.domains \in Blocks /\ a[n] = NULL
      /\ a \in Seq(Pointers) /\ n <= Len(a)
  BY <1>2, <1>3 DEF Working, Sound, DomainList, Pointers, TypeOK
<1>5. b # NULL /\ b # now.domains /\ b \in Pointers
  BY <1>3, <1>4 DEF Owns, Working, Pointers, ListsAssumption
<1>6. /\ z = [a EXCEPT ![n] = b]
      /\ \A c \in Blocks \ {now.domains} : cell'[c] = cell[c]
      /\ cell' \in [Blocks -> Seq(Pointers)]
  <2>1. cell' = [cell EXCEPT ![now.domains] = [a EXCEPT ![n] = b]]
    BY <1>1
  <2>2. [a EXCEPT ![n] = b] \in Seq(Pointers)
    BY <1>4, <1>5
  <2> HIDE DEF a, n
  <2>3. cell \in [Blocks -> Seq(Pointers)]
    BY DEF TypeOK
  <2> QED BY <1>4, <2>1, <2>2, <2>3
<1>7. /\ Len(z) = Len(a) /\ z[n] = b
      /\ \A i \in 1..n : i # n => z[i] = a[i]
  BY <1>4, <1>6
<1>8. \A i \in 1..n : a[i] # b
  BY <1>1, <1>3, <1>5 DEF Owns, Row
<1>9. Row(cell', now) = {z[i] : i \in 1..n} /\ Row(cell, now) = {a[i] : i \in 1..n}
  BY DEF Row
<1>10. /\ \A i \in 1..n : a[i] # now.domains
       /\ \A i, j \in 1..n : a[i] = a[j] => i = j \/ a[i] = NULL
  BY <1>3 DEF Sound
<1>11. Sound(cell', now)
  <2>1. n <= Len(z) /\ \A i \in 1..n : z[i] # now.domains
    BY <1>4, <1>5, <1>7, <1>10
  <2>2. \A i, j \in 1..n : z[i] = z[j] => i = j \/ z[i] = NULL
    BY <1>7, <1>8, <1>10
  <2> QED BY <1>3, <1>4, <2>1, <2>2, NULL \notin Blocks
          DEF Sound, ListsAssumption
<1>12. Owns(cell', now) = Owns(cell, now) \cup {b}
  <2>1. n \in 1..n
    BY <1>4
  <2>2. {z[i] : i \in 1..n} \ {NULL} = ({a[i] : i \in 1..n} \ {NULL}) \cup {b}
    BY SMTT(30), <1>4, <1>5, <1>7, <2>1
  <2> QED BY <1>9, <2>2 DEF Owns
<1>13. Sound(cell', pre) /\ Owns(cell', pre) = Owns(cell, pre)
  <2>1. pre.domains # NULL => pre.domains \in Blocks \ {now.domains}
    BY <1>3, <1>4 DEF Owns, TypeOK, DomainList, Pointers
  <2>2. pre.domains # NULL => cell'[pre.domains] = cell[pre.domains]
    BY <1>6, <2>1
  <2>3. Sound(cell, pre)
    BY <1>3
  <2> QED BY <2>2, <2>3, OtherBlock
<1>14. Parted(heap', cell', now', pre', lost')
  BY ZenonT(40), <1>1, <1>2, <1>3, <1>11, <1>12, <1>13 DEF Parted
<1>15. TypeOK'
  BY <1>1, <1>2, <1>6 DEF TypeOK
<1>16. Working'
  BY <1>2, <1>4, <1>5, <1>7 DEF Working, ListsAssumption
<1>17. Streams'
  <2>1. taskdirs = lostdirs /\ taskdirs \in Nat /\ rundir
    BY <1>2 DEF Streams, TypeOK
  <2> QED BY <1>2, <2>1 DEF Streams
<1> QED BY <1>2, <1>14, <1>15, <1>16, <1>17

THEOREM Inductive == ListsAssumption => (Spec => []IInv)
<1> SUFFICES ASSUME ListsAssumption
             PROVE  Spec => []IInv
  OBVIOUS
<1>1. Init => IInv
  BY InitIInv
<1>2. IInv /\ [Next]_vars => IInv'
  BY RotateIInv, NextFileIInv, FrameIInv, PopIInv, OpenTaskDirIInv DEF Next
<1> QED BY <1>1, <1>2, PTL DEF Spec
-----------------------------------------------------------------------------
\* Lists are lists, in memory and counts of the right kind.
THEOREM TypeCorrect == ListsAssumption => (Spec => []TypeOK)
<1> SUFFICES ASSUME ListsAssumption
             PROVE  Spec => []TypeOK
  OBVIOUS
<1>1. IInv => TypeOK
  BY DEF IInv
<1> QED BY <1>1, Inductive, PTL

LEMMA Reached ==
    ASSUME IInv
    PROVE  Reach(now) = Owns(cell, now) /\ Reach(pre) = Owns(cell, pre)
BY Followed DEF IInv, Parted

\* Whatever fails, in however many refreshes, each pointer of both lists leads
\* to an allocated block of its own, and the lists share none (clear_domains,
\* add_domains, pop_domains).
THEOREM BlocksOwned == ListsAssumption => (Spec => []Owned)
<1> SUFFICES ASSUME ListsAssumption
             PROVE  Spec => []Owned
  OBVIOUS
<1>1. IInv => Owned
  <2> SUFFICES ASSUME IInv
               PROVE  Owned
    OBVIOUS
  <2>1. TypeOK /\ Parted(heap, cell, now, pre, lost)
    BY DEF IInv
  <2>2. Reach(now) \cap Reach(pre) = {}
    BY <2>1, Reached DEF Parted
  <2>3. ASSUME NEW list \in {now, pre}
        PROVE  /\ Reach(list) \subseteq heap
               /\ list.domains = NULL => list.num = 0
               /\ list.domains # NULL => list.num <= Len(cell[list.domains])
               /\ list.domains \notin ThreadsOf(list)
               /\ \A i, j \in 1..Len(Threads(list)) :
                   Threads(list)[i] = Threads(list)[j] =>
                       i = j \/ Threads(list)[i] = NULL
    <3>1. Sound(cell, list) /\ Owns(cell, list) \subseteq heap
      BY <2>1 DEF Parted
    <3>2. /\ Reach(list) = Owns(cell, list)
          /\ ThreadsOf(list) = Row(cell, list) \ {NULL}
          /\ Len(Threads(list)) = list.num
          /\ \A i \in 1..list.num : Threads(list)[i] = cell[list.domains][i]
      BY <2>1, <3>1, Followed
    <3> QED BY <3>1, <3>2 DEF Sound, Row
  <2> QED BY <2>2, <2>3 DEF Owned
<1> QED BY <1>1, Inductive, PTL

\* No block is freed twice, or without having been allocated.
THEOREM FreedOnce == ListsAssumption => (Spec => []FreesOnce)
<1> SUFFICES ASSUME ListsAssumption
             PROVE  Spec => []FreesOnce
  OBVIOUS
<1>1. IInv => FreesOnce
  BY DEF IInv, FreesOnce
<1> QED BY <1>1, Inductive, PTL

\* The two leaks of set_domain and get_child_pid are the only ones.
THEOREM LeaksKnown == ListsAssumption => (Spec => []Accounted)
<1> SUFFICES ASSUME ListsAssumption
             PROVE  Spec => []Accounted
  OBVIOUS
<1>1. IInv => Accounted
  BY Reached DEF IInv, Parted, Streams, Accounted
<1> QED BY <1>1, Inductive, PTL
=============================================================================
