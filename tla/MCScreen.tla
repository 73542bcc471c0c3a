------------------------------ MODULE MCScreen ------------------------------
(***************************************************************************)
(* Screen for TLC, with the widths of field.c, lists of which the longest  *)
(* fills two screens, the title of version 1.1, and one or two fields      *)
(* between the name and the nodes.                                         *)
(***************************************************************************)
EXTENDS Screen

MCLists == {<<>>, <<2>>, <<1, 2>>, <<2, 1, 3>>}
ShortLists == {<<1>>}

\* WAITmax is hidden in the table.
MCHidden == {FD_NODE0 - 1}

MCAlign ==
    [i \in Fields |->
        CASE i = FD_DID -> 5
          [] i = FD_VMNAME -> 14
          [] i \in (FD_VMNAME + 1)..(FD_NODE0 - 1) -> 8
          [] OTHER -> 10]

MCTitle == 33

ScrollKeys == {"up", "down", "npage", "ppage", "H", "q"}
FieldKeys == {"f", "q", "space", "up", "down", "left", "right"}
=============================================================================
