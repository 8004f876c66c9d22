------------------------------- MODULE MCBoot -------------------------------
(* A floppy of 16 sectors of two units.  The boot sector, one FAT and a root *)
(* directory of two sectors are followed by the data from sector 4 on, that  *)
(* is, cluster 2.                                                            *)
EXTENDS PowerOn, TLC

MCFloppy == [spt |-> 4, heads |-> 2, cyls |-> 2]
\* Another drive of the machine.
MCDrives == {MCFloppy, [spt |-> 5, heads |-> 1, cyls |-> 3]}

E(name, dir, first, size) == [name |-> name, dir |-> dir, first |-> first, size |-> size]
Eoc == 4095

\* Stage 2 and the kernel in fragments; the kernel ends with a sector.
Fragments ==
  [fat |-> [c \in 0 .. 13 |-> CASE c = 2 -> 4 [] c = 4 -> Eoc
                                [] c = 3 -> 7 [] c = 7 -> 5 [] c = 5 -> Eoc [] OTHER -> 0],
   entries |-> (<<2, 0>> :> E("STAGE2", FALSE, 2, 3)) @@ (<<3, 1>> :> E("KERNEL", FALSE, 3, 6))]

\* A kernel that ends inside a sector, one that fills one read, and a file in a
\* directory of two clusters.
Directory ==
  [fat |-> [c \in 0 .. 13 |-> CASE c = 8 -> 6 [] c = 6 -> Eoc [] c = 2 -> Eoc
                                [] c = 3 -> 5 [] c = 5 -> 9 [] c = 9 -> Eoc
                                [] c = 10 -> Eoc [] OTHER -> 0],
   entries |-> (<<2, 0>> :> E("STAGE2", FALSE, 2, 2)) @@ (<<2, 1>> :> E("KERNEL", FALSE, 3, 5))
            @@ (<<3, 0>> :> E("MYDIR", TRUE, 8, 0)) @@ (<<8, 1>> :> E("TEST", FALSE, 10, 1))]

\* No kernel.
Empty == [fat |-> [c \in 0 .. 13 |-> IF c = 2 THEN Eoc ELSE 0],
          entries |-> <<3, 0>> :> E("STAGE2", FALSE, 2, 1)]

MCImages == {Fragments, Directory, Empty}
MCPaths == {<<"KERNEL">>, <<"MYDIR", "TEST">>}
Program == {<<"KERNEL">>}
MCDotted == {"KERNEL", "TEST"}

\* A text screen of two columns and two rows, and short messages: one line wraps
\* and one fills the last column.
MCText ==
  [m \in {"boot"} \cup Messages \cup ToHandlers |->
     CASE m = "bga" -> <<"c", "c", "c", Newline>>
       [] m \in {"boot", "fb"} -> <<"c", "c", Newline>>
       [] OTHER -> <<"c", Newline>>]
MCAddress == [generated |-> [low |-> 1, high |-> 16], mouse |-> [low |-> 2, high |-> 16],
              keyboard |-> [low |-> 3, high |-> 16]]
=============================================================================
