----------------------------- MODULE BootProofs -----------------------------
(* Theorems about the loaders for every geometry, file system, path and    *)
(* number of handles, and whatever the drive does.                         *)
EXTENDS PowerOn, StartupProofs, WellFoundedInduction

-----------------------------------------------------------------------------
(* The first inductive invariant: types, places and handles.               *)

\* The statement that a read under way will lead to.
Goal == IF pc = "disk" THEN io.ok ELSE pc

Units == (Lbas \cup {Junk}) \X (0 .. SectorSize - 1)
Limited(f) == ~f.IsDirectory \/ f.Size # 0

\* A read returns to its caller, and a failed one to an error exit.
ReturnsOK ==
  /\ rd \in [h : Handles, left : Nat, out : Seq(Units), ret : {"none", "entry", "copy"}]
  /\ Goal = "read" => rd.ret \in {"entry", "copy"} /\ rd.h = current
  /\ pc = "disk" =>
       \/ io.ok \in {"search", "next", "got"} /\ io.bad = "wait"
       \/ io.ok \in {"fat", "root", "open"} /\ io.bad = "hang"
       \/ io.ok = "opened" /\ io.bad = "null"
       \/ io.ok = "read" /\ io.bad = rd.ret
  /\ Goal \in {"opened", "load", "copy"} \/ (Goal = "read" /\ rd.ret = "copy") => current >= 0

\* Where a file stands: before its end, in a cluster of its chain.
PositionsOK ==
  /\ \A h \in Handles : Limited(file[h]) => file[h].Position <= file[h].Size
  /\ \A h \in Handles : h >= 0 =>
       \/ file[h].CurrentCluster \in Clusters
       \/ Limited(file[h]) /\ file[h].Position = file[h].Size
  /\ Goal = "read" /\ Limited(file[current]) =>
       rd.left <= file[current].Size - file[current].Position

\* Where no file is open.
Closing == {"power", "search", "next", "got", "wait", "start", "fat", "root", "open",
            "opened", "jump", "null", "hang", "kernel"}
HandlesOK ==
  \A h \in Handles : h >= 0 /\ file[h].Opened => h = current /\ Goal \notin Closing

\* What stage 1 appends is a sector, and comes from a cluster.
SectorOK == /\ pc = "disk" /\ io.ok = "got" => io.buf = SectorBuffer
            /\ pc = "got" => buf[SectorBuffer] \in Lbas
            /\ Goal \in {"next", "got"} => stage2_cluster \in Clusters

BootInv == BootTypeOK /\ ReturnsOK /\ PositionsOK /\ HandlesOK /\ SectorOK

-----------------------------------------------------------------------------
(* Lemmas about addresses and the FAT.                                     *)

\* Division by a sector's size.
LEMMA Quotient ==
  ASSUME NEW a \in Nat, NEW b \in Nat \ {0}, NEW w \in 0 .. b - 1
  PROVE  (a * b + w) \div b = a /\ (a * b + w) % b = w
<1>. DEFINE x == a * b + w
            d == x \div b
            q == x % b
<1>1. a * b \in Nat /\ w \in Nat /\ w < b
  OBVIOUS
<1>2. x \in Nat
  BY <1>1
<1>3. d \in Nat /\ q \in 0 .. b - 1 /\ x = d * b + q
  <2>. HIDE DEF x
  <2>. QED BY <1>2
<1>4. a * b + w = d * b + q
  BY <1>3
<1>. HIDE DEF d, q
<1>5. ~(a < d)
  <2>. SUFFICES ASSUME a < d PROVE FALSE
    OBVIOUS
  <2>1. d - a \in Nat /\ d - a >= 1
    BY <1>3
  <2>2. (d - a) * b >= b
    BY <2>1
  <2>3. (d - a) * b = d * b - a * b /\ d * b \in Nat
    BY <1>3
  <2>. QED BY <1>1, <1>3, <1>4, <2>2, <2>3
<1>6. ~(d < a)
  <2>. SUFFICES ASSUME d < a PROVE FALSE
    OBVIOUS
  <2>1. a - d \in Nat /\ a - d >= 1
    BY <1>3
  <2>2. (a - d) * b >= b
    BY <2>1
  <2>3. (a - d) * b = a * b - d * b /\ d * b \in Nat
    BY <1>3
  <2>. QED BY <1>1, <1>3, <1>4, <2>2, <2>3
<1>7. a = d
  BY <1>3, <1>5, <1>6
<1>8. w = q
  BY <1>1, <1>3, <1>4, <1>7
<1>. QED BY <1>7, <1>8 DEF d, q

\* The areas of the floppy.
LEMMA Areas ==
  /\ SectorSize \in Nat \ {0} /\ SectorsPerCluster = 1 /\ MAX_FILE_HANDLES \in Nat
  /\ DirEntryCount \in Nat \ {0} /\ RootSectors * SectorSize = DirEntryCount
  /\ FatLba \in Nat /\ RootLba \in Nat \ {0} /\ RootSectors \in Nat \ {0}
  /\ g_DataSectionLba \in Nat /\ g_DataSectionLba = RootLba + RootSectors
  /\ DataBias \in Nat /\ DataBias = g_DataSectionLba - 2
<1>1. SectorsPerFat * FatCount \in Nat /\ SectorsPerFat * FatCount > 0
  BY DiskAssumption DEF DiskAssumption
<1>. DEFINE q == DirEntryCount \div SectorSize
<1>2. /\ SectorSize \in Nat \ {0} /\ DirEntryCount \in Nat \ {0} /\ MAX_FILE_HANDLES \in Nat
      /\ DirEntryCount % SectorSize = 0
  BY DiskAssumption DEF DiskAssumption
<1>3. q \in Nat /\ DirEntryCount = q * SectorSize
  BY <1>2
<1>. HIDE DEF q
<1>4. q \in Nat \ {0}
  BY <1>2, <1>3
<1>5. RootSectors = q
  <2>1. SectorSize - 1 \in 0 .. SectorSize - 1
    BY <1>2
  <2>2. (q * SectorSize + (SectorSize - 1)) \div SectorSize = q
    BY <1>2, <1>3, <2>1, Quotient
  <2>3. q * SectorSize \in Nat
    BY <1>2, <1>3
  <2>4. q * SectorSize + SectorSize - 1 = q * SectorSize + (SectorSize - 1)
    BY <1>2, <2>3
  <2>. QED BY <1>3, <2>2, <2>4 DEF RootSectors
<1>6. RootSectors * SectorSize = DirEntryCount /\ RootSectors \in Nat \ {0}
  BY <1>3, <1>4, <1>5
<1>7. FatLba \in Nat /\ RootLba \in Nat \ {0}
  BY <1>1, DiskAssumption DEF DiskAssumption, FatLba, RootLba
<1>. QED BY <1>2, <1>6, <1>7, Stage1Assumption DEF Stage1Assumption, g_DataSectionLba

\* Units that lie in one sector, and the first of the next.
LEMMA InSector ==
  ASSUME NEW p \in Nat, NEW t \in Nat
  PROVE  LET o == p % SectorSize
         IN /\ p \div SectorSize \in Nat /\ o \in 0 .. SectorSize - 1
            /\ o + t < SectorSize => /\ (p + t) \div SectorSize = p \div SectorSize
                                     /\ (p + t) % SectorSize = o + t
            /\ o + t = SectorSize => /\ (p + t) \div SectorSize = (p \div SectorSize) + 1
                                     /\ (p + t) % SectorSize = 0
                                     /\ p + t = ((p \div SectorSize) + 1) * SectorSize
<1>. DEFINE s == SectorSize
            a == p \div s
            o == p % s
<1>1. s \in Nat \ {0}
  BY Areas
<1>. HIDE DEF s
<1>2. a \in Nat /\ o \in 0 .. s - 1 /\ p = a * s + o
  BY <1>1
<1>. HIDE DEF a, o
<1>3. ASSUME o + t < s
      PROVE  (p + t) \div s = a /\ (p + t) % s = o + t
  <2>1. o + t \in 0 .. s - 1 /\ p + t = a * s + (o + t)
    BY <1>1, <1>2, <1>3
  <2>. QED BY <1>1, <1>2, <2>1, Quotient
<1>4. ASSUME o + t = s
      PROVE  (p + t) \div s = a + 1 /\ (p + t) % s = 0 /\ p + t = (a + 1) * s
  <2>1. p + t = (a + 1) * s + 0 /\ 0 \in 0 .. s - 1 /\ a + 1 \in Nat /\ p + t = (a + 1) * s
    BY <1>1, <1>2, <1>4
  <2>2. ((a + 1) * s + 0) \div s = a + 1 /\ ((a + 1) * s + 0) % s = 0
    BY <1>1, <2>1, Quotient
  <2>. QED BY <2>1, <2>2
<1>. QED BY <1>2, <1>3, <1>4 DEF a, o, s

\* A set of natural numbers has a least member.
LEMMA LeastMember ==
  ASSUME NEW S, S \subseteq Nat, S # {}
  PROVE  \E a \in S : \A b \in S : a <= b
<1>1. \E a \in S : \A b \in S : ~(<<b, a>> \in OpToRel(<, Nat))
  BY WFMin, NatLessThanWellFounded, Zenon
<1>2. \A a, b \in S : ~(<<b, a>> \in OpToRel(<, Nat)) => ~(b < a)
  BY DEF OpToRel
<1>3. \A a, b \in S : ~(b < a) => a <= b
  OBVIOUS
<1>. QED BY <1>1, <1>2, <1>3

\* What comes after a cluster of a chain.
Follower(m, c) == IF c >= EndOfChain THEN c ELSE m.fat[c]
IsChain(m, first, n, f) == f = [j \in 0 .. n |-> IF j = 0 THEN first ELSE Follower(m, f[j - 1])]

\* The chain can be followed for any number of clusters.
LEMMA ChainExists == \A m, first : \A n \in Nat : \E f : IsChain(m, first, n, f)
<1>. SUFFICES ASSUME NEW m, NEW first PROVE \A n \in Nat : \E f : IsChain(m, first, n, f)
  OBVIOUS
<1>. DEFINE Bad == {n \in Nat : ~\E f : IsChain(m, first, n, f)}
<1>1. SUFFICES ASSUME Bad # {} PROVE FALSE
  OBVIOUS
<1>2. PICK a \in Bad : \A b \in Bad : a <= b
  BY <1>1, LeastMember
<1>3. a # 0
  <2>1. IsChain(m, first, 0, [j \in 0 .. 0 |-> first])
    BY DEF IsChain
  <2>. QED BY <2>1
<1>4. PICK f : IsChain(m, first, a - 1, f)
  <2>1. a - 1 \in Nat /\ ~(a <= a - 1)
    BY <1>3
  <2>. QED BY <1>2, <2>1
<1>. DEFINE g == [j \in 0 .. a |-> IF j < a THEN f[j] ELSE Follower(m, f[a - 1])]
<1>5. IsChain(m, first, a, g)
  <2>1. \A j \in 0 .. a - 1 : f[j] = IF j = 0 THEN first ELSE Follower(m, f[j - 1])
    BY <1>4 DEF IsChain
  <2>2. \A j \in 0 .. a : g[j] = IF j = 0 THEN first ELSE Follower(m, g[j - 1])
    BY <1>3, <2>1
  <2>. QED BY <2>2 DEF IsChain
<1>. QED BY <1>5

\* Two tables of a chain agree.
LEMMA ChainUnique ==
  ASSUME NEW m, NEW first, NEW n \in Nat, NEW i \in Nat, NEW f, NEW g,
         IsChain(m, first, n, f), IsChain(m, first, i, g)
  PROVE  \A j \in 0 .. n : j <= i => f[j] = g[j]
<1>. DEFINE Bad == {j \in 0 .. n : j <= i /\ f[j] # g[j]}
<1>1. SUFFICES ASSUME Bad # {} PROVE FALSE
  OBVIOUS
<1>2. PICK a \in Bad : \A b \in Bad : a <= b
  <2>1. Bad \subseteq Nat
    OBVIOUS
  <2>. QED BY <1>1, <2>1, LeastMember
<1>3. /\ f[a] = IF a = 0 THEN first ELSE Follower(m, f[a - 1])
      /\ g[a] = IF a = 0 THEN first ELSE Follower(m, g[a - 1])
  BY DEF IsChain
<1>4. a # 0
  BY <1>3
<1>5. a - 1 \in 0 .. n /\ a - 1 <= i /\ ~(a <= a - 1)
  BY <1>4
<1>6. f[a - 1] = g[a - 1]
  BY <1>2, <1>5
<1>. QED BY <1>3, <1>4, <1>6

\* A cluster of a file is the one after its predecessor.
LEMMA ClusterSteps ==
  ASSUME NEW m, NEW first, NEW n \in Nat
  PROVE  /\ ClusterOf(m, first, 0) = first
         /\ ClusterOf(m, first, n + 1) = Follower(m, ClusterOf(m, first, n))
<1>1. \A i \in Nat : \E f : IsChain(m, first, i, f) /\ ClusterOf(m, first, i) = f[i]
  <2>. SUFFICES ASSUME NEW i \in Nat PROVE \E f : IsChain(m, first, i, f) /\ ClusterOf(m, first, i) = f[i]
    OBVIOUS
  <2>. DEFINE f == CHOOSE g : IsChain(m, first, i, g)
  <2>1. IsChain(m, first, i, f)
    BY ChainExists
  <2>2. ClusterOf(m, first, i) = f[i]
    BY DEF ClusterOf, IsChain, Follower
  <2>. QED BY <2>1, <2>2
<1>2. ClusterOf(m, first, 0) = first
  <2>1. PICK f : IsChain(m, first, 0, f) /\ ClusterOf(m, first, 0) = f[0]
    BY <1>1
  <2>. QED BY <2>1 DEF IsChain
<1>3. PICK f : IsChain(m, first, n, f) /\ ClusterOf(m, first, n) = f[n]
  BY <1>1
<1>4. PICK g : IsChain(m, first, n + 1, g) /\ ClusterOf(m, first, n + 1) = g[n + 1]
  BY <1>1
<1>5. f[n] = g[n]
  BY <1>3, <1>4, ChainUnique
<1>6. g[n + 1] = Follower(m, g[n])
  BY <1>4 DEF IsChain
<1>. QED BY <1>2, <1>3, <1>4, <1>5, <1>6
\* The drive finds a sector of the floppy or none.
LEMMA FoundOnFloppy ==
  ASSUME NEW g \in Drives, NEW lba \in Nat, OnFloppy(LBA2CHS(g, lba))
  PROVE  SectorAt(LBA2CHS(g, lba)) \in Lbas
<1>. DEFINE s == Floppy.spt
            h == Floppy.heads
            y == Floppy.cyls
            a == (lba % g.spt) + 1
            b == (lba \div g.spt) \div g.heads
            c == (lba \div g.spt) % g.heads
<1>1. s \in Nat \ {0} /\ h \in Nat \ {0} /\ y \in Nat \ {0} /\ g.spt \in Nat \ {0} /\ g.heads \in Nat \ {0}
  BY DiskAssumption DEF DiskAssumption
<1>2. lba \div g.spt \in Nat
  BY <1>1
<1>3. a \in Nat /\ b \in Nat /\ c \in Nat
  BY <1>1, <1>2
<1>4. a \in 1 .. s /\ c < h /\ b < y
  BY DEF OnFloppy, LBA2CHS
<1>5. SectorAt(LBA2CHS(g, lba)) = (b * h + c) * s + a - 1
  BY DEF SectorAt, LBA2CHS
<1>6. Lbas = 0 .. s * h * y - 1
  BY DEF Lbas
<1>. HIDE DEF s, h, y, a, b, c
<1>7. b * h + c \in Nat /\ b * h + c <= y * h - 1
  <2>1. b * h <= (y - 1) * h /\ b * h \in Nat
    BY <1>1, <1>3, <1>4
  <2>2. (y - 1) * h = y * h - h /\ y * h \in Nat
    BY <1>1
  <2>. QED BY <1>1, <1>3, <1>4, <2>1, <2>2
<1>8. (b * h + c) * s \in Nat /\ (b * h + c) * s <= (y * h - 1) * s
  <2>. DEFINE m == b * h + c
              n == y * h - 1
  <2>1. m \in Nat /\ n \in Int /\ m <= n
    BY <1>1, <1>7
  <2>. HIDE DEF m, n
  <2>2. m * s \in Nat /\ m * s <= n * s
    BY <1>1, <2>1
  <2>. QED BY <2>2 DEF m, n
<1>9. (y * h - 1) * s = s * h * y - s
  BY <1>1
<1>. QED BY <1>1, <1>4, <1>5, <1>6, <1>8, <1>9

\* Where the geometry is the floppy's own, it is the sector asked for.
LEMMA FoundThere ==
  ASSUME NEW lba \in Nat, OnFloppy(LBA2CHS(Floppy, lba))
  PROVE  SectorAt(LBA2CHS(Floppy, lba)) = lba
<1>. DEFINE s == Floppy.spt
            h == Floppy.heads
            q == lba \div s
<1>1. s \in Nat \ {0} /\ h \in Nat \ {0}
  BY DiskAssumption DEF DiskAssumption
<1>2. q \in Nat /\ lba = q * s + (lba % s)
  BY <1>1
<1>3. SectorAt(LBA2CHS(Floppy, lba)) = ((q \div h) * h + (q % h)) * s + ((lba % s) + 1) - 1
  BY DEF SectorAt, LBA2CHS
<1>. HIDE DEF q, s, h
<1>4. (q \div h) * h + (q % h) = q
  BY <1>1, <1>2
<1>5. lba % s \in Nat
  BY <1>1
<1>. QED BY <1>1, <1>2, <1>3, <1>4, <1>5

\* A number is even or odd.
LEMMA Pairs ==
  ASSUME NEW c \in Nat
  PROVE  \E m \in Nat :
           \/ c % 2 = 0 /\ c = 2 * m /\ c + 1 - 2 * (c % 2) = 2 * m + 1
           \/ c % 2 = 1 /\ c = 2 * m + 1 /\ c + 1 - 2 * (c % 2) = 2 * m
<1>1. c \div 2 \in Nat
  OBVIOUS
<1>2. \/ c % 2 = 0 /\ c = 2 * (c \div 2) /\ c + 1 - 2 * (c % 2) = 2 * (c \div 2) + 1
      \/ c % 2 = 1 /\ c = 2 * (c \div 2) + 1 /\ c + 1 - 2 * (c % 2) = 2 * (c \div 2)
  OBVIOUS
<1>. QED BY <1>1, <1>2

\* Chains do not leave the FAT.
Link(c) == image.fat[c]
LEMMA Chains ==
  ASSUME image \in Images
  PROVE  /\ Clusters \subseteq 0 .. 4087
         /\ \A c \in Clusters : /\ Link(c) \in Clusters \cup 4088 .. 4095
                               /\ c + 1 - 2 * (c % 2) \in Clusters
BY ImageAssumption DEF ImageAssumption, EndOfChain, Clusters, Link

\* The next cluster is the FAT's entry.
LEMMA NextCluster ==
  ASSUME image \in Images, NEW c \in Clusters
  PROVE  FAT_NextCluster(c) = Link(c)
<1>0. Clusters \subseteq 0 .. 4087
  BY Chains
<1>1. c \in Nat
  BY <1>0
<1>2. PICK m \in Nat : \/ c % 2 = 0 /\ c = 2 * m /\ c + 1 - 2 * (c % 2) = 2 * m + 1
                       \/ c % 2 = 1 /\ c = 2 * m + 1 /\ c + 1 - 2 * (c % 2) = 2 * m
  BY <1>1, Pairs
<1>3. c \in Clusters /\ c + 1 - 2 * (c % 2) \in Clusters
  BY Chains
<1>4. 2 * m \in Clusters /\ 2 * m + 1 \in Clusters
  BY <1>2, <1>3
<1>. DEFINE e == Link(2 * m)
            o == Link(2 * m + 1)
<1>5. /\ e \in Clusters \/ e \in 4088 .. 4095
      /\ o \in Clusters \/ o \in 4088 .. 4095
  BY <1>4, Chains
<1>. HIDE DEF e, o
<1>6. \A d \in Clusters : d \in 0 .. 4095
  BY <1>0
<1>7. e \in 0 .. 4095 /\ o \in 0 .. 4095
  <2>1. e \in Clusters => e \in 0 .. 4095
    BY <1>6
  <2>2. o \in Clusters => o \in 0 .. 4095
    BY <1>6
  <2>3. e \in 4088 .. 4095 => e \in 0 .. 4095
    OBVIOUS
  <2>4. o \in 4088 .. 4095 => o \in 0 .. 4095
    OBVIOUS
  <2>. QED BY <1>5, <2>1, <2>2, <2>3, <2>4
<1>8. ((e % 256) + 256 * ((e \div 256) + 16 * (o % 16))) % 4096 = e
  BY <1>7
<1>9. ((e \div 256) + 16 * (o % 16) + 256 * (o \div 16)) \div 16 = o
  BY <1>7
<1>10. /\ (3 * m) % 3 = 0 /\ (3 * m) \div 3 = m
      /\ (3 * m + 1) % 3 = 1 /\ (3 * m + 1) \div 3 = m
      /\ (3 * m + 2) % 3 = 2 /\ (3 * m + 2) \div 3 = m
  OBVIOUS
<1>11. /\ FatByte(3 * m) = e % 256
      /\ FatByte(3 * m + 1) = (e \div 256) + 16 * (o % 16)
      /\ FatByte(3 * m + 2) = o \div 16
  BY <1>10 DEF FatByte, Link, e, o
<1>12. CASE c % 2 = 0
  <2>1. c = 2 * m /\ e = Link(c)
    BY <1>2, <1>12 DEF e
  <2>2. (c * 3) \div 2 = 3 * m
    BY <2>1
  <2>3. FAT_NextCluster(c) = (FatByte(3 * m) + 256 * FatByte(3 * m + 1)) % 4096
    BY <1>12, <2>2 DEF FAT_NextCluster
  <2>. QED BY <1>11, <1>8, <1>9, <2>1, <2>3
<1>13. CASE c % 2 = 1
  <2>1. c = 2 * m + 1 /\ o = Link(c)
    BY <1>2, <1>13 DEF o
  <2>2. (c * 3) \div 2 = 3 * m + 1 /\ 3 * m + 1 + 1 = 3 * m + 2
    BY <2>1
  <2>3. FAT_NextCluster(c) = (FatByte(3 * m + 1) + 256 * FatByte(3 * m + 2)) \div 16
    BY <1>13, <2>2 DEF FAT_NextCluster
  <2>. QED BY <1>11, <1>8, <1>9, <2>1, <2>3
<1>. QED BY <1>2, <1>12, <1>13

\* What a unit holds as a directory entry begins in the FAT or is empty.
LEMMA EntryOK ==
  ASSUME image \in Images, NEW u
  PROVE  /\ EntryAt(u).dir \in BOOLEAN /\ EntryAt(u).size \in Nat /\ EntryAt(u).first \in Nat
         /\ \/ EntryAt(u).first \in Clusters
            \/ ~EntryAt(u).dir /\ EntryAt(u).size = 0
<1>1. Clusters \subseteq 0 .. 4087
  BY Chains
<1>2. \A c \in Clusters : c \in Nat
  BY <1>1
<1>3. CASE u \in DOMAIN image.entries
  <2>1. /\ EntryAt(u).dir \in BOOLEAN /\ EntryAt(u).size \in Nat
        /\ EntryAt(u).first \in Clusters
    BY <1>3, ImageAssumption DEF ImageAssumption, EntryAt, Clusters
  <2>. QED BY <1>2, <2>1
<1>4. CASE u \notin DOMAIN image.entries
  BY <1>4 DEF EntryAt, NoEntry
<1>. QED BY <1>3, <1>4

\* What follows a cluster is a cluster or the end.
LEMMA Onward ==
  ASSUME image \in Images, NEW c \in Clusters
  PROVE  /\ c \in Nat /\ c < EndOfChain
         /\ FAT_NextCluster(c) \in 0 .. 4095 /\ FAT_NextCluster(c) \in Nat
         /\ FAT_NextCluster(c) < EndOfChain => FAT_NextCluster(c) \in Clusters
<1>. DEFINE n == FAT_NextCluster(c)
<1>1. Clusters \subseteq 0 .. 4087 /\ (n \in Clusters \/ n \in 4088 .. 4095)
  BY Chains, NextCluster
<1>. HIDE DEF n
<1>2. n \in Clusters => n \in 0 .. 4095 /\ n \in Nat
  BY <1>1
<1>3. n \in 4088 .. 4095 => n \in 0 .. 4095 /\ n \in Nat /\ ~(n < EndOfChain)
  BY DEF EndOfChain
<1>4. c \in Nat /\ c < EndOfChain
  BY <1>1 DEF EndOfChain
<1>5. n \in 0 .. 4095 /\ n \in Nat /\ (n < EndOfChain => n \in Clusters)
  BY <1>1, <1>2, <1>3
<1>. QED BY <1>4, <1>5 DEF n

\* The sector of a cluster.
LEMMA ClusterLba ==
  ASSUME NEW c \in Nat
  PROVE  FAT_ClusterToLba(c) \in Nat /\ FAT_ClusterToLba(c) = c + DataBias
BY Areas DEF FAT_ClusterToLba

-----------------------------------------------------------------------------
(* Every step keeps the invariant.                                         *)

\* The constants of the state.
LEMMA Constants ==
  /\ ROOT_DIRECTORY_HANDLE \in Handles /\ ROOT_DIRECTORY_HANDLE = -1
  /\ FatBuffer \in Buffers /\ SectorBuffer \in Buffers /\ Handles \subseteq Buffers
  /\ Closed \in FileType /\ Handles \subseteq Int
  /\ NoRead \in [h : Handles, left : Nat, out : Seq(Units), ret : {"none", "entry", "copy"}]
  /\ NoIO \in [lba : Nat, buf : Buffers, tries : 0 .. 2,
               ok : Statements \cup {"none"}, bad : Statements \cup {"none"}]
<1>1. /\ ROOT_DIRECTORY_HANDLE \in Handles /\ ROOT_DIRECTORY_HANDLE = -1
      /\ FatBuffer \in Buffers /\ SectorBuffer \in Buffers /\ Handles \subseteq Buffers
      /\ Handles \subseteq Int
  BY Areas DEF Handles, ROOT_DIRECTORY_HANDLE, Buffers, SectorBuffer, FatBuffer
<1>2. Closed \in FileType
  BY Areas DEF Closed, FileType
<1>3. <<>> \in Seq(Units)
  OBVIOUS
<1>. QED BY <1>1, <1>2, <1>3 DEF NoRead, NoIO

LEMMA BootInvInit == Init => BootInv
<1>. SUFFICES ASSUME Init PROVE BootInv
  OBVIOUS
<1>1. BootTypeOK
  <2>1. DiskTypeOK
    <3>1. Floppy \in Drives /\ MaxFaults \in Nat
      BY DiskAssumption DEF DiskAssumption
    <3>2. buf \in [Buffers -> Lbas \cup {Junk}]
      BY DEF Init
    <3>3. faults \in 0 .. MaxFaults
      BY <3>1 DEF Init
    <3>4. image \in Images /\ geom \in Drives /\ failed \in BOOLEAN
      BY <3>1 DEF Init
    <3>. QED BY <3>2, <3>3, <3>4 DEF DiskTypeOK
  <2>2. IoTypeOK
    BY Constants DEF Init, IoTypeOK
  <2>3. Stage1TypeOK
    BY DEF Init, Stage1TypeOK
  <2>4. FatTypeOK
    BY Constants DEF Init, FatTypeOK, NoRead
  <2>. QED BY <2>1, <2>2, <2>3, <2>4 DEF Init, BootTypeOK, Statements
<1>2. ReturnsOK
  BY Constants DEF Init, ReturnsOK, Goal
<1>3. PositionsOK
  BY DEF Init, PositionsOK, Goal, Closed, Limited
<1>. QED BY <1>1, <1>2, <1>3 DEF Init, BootInv, HandlesOK, SectorOK, Closed, Goal

\* A read that succeeds.
LEMMA ArriveKeeps == BootInv /\ Arrive /\ UNCHANGED <<stage1Vars, fatVars>> => BootInv'
<1>. SUFFICES ASSUME BootInv, Arrive, UNCHANGED <<stage1Vars, fatVars>> PROVE BootInv'
  OBVIOUS
<1>. USE DEF stage1Vars, fatVars
<1>0. BootTypeOK /\ ReturnsOK /\ PositionsOK /\ HandlesOK /\ SectorOK
  BY DEF BootInv
<1>. DEFINE s == SectorAt(LBA2CHS(geom, io.lba))
<1>1. s \in Lbas /\ io.buf \in Buffers
  BY <1>0, FoundOnFloppy DEF Arrive, BootTypeOK, DiskTypeOK, IoTypeOK
<1>. HIDE DEF s
<1>2. pc = "disk" /\ pc' = io.ok /\ io' = NoIO /\ buf' = [buf EXCEPT ![io.buf] = s]
      /\ UNCHANGED <<image, geom, faults, failed>>
  BY DEF Arrive, s
<1>3. io.ok \in Statements \ {"disk"} /\ Goal' = Goal
  BY <1>0, <1>2 DEF ReturnsOK, Goal, Statements
<1>4. BootTypeOK'
  <2>1. DiskTypeOK'
    BY <1>0, <1>1, <1>2 DEF BootTypeOK, DiskTypeOK
  <2>2. IoTypeOK'
    BY <1>2, Constants DEF IoTypeOK
  <2>3. Stage1TypeOK' /\ FatTypeOK'
    BY <1>0 DEF BootTypeOK, Stage1TypeOK, FatTypeOK
  <2>. QED BY <1>2, <1>3, <2>1, <2>2, <2>3 DEF BootTypeOK
<1>5. ReturnsOK'
  BY <1>0, <1>2, <1>3 DEF ReturnsOK
<1>6. PositionsOK'
  BY <1>0, <1>2, <1>3 DEF PositionsOK, Clusters
<1>7. HandlesOK'
  BY <1>0, <1>2, <1>3 DEF HandlesOK
<1>8. SectorOK'
  BY <1>0, <1>1, <1>2, <1>3 DEF SectorOK, BootTypeOK, DiskTypeOK, Clusters
<1>. QED BY <1>4, <1>5, <1>6, <1>7, <1>8 DEF BootInv

\* A try that fails, and the third.
LEMMA RetryKeeps == BootInv /\ Retry /\ UNCHANGED <<stage1Vars, fatVars>> => BootInv'
<1>. SUFFICES ASSUME BootInv, Retry, UNCHANGED <<stage1Vars, fatVars>> PROVE BootInv'
  OBVIOUS
<1>. USE DEF stage1Vars, fatVars
<1>0. BootTypeOK /\ ReturnsOK /\ PositionsOK /\ HandlesOK /\ SectorOK
  BY DEF BootInv
<1>1. pc = "disk" /\ UNCHANGED <<image, geom>> /\ buf' \in {buf, [buf EXCEPT ![io.buf] = Junk]}
  BY DEF Retry, Fault
<1>2. DiskTypeOK' /\ Stage1TypeOK' /\ FatTypeOK'
  <2>1. faults' \in 0 .. MaxFaults
    <3>1. MaxFaults \in Nat /\ faults \in 0 .. MaxFaults
      BY <1>0, DiskAssumption DEF DiskAssumption, BootTypeOK, DiskTypeOK
    <3>2. faults' = faults \/ (faults < MaxFaults /\ faults' = faults + 1)
      BY DEF Retry, Fault
    <3>. QED BY <3>1, <3>2
  <2>2. failed' \in BOOLEAN
    BY <1>0 DEF Retry, BootTypeOK, DiskTypeOK
  <2>3. buf' \in [Buffers -> Lbas \cup {Junk}]
    BY <1>0, <1>1 DEF BootTypeOK, DiskTypeOK
  <2>4. DiskTypeOK'
    BY <1>0, <1>1, <2>1, <2>2, <2>3 DEF BootTypeOK, DiskTypeOK
  <2>. QED BY <1>0, <2>4 DEF BootTypeOK, Stage1TypeOK, FatTypeOK
<1>3. CASE io.tries < 2
  <2>1. pc' = pc /\ io' = [io EXCEPT !.tries = @ + 1]
    BY <1>3 DEF Retry
  <2>2. IoTypeOK' /\ io'.ok = io.ok /\ io'.bad = io.bad /\ io'.buf = io.buf
    BY <1>0, <1>3, <2>1 DEF BootTypeOK, IoTypeOK
  <2>3. Goal' = Goal
    BY <2>1, <2>2 DEF Goal
  <2>4. BootTypeOK'
    BY <1>0, <1>2, <2>1, <2>2 DEF BootTypeOK
  <2>5. ReturnsOK'
    BY <1>0, <1>1, <2>1, <2>2, <2>3 DEF ReturnsOK
  <2>6. PositionsOK' /\ HandlesOK'
    BY <1>0, <1>1, <2>3 DEF PositionsOK, HandlesOK, Clusters
  <2>7. SectorOK'
    BY <1>0, <1>1, <2>1, <2>2, <2>3 DEF SectorOK, Clusters
  <2>. QED BY <2>4, <2>5, <2>6, <2>7 DEF BootInv
<1>4. CASE ~(io.tries < 2)
  <2>1. pc' = io.bad /\ io' = NoIO
    BY <1>4 DEF Retry
  <2>2. /\ pc' \in {"wait", "hang", "null", "entry", "copy"} /\ Goal' = pc'
        /\ pc' \in {"entry", "copy"} => Goal = "read" /\ rd.ret = pc'
        /\ pc' \in {"wait", "hang", "null"} => Goal \in Closing
    BY <1>0, <1>1, <2>1 DEF ReturnsOK, Goal, Closing
  <2>3. BootTypeOK'
    <3>1. IoTypeOK'
      BY <2>1, Constants DEF IoTypeOK
    <3>. QED BY <1>2, <2>2, <3>1 DEF BootTypeOK, Statements
  <2>4. ReturnsOK'
    BY <1>0, <2>2 DEF ReturnsOK
  <2>5. PositionsOK'
    BY <1>0, <1>1, <2>2 DEF PositionsOK, Clusters
  <2>6. HandlesOK'
    BY <1>0, <2>2 DEF HandlesOK, Closing
  <2>7. SectorOK'
    BY <2>2 DEF SectorOK
  <2>. QED BY <2>3, <2>4, <2>5, <2>6, <2>7 DEF BootInv
<1>. QED BY <1>3, <1>4

\* What a read leaves alone, and where it leads.
LEMMA ReadBegins ==
  ASSUME BootTypeOK, geom' \in Drives, NEW lba \in Nat, NEW b \in Buffers,
         NEW ok \in Statements, NEW bad \in Statements, Read(lba, b, ok, bad)
  PROVE  /\ DiskTypeOK' /\ IoTypeOK' /\ pc' \in Statements /\ pc' = "disk"
         /\ io'.ok = ok /\ io'.bad = bad /\ io'.buf = b /\ io'.lba = lba /\ Goal' = ok
         /\ image' = image /\ buf' = buf
<1>1. /\ pc' = "disk" /\ UNCHANGED <<image, buf, faults, failed>>
      /\ io' = [lba |-> lba, buf |-> b, tries |-> 0, ok |-> ok, bad |-> bad]
  BY DEF Read
<1>2. DiskTypeOK'
  BY <1>1 DEF BootTypeOK, DiskTypeOK
<1>3. IoTypeOK'
  BY <1>1 DEF IoTypeOK
<1>. QED BY <1>1, <1>2, <1>3 DEF Goal, Statements

\* Stage 1, and stage 2 before it opens a file, touch no file.
LEMMA NoFileTouched ==
  ASSUME BootInv, UNCHANGED fatVars, image' = image,
         Goal \in Closing \ {"opened"}, Goal' \in Closing \ {"opened"}
  PROVE  PositionsOK' /\ HandlesOK' /\ FatTypeOK'
<1>. USE DEF fatVars
<1>1. PositionsOK'
  BY DEF BootInv, PositionsOK, Clusters, Closing
<1>2. HandlesOK'
  BY DEF BootInv, HandlesOK
<1>3. FatTypeOK'
  BY DEF BootInv, BootTypeOK, FatTypeOK
<1>. QED BY <1>1, <1>2, <1>3

\* A read of stage 1 or of the beginning of stage 2.
LEMMA EarlyRead ==
  ASSUME BootInv, UNCHANGED fatVars, geom' \in Drives, Stage1TypeOK', Goal \in Closing \ {"opened"},
         NEW lba \in Nat, NEW b \in Buffers, NEW ok, NEW bad, Read(lba, b, ok, bad),
         \/ ok \in {"search", "next", "got"} /\ bad = "wait"
         \/ ok \in {"fat", "root", "open"} /\ bad = "hang",
         ok = "got" => b = SectorBuffer,
         ok \in {"next", "got"} => stage2_cluster' \in Clusters
  PROVE  BootInv'
<1>0. BootTypeOK /\ ReturnsOK
  BY DEF BootInv
<1>1. ok \in Statements /\ bad \in Statements /\ ok \in Closing \ {"opened"}
  BY DEF Statements, Closing
<1>2. /\ DiskTypeOK' /\ IoTypeOK' /\ pc' \in Statements /\ pc' = "disk"
      /\ io'.ok = ok /\ io'.bad = bad /\ io'.buf = b /\ Goal' = ok
      /\ image' = image /\ buf' = buf
  BY <1>0, <1>1, ReadBegins
<1>3. PositionsOK' /\ HandlesOK' /\ FatTypeOK'
  BY <1>1, <1>2, NoFileTouched
<1>4. BootTypeOK'
  BY <1>2, <1>3 DEF BootTypeOK
<1>5. ReturnsOK'
  BY <1>0, <1>2 DEF ReturnsOK, fatVars
<1>6. SectorOK'
  BY <1>2 DEF SectorOK, Clusters
<1>. QED BY <1>3, <1>4, <1>5, <1>6 DEF BootInv

\* A step of stage 1 or of the beginning of stage 2 that reads nothing.
LEMMA EarlyStep ==
  ASSUME BootInv, UNCHANGED fatVars, image' = image,
         pc \in Closing \ {"opened"} \/ (pc = "disk" /\ io.bad = "wait"),
         pc' \in Closing \ {"opened", "got"}, DiskTypeOK', IoTypeOK', Stage1TypeOK',
         pc' = "next" => stage2_cluster' \in Clusters
  PROVE  BootInv'
<1>1. ReturnsOK /\ BootTypeOK
  BY DEF BootInv
<1>2. Goal \in Closing \ {"opened"}
  BY <1>1 DEF Goal, Closing, ReturnsOK
<1>3. Goal' = pc' /\ pc' \in Statements /\ pc' # "disk" /\ pc' # "got"
  BY DEF Goal, Closing, Statements
<1>4. PositionsOK' /\ HandlesOK' /\ FatTypeOK'
  BY <1>2, <1>3, NoFileTouched
<1>5. BootTypeOK'
  BY <1>3, <1>4 DEF BootTypeOK
<1>6. ReturnsOK'
  BY <1>1, <1>3 DEF ReturnsOK, fatVars, Closing
<1>7. SectorOK'
  BY <1>3 DEF SectorOK, Clusters
<1>. QED BY <1>4, <1>5, <1>6, <1>7 DEF BootInv

LEMMA Stage1Keeps == BootInv /\ Stage1 /\ UNCHANGED fatVars => BootInv'
<1>. SUFFICES ASSUME BootInv, Stage1, UNCHANGED fatVars PROVE BootInv'
  OBVIOUS
<1>0. BootTypeOK /\ ReturnsOK /\ SectorOK
  BY DEF BootInv
<1>1. /\ image \in Images /\ stage2_cluster \in 0 .. 4095 /\ stage2 \in Seq(Lbas)
      /\ DiskTypeOK /\ IoTypeOK /\ Stage1TypeOK
  BY <1>0 DEF BootTypeOK, Stage1TypeOK, DiskTypeOK
<1>2. MaxFaults \in Nat /\ Floppy \in Drives
  BY DiskAssumption DEF DiskAssumption
<1>3. CASE GetDriveParams
  <2>1. Stage1TypeOK' /\ pc \in Closing \ {"opened"} /\ Goal \in Closing \ {"opened"}
    BY <1>1, <1>3 DEF GetDriveParams, stage1Vars, Stage1TypeOK, Closing, Goal
  <2>2. CASE geom' = Floppy /\ Read(RootLba, FatBuffer, "search", "wait")
    BY <1>2, <2>1, <2>2, EarlyRead, Areas, Constants
  <2>3. CASE /\ faults < MaxFaults /\ faults' = faults + 1 /\ pc' = "wait"
             /\ UNCHANGED <<image, geom, buf, io, failed>>
    <3>1. DiskTypeOK' /\ IoTypeOK'
      BY <1>1, <1>2, <2>3 DEF DiskTypeOK, IoTypeOK
    <3>2. pc' \in Closing \ {"opened", "got"} /\ pc' # "next" /\ image' = image
      BY <2>3 DEF Closing
    <3>. QED BY <2>1, <3>1, <3>2, EarlyStep
  <2>. QED BY <1>3, <2>2, <2>3 DEF GetDriveParams
<1>4. CASE search_kernel
  <2>1. pc \in Closing \ {"opened"} /\ Goal \in Closing \ {"opened"} /\ geom' = geom /\ stage2' = stage2
    BY <1>4 DEF search_kernel, Closing, Goal
  <2>. DEFINE found == Named("STAGE2", {u \in RootUnits : buf[FatBuffer] = RootLba})
  <2>2. CASE pc' = "wait" /\ UNCHANGED <<image, buf, io, faults, failed, stage2_cluster>>
    <3>1. DiskTypeOK' /\ IoTypeOK' /\ Stage1TypeOK'
      BY <1>1, <2>1, <2>2 DEF DiskTypeOK, IoTypeOK, Stage1TypeOK
    <3>2. pc' \in Closing \ {"opened", "got"} /\ pc' # "next" /\ image' = image
      BY <2>2 DEF Closing
    <3>. QED BY <2>1, <3>1, <3>2, EarlyStep
  <2>3. CASE /\ \E e \in found : stage2_cluster' = e.first
             /\ Read(FatLba, FatBuffer, "next", "wait")
    <3>1. PICK u : stage2_cluster' = EntryAt(u).first /\ EntryAt(u).name = "STAGE2"
      BY <2>3 DEF Named
    <3>3. stage2_cluster' \in Clusters
      <4>1. u \in DOMAIN image.entries
        BY <3>1 DEF EntryAt, NoEntry
      <4>. QED BY <1>1, <3>1, <4>1, ImageAssumption DEF ImageAssumption, EntryAt, Clusters
    <3>2. stage2_cluster' \in 0 .. 4095
      <4>1. Clusters \subseteq 0 .. 4087
        <5>1. image \in Images
          BY <1>1
        <5>. QED BY <5>1, Chains
      <4>. QED BY <3>3, <4>1
    <3>. QED BY <1>1, <2>1, <2>3, <3>2, <3>3, EarlyRead, Areas, Constants DEF Stage1TypeOK, DiskTypeOK
  <2>. QED BY <1>4, <2>2, <2>3 DEF search_kernel
<1>5. CASE load_kernel_loop
  <2>1. /\ Goal \in Closing \ {"opened"} /\ geom' = geom /\ Stage1TypeOK'
        /\ Read(stage2_cluster + DataBias, SectorBuffer, "got", "wait")
    BY <1>1, <1>5 DEF load_kernel_loop, Closing, Goal, stage1Vars, Stage1TypeOK
  <2>2. stage2_cluster + DataBias \in Nat
    BY <1>1, Areas
  <2>3. stage2_cluster' \in Clusters
    BY <1>0, <1>5 DEF SectorOK, Goal, load_kernel_loop, stage1Vars
  <2>. QED BY <1>1, <2>1, <2>2, <2>3, EarlyRead, Constants DEF DiskTypeOK
<1>6. CASE next_cluster_after
  <2>1. /\ pc = "got" /\ UNCHANGED <<image, geom, buf, io, faults, failed>>
        /\ stage2' = Append(stage2, buf[SectorBuffer])
    BY <1>6 DEF next_cluster_after
  <2>2. DiskTypeOK' /\ IoTypeOK' /\ stage2' \in Seq(Lbas)
    BY <1>0, <1>1, <2>1 DEF DiskTypeOK, IoTypeOK, SectorOK
  <2>3. stage2_cluster \in Clusters
    BY <1>0, <2>1 DEF SectorOK, Goal
  <2>. DEFINE n == FAT_NextCluster(stage2_cluster)
  <2>5. n \in 0 .. 4095 /\ (n < EndOfChain => n \in Clusters)
    <3>1. image \in Images
      BY <1>1
    <3>. QED BY <2>3, <3>1, Onward
  <2>4. /\ pc' \in {"start", "next"} /\ stage2_cluster' \in 0 .. 4095
        /\ pc' = "next" => stage2_cluster' \in Clusters
    <3>1. CASE n >= EndOfChain
      BY <1>6, <3>1 DEF next_cluster_after
    <3>2. CASE ~(n >= EndOfChain)
      <4>1. pc' = "next" /\ stage2_cluster' = n
        BY <1>6, <3>2 DEF next_cluster_after
      <4>. HIDE DEF n
      <4>2. n < EndOfChain
        BY <2>5, <3>2 DEF EndOfChain
      <4>. QED BY <2>5, <4>1, <4>2
    <3>. QED BY <3>1, <3>2
  <2>. QED BY <2>1, <2>2, <2>4, EarlyStep DEF Stage1TypeOK, Closing
<1>7. CASE ResetFails
  <2>1. /\ pc = "disk" /\ io.bad = "wait" /\ faults < MaxFaults /\ faults' = faults + 1
        /\ pc' = "wait" /\ io' = NoIO /\ UNCHANGED <<image, geom, buf, failed, stage1Vars>>
    BY <1>7 DEF ResetFails
  <2>2. DiskTypeOK' /\ IoTypeOK' /\ Stage1TypeOK'
    BY <1>1, <1>2, <2>1, Constants DEF DiskTypeOK, IoTypeOK, stage1Vars, Stage1TypeOK
  <2>. QED BY <2>1, <2>2, EarlyStep DEF Closing
<1>. QED BY <1>3, <1>4, <1>5, <1>6, <1>7 DEF Stage1

\* Where a file stands.
StandsOK(h, f) ==
  /\ Limited(f) => f.Position <= f.Size
  /\ h >= 0 => \/ f.CurrentCluster \in Clusters
               \/ Limited(f) /\ f.Position = f.Size

\* The start of stage 2.
LEMMA BeginningKeeps ==
  BootInv /\ (DISK_Initialize \/ FAT_ReadFat \/ OpenRoot) /\ UNCHANGED stage1Vars => BootInv'
<1>. SUFFICES ASSUME BootInv, DISK_Initialize \/ FAT_ReadFat \/ OpenRoot, UNCHANGED stage1Vars
              PROVE  BootInv'
  OBVIOUS
<1>0. BootTypeOK /\ ReturnsOK /\ PositionsOK
  BY DEF BootInv
<1>1. DiskTypeOK /\ IoTypeOK /\ geom \in Drives /\ Stage1TypeOK'
  BY <1>0 DEF BootTypeOK, Stage1TypeOK, DiskTypeOK, stage1Vars
<1>2. CASE DISK_Initialize
  <2>1. Goal \in Closing \ {"opened"} /\ pc \in Closing \ {"opened"} /\ UNCHANGED fatVars
    BY <1>2 DEF DISK_Initialize, Closing, Goal
  <2>2. CASE pc' = "hang" /\ KeepDisk
    <3>1. DiskTypeOK' /\ IoTypeOK' /\ image' = image
      BY <1>1, <2>2 DEF KeepDisk, DiskTypeOK, IoTypeOK
    <3>2. pc' \in Closing \ {"opened", "got"} /\ pc' # "next"
      BY <2>2 DEF Closing
    <3>. QED BY <1>1, <2>1, <3>1, <3>2, EarlyStep
  <2>3. ASSUME NEW g \in Drives, geom' = g, Read(0, FatBuffer, "fat", "hang") PROVE BootInv'
    BY <1>1, <2>1, <2>3, EarlyRead, Constants
  <2>. QED BY <1>2, <2>2, <2>3 DEF DISK_Initialize
<1>3. CASE FAT_ReadFat
  <2>1. /\ Goal \in Closing \ {"opened"} /\ UNCHANGED fatVars /\ geom' \in Drives
        /\ Read(FatLba, FatBuffer, "root", "hang")
    BY <1>1, <1>3 DEF FAT_ReadFat, Closing, Goal
  <2>. QED BY <1>1, <2>1, EarlyRead, Constants, Areas
<1>4. CASE OpenRoot
  <2>1. /\ geom' = geom /\ Read(RootLba, ROOT_DIRECTORY_HANDLE, "open", "hang")
        /\ UNCHANGED <<path, current, sought, rd, kernel, opening>>
    BY <1>4 DEF OpenRoot
  <2>2. /\ DiskTypeOK' /\ IoTypeOK' /\ pc' \in Statements /\ pc' = "disk"
        /\ io'.ok = "open" /\ io'.bad = "hang" /\ Goal' = "open" /\ image' = image
    <3>1. "open" \in Statements /\ "hang" \in Statements /\ ROOT_DIRECTORY_HANDLE \in Buffers
      BY Constants DEF Statements
    <3>2. geom' \in Drives /\ RootLba \in Nat
      BY <1>1, <2>1, Areas
    <3>. QED BY <1>0, <2>1, <3>1, <3>2, ReadBegins
  <2>. DEFINE root == [Closed EXCEPT !.Opened = TRUE, !.IsDirectory = TRUE, !.Size = DirEntryCount,
                                     !.FirstCluster = RootLba, !.CurrentCluster = RootLba]
  <2>3. root \in FileType
    <3>1. Closed \in FileType /\ RootLba \in Nat /\ DirEntryCount \in Nat
      BY Constants, Areas
    <3>. QED BY <3>1 DEF FileType
  <2>4. file' = [h \in Handles |-> IF h # ROOT_DIRECTORY_HANDLE THEN Closed ELSE root]
    BY <1>4 DEF OpenRoot
  <2>5. BootTypeOK'
    <3>1. file' \in [Handles -> FileType]
      BY <2>3, <2>4, Constants
    <3>2. FatTypeOK'
      BY <1>0, <2>1, <3>1 DEF BootTypeOK, FatTypeOK
    <3>. QED BY <1>1, <2>2, <3>2 DEF BootTypeOK
  <2>6. ReturnsOK'
    BY <1>0, <2>1, <2>2 DEF ReturnsOK
  <2>7. \A h \in Handles : StandsOK(h, file'[h])
    BY <2>4, Areas, Constants DEF StandsOK, Limited, Closed
  <2>8. PositionsOK'
    BY <2>2, <2>7 DEF PositionsOK, StandsOK, Clusters
  <2>9. HandlesOK'
    <3>1. \A h \in Handles : h >= 0 => ~file'[h].Opened
      <4>1. \A h \in Handles : h >= 0 => file'[h] = Closed
        BY <2>4, Constants
      <4>. QED BY <4>1 DEF Closed
    <3>. QED BY <3>1 DEF HandlesOK
  <2>10. SectorOK'
    BY <2>2 DEF SectorOK
  <2>. QED BY <2>5, <2>6, <2>8, <2>9, <2>10 DEF BootInv
<1>. QED BY <1>2, <1>3, <1>4

\* A call of FAT_Read for the file in use.
LEMMA CallKept ==
  ASSUME BootInv, KeepDisk, UNCHANGED <<stage1Vars, file, current, kernel>>,
         pc \in {"find", "entry", "load"}, NEW count \in Nat,
         NEW ret \in {"entry", "copy"}, FAT_Read(current, count, ret),
         ret = "copy" => current >= 0
  PROVE  BootInv'
<1>0. BootTypeOK /\ ReturnsOK /\ PositionsOK /\ HandlesOK
  BY DEF BootInv
<1>1. Goal = pc /\ Goal' = "read" /\ pc' = "read" /\ pc' \in Statements
  BY DEF Goal, FAT_Read, Statements
<1>2. /\ file[current] \in FileType /\ current \in Handles
      /\ Limited(file[current]) => file[current].Position <= file[current].Size
  BY <1>0 DEF BootTypeOK, FatTypeOK, PositionsOK
<1>. DEFINE f == file[current]
            left == IF Limited(f) THEN Least(count, f.Size - f.Position) ELSE count
<1>3. rd' = [h |-> current, out |-> <<>>, ret |-> ret, left |-> left]
  BY DEF FAT_Read, Limited
<1>4. left \in Nat /\ (Limited(f) => left <= f.Size - f.Position)
  <2>. HIDE DEF f
  <2>1. f.Size \in Nat /\ f.Position \in Nat /\ (Limited(f) => f.Position <= f.Size)
    BY <1>2 DEF FileType, f
  <2>. QED BY <2>1 DEF Least
<1>5. rd' \in [h : Handles, left : Nat, out : Seq(Units), ret : {"none", "entry", "copy"}]
  <2>. HIDE DEF left
  <2>1. <<>> \in Seq(Units)
    OBVIOUS
  <2>. QED BY <1>2, <1>3, <1>4, <2>1
<1>6. BootTypeOK'
  <2>1. DiskTypeOK' /\ IoTypeOK' /\ Stage1TypeOK'
    BY <1>0 DEF BootTypeOK, KeepDisk, DiskTypeOK, IoTypeOK, Stage1TypeOK, stage1Vars
  <2>2. rd'.h \in Handles /\ rd'.left \in Nat
    BY <1>5
  <2>3. FatTypeOK'
    BY <1>0, <2>2 DEF BootTypeOK, FatTypeOK
  <2>. QED BY <1>1, <2>1, <2>3 DEF BootTypeOK
<1>7. ReturnsOK'
  <2>. HIDE DEF left
  <2>. QED BY <1>1, <1>3, <1>5 DEF ReturnsOK
<1>8. PositionsOK'
  <2>1. rd'.left = left
    BY <1>3
  <2>. HIDE DEF left
  <2>. QED BY <1>0, <1>1, <1>4, <2>1 DEF PositionsOK, KeepDisk, Clusters
<1>9. HandlesOK'
  BY <1>0, <1>1 DEF HandlesOK, Closing
<1>10. SectorOK'
  BY <1>1 DEF SectorOK
<1>. QED BY <1>6, <1>7, <1>8, <1>9, <1>10 DEF BootInv

LEMMA CallsKeep ==
  BootInv /\ (FAT_FindFile \/ FindNext \/ Load) /\ UNCHANGED stage1Vars => BootInv'
<1>. SUFFICES ASSUME BootInv, FAT_FindFile \/ FindNext \/ Load, UNCHANGED stage1Vars PROVE BootInv'
  OBVIOUS
<1>0. LoadSize \in Nat
  BY FatAssumption DEF FatAssumption
<1>1. CASE FAT_FindFile
  <2>1. pc = "find" /\ FAT_Read(current, 1, "entry") /\ KeepDisk /\ UNCHANGED <<file, current, kernel>>
    BY <1>1 DEF FAT_FindFile
  <2>. QED BY <2>1, CallKept
<1>2. CASE FindNext
  <2>1. pc = "entry" /\ FAT_Read(current, 1, "entry") /\ KeepDisk /\ UNCHANGED <<file, current, kernel>>
    BY <1>2 DEF FindNext
  <2>. QED BY <2>1, CallKept
<1>3. CASE Load
  <2>1. pc = "load" /\ FAT_Read(current, LoadSize, "copy") /\ KeepDisk
        /\ UNCHANGED <<file, current, kernel>>
    BY <1>3 DEF Load
  <2>2. current >= 0
    BY <2>1 DEF BootInv, ReturnsOK, Goal
  <2>. QED BY <1>0, <2>1, <2>2, CallKept
<1>. QED BY <1>1, <1>2, <1>3

\* The call has got all it wants.
LEMMA ReadDoneKeeps == BootInv /\ ReadDone /\ UNCHANGED stage1Vars => BootInv'
<1>. SUFFICES ASSUME BootInv, ReadDone, UNCHANGED stage1Vars PROVE BootInv'
  OBVIOUS
<1>0. BootTypeOK /\ ReturnsOK /\ PositionsOK /\ HandlesOK
  BY DEF BootInv
<1>1. pc = "read" /\ pc' = rd.ret /\ KeepDisk /\ UNCHANGED fatVars
  BY DEF ReadDone
<1>2. Goal = "read" /\ pc' \in {"entry", "copy"} /\ Goal' = pc'
  BY <1>0, <1>1 DEF ReturnsOK, Goal
<1>3. BootTypeOK'
  <2>1. DiskTypeOK' /\ IoTypeOK' /\ Stage1TypeOK' /\ FatTypeOK'
    BY <1>0, <1>1 DEF BootTypeOK, KeepDisk, DiskTypeOK, IoTypeOK, Stage1TypeOK, stage1Vars, fatVars,
       FatTypeOK
  <2>. QED BY <1>2, <2>1 DEF BootTypeOK, Statements
<1>4. ReturnsOK'
  BY <1>0, <1>1, <1>2 DEF ReturnsOK, fatVars
<1>5. PositionsOK'
  BY <1>0, <1>1, <1>2 DEF PositionsOK, fatVars, KeepDisk, Clusters
<1>6. HandlesOK'
  BY <1>0, <1>1, <1>2 DEF HandlesOK, fatVars, Closing
<1>7. SectorOK'
  BY <1>2 DEF SectorOK
<1>. QED BY <1>3, <1>4, <1>5, <1>6, <1>7 DEF BootInv

\* The file in use moves on.
LEMMA FileMoves ==
  ASSUME BootInv, NEW g \in FileType, file' = [file EXCEPT ![current] = g],
         UNCHANGED <<stage1Vars, current, kernel, image>>,
         g.Opened = file[current].Opened, StandsOK(current, g),
         rd' \in [h : Handles, left : Nat, out : Seq(Units), ret : {"none", "entry", "copy"}],
         DiskTypeOK', IoTypeOK', pc' \in Statements,
         Goal = "read", Goal' \in {"read", "entry", "copy"},
         rd'.ret = rd.ret, rd'.h = rd.h, Goal' = "read" \/ Goal' = rd.ret,
         Goal' = "read" /\ Limited(g) => rd'.left <= g.Size - g.Position,
         pc' = "disk" => io'.ok = "read" /\ io'.bad = rd.ret
  PROVE  BootInv'
<1>0. BootTypeOK /\ ReturnsOK /\ PositionsOK /\ HandlesOK /\ SectorOK
  BY DEF BootInv
<1>1. file \in [Handles -> FileType] /\ current \in Handles
  BY <1>0 DEF BootTypeOK, FatTypeOK
<1>2. file' \in [Handles -> FileType] /\ file'[current] = g
      /\ \A h \in Handles : h # current => file'[h] = file[h]
  BY <1>1
<1>3. BootTypeOK'
  <2>1. rd'.h \in Handles /\ rd'.left \in Nat
    OBVIOUS
  <2>2. FatTypeOK' /\ Stage1TypeOK'
    BY <1>0, <1>2, <2>1 DEF BootTypeOK, FatTypeOK, Stage1TypeOK, stage1Vars
  <2>. QED BY <2>2 DEF BootTypeOK
<1>4. ReturnsOK'
  BY <1>0 DEF ReturnsOK
<1>5. PositionsOK'
  <2>1. \A h \in Handles : StandsOK(h, file[h])
    BY <1>0 DEF PositionsOK, StandsOK
  <2>2. \A h \in Handles : StandsOK(h, file'[h])
    BY <1>1, <1>2, <2>1
  <2>. QED BY <1>2, <2>2 DEF PositionsOK, StandsOK, Clusters
<1>6. HandlesOK'
  <2>1. Goal' \notin Closing /\ \A h \in Handles : h >= 0 /\ file[h].Opened => h = current
    BY <1>0 DEF Closing, HandlesOK
  <2>. QED BY <1>1, <1>2, <2>1 DEF HandlesOK
<1>7. SectorOK'
  <2>1. pc' # "got" /\ Goal' \notin {"next", "got"}
    BY DEF Goal
  <2>. QED BY <2>1 DEF SectorOK
<1>. QED BY <1>3, <1>4, <1>5, <1>6, <1>7 DEF BootInv

\* A call goes on to the end of a sector, and to the next.
LEMMA ReadMoreKeeps == BootInv /\ ReadMore /\ UNCHANGED stage1Vars => BootInv'
<1>. SUFFICES ASSUME BootInv, ReadMore, UNCHANGED stage1Vars PROVE BootInv'
  OBVIOUS
<1>0. BootTypeOK /\ ReturnsOK /\ PositionsOK
  BY DEF BootInv
<1>1. /\ pc = "read" /\ rd.left > 0 /\ UNCHANGED <<geom, current, kernel>>
  BY DEF ReadMore
<1>2. Goal = "read" /\ rd.h = current /\ rd.ret \in {"entry", "copy"} /\ current \in Handles
  BY <1>0, <1>1 DEF ReturnsOK, Goal, BootTypeOK, FatTypeOK
<1>. DEFINE h == current
            f == file[h]
            at0 == f.Position % SectorSize
            take == Least(rd.left, SectorSize - at0)
            taken == Taken(f, take)
            next == Advanced(taken)
            units == [n \in 1 .. take |-> <<buf[h], at0 + n - 1>>]
<1>3. /\ f \in FileType /\ StandsOK(h, f)
      /\ Limited(f) => rd.left <= f.Size - f.Position
  BY <1>0, <1>2 DEF BootTypeOK, FatTypeOK, PositionsOK, StandsOK
<1>4. /\ f.Position \in Nat /\ f.Size \in Nat /\ rd.left \in Nat /\ SectorSize \in Nat \ {0}
      /\ f.CurrentCluster \in Nat
  BY <1>0, <1>3, Areas DEF FileType, BootTypeOK, FatTypeOK
<1>5. at0 \in 0 .. SectorSize - 1 /\ take \in Nat /\ take > 0 /\ take <= rd.left
      /\ at0 + take <= SectorSize
  <2>1. at0 \in 0 .. SectorSize - 1
    BY <1>4
  <2>. HIDE DEF at0
  <2>. QED BY <1>1, <1>4, <2>1 DEF Least
<1>6. units \in Seq(Units)
  <2>. HIDE DEF at0, take
  <2>1. buf[h] \in Lbas \cup {Junk}
    BY <1>0, <1>2, Constants DEF BootTypeOK, DiskTypeOK
  <2>2. \A n \in 1 .. take : <<buf[h], at0 + n - 1>> \in Units
    BY <1>4, <1>5, <2>1 DEF Units
  <2>. QED BY <1>5, <2>2
<1>7. rd' = [rd EXCEPT !.left = rd.left - take, !.out = rd.out \o units]
  BY <1>2 DEF ReadMore
<1>. HIDE DEF units, take, at0
<1>8. /\ rd' \in [h : Handles, left : Nat, out : Seq(Units), ret : {"none", "entry", "copy"}]
      /\ rd'.ret = rd.ret /\ rd'.h = rd.h /\ rd'.left = rd.left - take
  <2>1. rd \in [h : Handles, left : Nat, out : Seq(Units), ret : {"none", "entry", "copy"}]
    BY <1>0 DEF ReturnsOK
  <2>2. rd.left - take \in Nat /\ rd.out \o units \in Seq(Units)
    BY <1>4, <1>5, <1>6, <2>1
  <2>. QED BY <1>7, <2>1, <2>2
<1>9. taken \in FileType /\ taken = [f EXCEPT !.Position = f.Position + take]
  BY <1>3, <1>4, <1>5 DEF FileType, Taken
<1>10. /\ taken.Opened = f.Opened /\ taken.Position = f.Position + take
       /\ taken.Size = f.Size /\ taken.IsDirectory = f.IsDirectory
       /\ taken.CurrentCluster = f.CurrentCluster
  BY <1>3, <1>9 DEF FileType
<1>. HIDE DEF f, taken, next
<1>11. Limited(taken) <=> Limited(f)
  BY <1>10 DEF Limited
<1>12. h >= 0 => f.CurrentCluster \in Clusters
  BY <1>1, <1>3, <1>4 DEF StandsOK
<1>13. /\ Limited(taken) => taken.Position + rd'.left <= taken.Size
       /\ StandsOK(h, taken)
       /\ taken.Position \in Nat /\ taken.Size \in Nat /\ rd'.left \in Nat
  <2>0. rd'.left = rd.left - take
    BY <1>8
  <2>1. Limited(taken) => taken.Position + rd'.left <= taken.Size
    BY <1>3, <1>4, <1>5, <1>10, <1>11, <2>0
  <2>2. taken.Position \in Nat /\ taken.Size \in Nat /\ rd'.left \in Nat
    BY <1>4, <1>5, <1>10, <2>0
  <2>3. Limited(taken) => taken.Position <= taken.Size
    BY <2>1, <2>2
  <2>4. h >= 0 => taken.CurrentCluster \in Clusters
    BY <1>10, <1>12
  <2>5. StandsOK(h, taken)
    BY <2>3, <2>4 DEF StandsOK
  <2>. QED BY <2>1, <2>2, <2>5
<1>14. CASE /\ at0 + take < SectorSize
            /\ file' = [file EXCEPT ![h] = taken]
            /\ pc' = "read" /\ UNCHANGED <<image, buf, io, faults, failed>>
  <2>1. DiskTypeOK' /\ IoTypeOK' /\ Goal' = "read" /\ pc' \in Statements
    BY <1>0, <1>1, <1>14 DEF BootTypeOK, DiskTypeOK, IoTypeOK, Goal, Statements
  <2>2. taken.Opened = file[current].Opened /\ pc' # "disk" /\ image' = image
    BY <1>10, <1>14 DEF f
  <2>3. Limited(taken) => rd'.left <= taken.Size - taken.Position
    BY <1>13
  <2>. QED BY <1>1, <1>2, <1>8, <1>9, <1>13, <1>14, <2>1, <2>2, <2>3, FileMoves
<1>15. ASSUME NEW g \in FileType, NEW lba \in Nat, file' = [file EXCEPT ![h] = g],
              Read(lba, h, "read", rd.ret), g.Opened = f.Opened, StandsOK(h, g),
              Limited(g) => g.Position + rd'.left <= g.Size
       PROVE  BootInv'
  <2>1. h \in Buffers /\ "read" \in Statements /\ rd.ret \in Statements
    BY <1>2, Constants DEF Statements
  <2>2. /\ DiskTypeOK' /\ IoTypeOK' /\ pc' \in Statements
        /\ io'.ok = "read" /\ io'.bad = rd.ret /\ Goal' = "read" /\ image' = image
    <3>1. geom' \in Drives
      BY <1>0, <1>1 DEF BootTypeOK, DiskTypeOK
    <3>. QED BY <1>0, <1>15, <2>1, <3>1, ReadBegins
  <2>3. g.Opened = file[current].Opened /\ file' = [file EXCEPT ![current] = g] /\ StandsOK(current, g)
    BY <1>15 DEF f
  <2>4. Limited(g) => rd'.left <= g.Size - g.Position
    <3>1. g.Size \in Nat /\ g.Position \in Nat /\ rd'.left \in Nat
      BY <1>8 DEF FileType
    <3>. QED BY <1>15, <3>1
  <2>. QED BY <1>1, <1>2, <1>8, <2>2, <2>3, <2>4, FileMoves
<1>16. CASE /\ at0 + take = SectorSize /\ h = ROOT_DIRECTORY_HANDLE
            /\ file' = [file EXCEPT ![h] = [taken EXCEPT !.CurrentCluster = taken.CurrentCluster + 1]]
            /\ Read(file'[h].CurrentCluster, h, "read", rd.ret)
  <2>. DEFINE g == [taken EXCEPT !.CurrentCluster = taken.CurrentCluster + 1]
  <2>0. taken.CurrentCluster + 1 \in Nat
    BY <1>4, <1>10
  <2>1. /\ g \in FileType /\ g.CurrentCluster \in Nat /\ g.Opened = taken.Opened
        /\ g.Position = taken.Position /\ g.Size = taken.Size /\ g.IsDirectory = taken.IsDirectory
    <3>. DEFINE n == taken.CurrentCluster + 1
    <3>1. n \in Nat
      BY <2>0
    <3>. HIDE DEF n
    <3>2. /\ [taken EXCEPT !.CurrentCluster = n] \in FileType
          /\ [taken EXCEPT !.CurrentCluster = n].CurrentCluster \in Nat
      BY <1>9, <3>1 DEF FileType
    <3>3. LET x == [taken EXCEPT !.CurrentCluster = n]
          IN x.Opened = taken.Opened /\ x.Position = taken.Position
             /\ x.Size = taken.Size /\ x.IsDirectory = taken.IsDirectory
      BY <1>9 DEF FileType
    <3>. QED BY <3>2, <3>3 DEF n
  <2>. HIDE DEF g
  <2>2. StandsOK(h, g) /\ (Limited(g) => g.Position + rd'.left <= g.Size) /\ g.Opened = f.Opened
    BY <1>10, <1>13, <1>16, <2>1, Constants DEF StandsOK, Limited
  <2>3. file' = [file EXCEPT ![h] = g] /\ file'[h] = g
    BY <1>0, <1>2, <1>16 DEF g, BootTypeOK, FatTypeOK
  <2>. QED BY <1>15, <1>16, <2>1, <2>2, <2>3
<1>17. h # ROOT_DIRECTORY_HANDLE => h >= 0
  BY <1>2 DEF Handles, ROOT_DIRECTORY_HANDLE
<1>18. SectorsPerCluster = 1 /\ image \in Images
  BY <1>0, Areas DEF BootTypeOK, DiskTypeOK
<1>19. ASSUME h >= 0
       PROVE  /\ next \in FileType /\ next.Opened = f.Opened
              /\ next.Position = taken.Position /\ next.Size = taken.Size
              /\ next.IsDirectory = taken.IsDirectory /\ next.CurrentSectorInCluster = 0
              /\ next.CurrentCluster \in Nat
              /\ next.CurrentCluster < EndOfChain => next.CurrentCluster \in Clusters
  <2>1. taken.CurrentSectorInCluster = 0
    BY <1>9, <1>18 DEF FileType
  <2>2. next = [taken EXCEPT !.CurrentSectorInCluster = 0,
                             !.CurrentCluster = FAT_NextCluster(taken.CurrentCluster)]
    BY <1>18, <2>1 DEF next, Advanced
  <2>. DEFINE c == FAT_NextCluster(taken.CurrentCluster)
  <2>3. c \in 0 .. 4095 /\ (c < EndOfChain => c \in Clusters)
    <3>1. taken.CurrentCluster \in Clusters
      BY <1>10, <1>12, <1>19
    <3>. QED BY <1>18, <3>1, Onward
  <2>. HIDE DEF c
  <2>4. next = [taken EXCEPT !.CurrentSectorInCluster = 0, !.CurrentCluster = c]
    BY <2>2 DEF c
  <2>5. c \in Nat /\ 0 \in 0 .. SectorsPerCluster - 1
    BY <1>18, <2>3
  <2>6. /\ next \in FileType /\ next.Opened = taken.Opened
        /\ next.Position = taken.Position /\ next.Size = taken.Size
        /\ next.IsDirectory = taken.IsDirectory /\ next.CurrentSectorInCluster = 0
        /\ next.CurrentCluster = c
    BY <1>9, <2>4, <2>5 DEF FileType
  <2>. QED BY <1>10, <2>3, <2>5, <2>6
<1>20. CASE /\ at0 + take = SectorSize /\ h # ROOT_DIRECTORY_HANDLE
            /\ next.CurrentCluster < EndOfChain
            /\ file' = [file EXCEPT ![h] = next]
            /\ Read(FAT_ClusterToLba(next.CurrentCluster) + next.CurrentSectorInCluster,
                    h, "read", rd.ret)
  <2>1. /\ next \in FileType /\ next.Opened = f.Opened
        /\ next.Position = taken.Position /\ next.Size = taken.Size
        /\ next.IsDirectory = taken.IsDirectory /\ next.CurrentSectorInCluster = 0
        /\ next.CurrentCluster \in Clusters /\ next.CurrentCluster \in Nat
    <3>1. h >= 0
      BY <1>17, <1>20
    <3>. QED BY <1>19, <1>20, <3>1
  <2>2. FAT_ClusterToLba(next.CurrentCluster) + next.CurrentSectorInCluster \in Nat
    BY <2>1, ClusterLba
  <2>3. StandsOK(h, next) /\ (Limited(next) => next.Position + rd'.left <= next.Size)
    BY <1>13, <2>1 DEF StandsOK, Limited
  <2>. QED BY <1>15, <1>20, <2>1, <2>2, <2>3
<1>21. CASE /\ at0 + take = SectorSize /\ h # ROOT_DIRECTORY_HANDLE
            /\ next.CurrentCluster >= EndOfChain
            /\ file' = [file EXCEPT ![h] = [next EXCEPT !.Size = next.Position]]
            /\ pc' = rd.ret /\ UNCHANGED <<image, buf, io, faults, failed>>
  <2>. DEFINE g == [next EXCEPT !.Size = next.Position]
  <2>1. next \in FileType /\ next.Opened = f.Opened /\ next.Position = f.Position + take
        /\ next.IsDirectory = taken.IsDirectory
    BY <1>10, <1>17, <1>19, <1>21
  <2>2. /\ g \in FileType /\ g.Opened = f.Opened /\ g.Position = next.Position
        /\ g.Size = next.Position
    BY <2>1 DEF FileType
  <2>3. g.Position > 0 /\ g.Position = g.Size
    BY <1>4, <1>5, <2>1, <2>2
  <2>. HIDE DEF g
  <2>4. g.Opened = file[current].Opened
    BY <2>2 DEF f
  <2>7. StandsOK(h, g) /\ (Limited(g) => g.Position <= g.Size)
    <3>1. g.Position \in Nat /\ g.Size \in Nat
      BY <2>2 DEF FileType
    <3>. QED BY <2>3, <3>1 DEF StandsOK, Limited
  <2>5. file' = [file EXCEPT ![current] = g]
    BY <1>21 DEF g
  <2>6. /\ DiskTypeOK' /\ IoTypeOK' /\ pc' \in Statements /\ pc' # "disk"
        /\ Goal' = rd.ret /\ rd.ret # "read" /\ image' = image
    BY <1>0, <1>1, <1>2, <1>21 DEF BootTypeOK, DiskTypeOK, IoTypeOK, Goal, Statements
  <2>. QED BY <1>1, <1>2, <1>8, <2>2, <2>4, <2>5, <2>6, <2>7, FileMoves
<1>. QED BY <1>2, <1>9, <1>14, <1>16, <1>20, <1>21 DEF ReadMore, f, at0, take, taken, next, Taken

\* A handle is closed: it stands where a file may stand, and is not open.
LEMMA Closing1 ==
  ASSUME BootInv
  PROVE  /\ ClosedFile(current) \in [Handles -> FileType]
         /\ \A h \in Handles : StandsOK(h, ClosedFile(current)[h])
         /\ \A h \in Handles : h >= 0 => ~ClosedFile(current)[h].Opened
<1>0. BootTypeOK /\ PositionsOK /\ HandlesOK
  BY DEF BootInv
<1>1. /\ file \in [Handles -> FileType] /\ current \in Handles
      /\ file[current] \in FileType
  BY <1>0 DEF BootTypeOK, FatTypeOK
<1>2. \A h \in Handles : StandsOK(h, file[h])
  BY <1>0 DEF PositionsOK, StandsOK
<1>3. \A h \in Handles : h >= 0 /\ file[h].Opened => h = current
  BY <1>0 DEF HandlesOK
<1>4. CASE current = ROOT_DIRECTORY_HANDLE
  <2>. DEFINE g == [file[current] EXCEPT !.Position = 0, !.CurrentCluster = file[current].FirstCluster]
  <2>1. g \in FileType /\ g.Position = 0
    BY <1>1 DEF FileType
  <2>2. ClosedFile(current) = [file EXCEPT ![current] = g]
    BY <1>1, <1>4 DEF ClosedFile
  <2>. HIDE DEF g
  <2>3. StandsOK(current, g)
    <3>1. g.Size \in Nat
      BY <2>1 DEF FileType
    <3>. QED BY <1>4, <2>1, <3>1, Constants DEF StandsOK
  <2>4. ~(current >= 0)
    BY <1>4, Constants
  <2>. QED BY <1>1, <1>2, <1>3, <2>1, <2>2, <2>3, <2>4
<1>5. CASE current # ROOT_DIRECTORY_HANDLE
  <2>. DEFINE g == [file[current] EXCEPT !.Opened = FALSE]
  <2>1. /\ g \in FileType /\ ~g.Opened /\ g.Position = file[current].Position
        /\ g.Size = file[current].Size /\ g.IsDirectory = file[current].IsDirectory
        /\ g.CurrentCluster = file[current].CurrentCluster
    BY <1>1 DEF FileType
  <2>2. ClosedFile(current) = [file EXCEPT ![current] = g]
    BY <1>1, <1>5 DEF ClosedFile
  <2>. HIDE DEF g
  <2>3. StandsOK(current, g)
    BY <1>1, <1>2, <2>1 DEF StandsOK, Limited
  <2>. QED BY <1>1, <1>2, <1>3, <2>1, <2>2, <2>3
<1>. QED BY <1>4, <1>5

\* The table changes and nothing is read: the end of FAT_Open or of the file.
LEMMA TableChanges ==
  ASSUME BootInv, UNCHANGED <<image, stage1Vars>>,
         file' \in [Handles -> FileType], \A h \in Handles : StandsOK(h, file'[h]),
         \A h \in Handles : h >= 0 /\ file'[h].Opened => h = current' /\ Goal' \notin Closing,
         current' \in Handles, DiskTypeOK', IoTypeOK', pc' \in Statements,
         kernel' \in Seq(Units),
         rd' \in [h : Handles, left : Nat, out : Seq(Units), ret : {"none", "entry", "copy"}],
         Goal' \notin {"read", "next", "got"},
         pc' = "disk" => io'.ok = "opened" /\ io'.bad = "null",
         Goal' \in {"opened", "load", "copy"} => current' >= 0
  PROVE  BootInv'
<1>0. BootTypeOK
  BY DEF BootInv
<1>1. BootTypeOK'
  <2>1. rd'.h \in Handles /\ rd'.left \in Nat
    OBVIOUS
  <2>2. FatTypeOK'
    BY <2>1 DEF FatTypeOK, Units
  <2>3. Stage1TypeOK'
    BY <1>0 DEF BootTypeOK, Stage1TypeOK, stage1Vars
  <2>. QED BY <2>2, <2>3 DEF BootTypeOK
<1>2. ReturnsOK'
  BY DEF ReturnsOK
<1>3. PositionsOK'
  BY DEF PositionsOK, StandsOK, Clusters
<1>4. HandlesOK'
  BY DEF HandlesOK
<1>5. SectorOK'
  BY DEF SectorOK, Goal
<1>. QED BY <1>1, <1>2, <1>3, <1>4, <1>5 DEF BootInv

\* The steps of FAT_Open and of start() that read nothing.
LEMMA SettledKeeps ==
  BootInv /\ (FAT_Open \/ NotFound \/ Opened \/ Copy) /\ UNCHANGED stage1Vars => BootInv'
<1>. SUFFICES ASSUME BootInv, FAT_Open \/ NotFound \/ Opened \/ Copy, UNCHANGED stage1Vars
              PROVE  BootInv'
  OBVIOUS
<1>0. BootTypeOK /\ ReturnsOK /\ PositionsOK /\ HandlesOK
  BY DEF BootInv
<1>1. /\ file \in [Handles -> FileType] /\ current \in Handles /\ kernel \in Seq(Units)
      /\ rd \in [h : Handles, left : Nat, out : Seq(Units), ret : {"none", "entry", "copy"}]
      /\ rd.out \in Seq(Units)
  <2>1. rd \in [h : Handles, left : Nat, out : Seq(Units), ret : {"none", "entry", "copy"}]
    BY <1>0 DEF ReturnsOK
  <2>. QED BY <1>0, <2>1 DEF BootTypeOK, FatTypeOK, Units
<1>2. KeepDisk => UNCHANGED image /\ DiskTypeOK' /\ IoTypeOK'
  BY <1>0 DEF KeepDisk, BootTypeOK, DiskTypeOK, IoTypeOK
<1>3. \A h \in Handles : StandsOK(h, file[h])
  BY <1>0 DEF PositionsOK, StandsOK
<1>4. /\ ClosedFile(current) \in [Handles -> FileType]
      /\ \A h \in Handles : StandsOK(h, ClosedFile(current)[h])
      /\ \A h \in Handles : h >= 0 => ~ClosedFile(current)[h].Opened
  BY Closing1
<1>5. NoRead \in [h : Handles, left : Nat, out : Seq(Units), ret : {"none", "entry", "copy"}]
  BY Constants
<1>6. CASE FAT_Open
  <2>1. /\ pc = "open" /\ pc' = "find" /\ KeepDisk /\ current' = ROOT_DIRECTORY_HANDLE
        /\ UNCHANGED <<file, rd, kernel>>
    BY <1>6 DEF FAT_Open
  <2>2. Goal' = "find" /\ pc' \in Statements /\ Goal = "open"
    BY <2>1 DEF Goal, Statements
  <2>3. \A h \in Handles : ~(h >= 0 /\ file'[h].Opened)
    BY <1>0, <2>1, <2>2 DEF HandlesOK, Closing
  <2>. QED BY <1>1, <1>2, <1>3, <2>1, <2>2, <2>3, Constants, TableChanges
<1>7. CASE NotFound
  <2>1. /\ pc' = "null" /\ KeepDisk /\ file' = ClosedFile(current) /\ rd' = NoRead
        /\ UNCHANGED <<current, kernel>>
    BY <1>7 DEF NotFound
  <2>2. Goal' = "null" /\ pc' \in Statements
    BY <2>1 DEF Goal, Statements
  <2>. QED BY <1>1, <1>2, <1>4, <1>5, <2>1, <2>2, TableChanges
<1>8. CASE Opened
  <2>1. /\ pc = "opened" /\ pc' \in {"load", "find"} /\ KeepDisk
        /\ file' = [file EXCEPT ![current].Opened = TRUE] /\ UNCHANGED <<current, rd, kernel>>
    BY <1>8 DEF Opened
  <2>2. Goal' = pc' /\ pc' \in Statements /\ Goal = "opened" /\ current >= 0
    BY <1>0, <2>1 DEF Goal, Statements, ReturnsOK
  <2>. DEFINE g == [file[current] EXCEPT !.Opened = TRUE]
  <2>3. /\ g \in FileType /\ g.Position = file[current].Position
        /\ g.Size = file[current].Size /\ g.IsDirectory = file[current].IsDirectory
        /\ g.CurrentCluster = file[current].CurrentCluster
    <3>1. file[current] \in FileType
      BY <1>1
    <3>. QED BY <3>1 DEF FileType
  <2>4. file' = [file EXCEPT ![current] = g]
    BY <1>1, <2>1
  <2>. HIDE DEF g
  <2>5. StandsOK(current, g)
    BY <1>1, <1>3, <2>3 DEF StandsOK, Limited
  <2>6. /\ file' \in [Handles -> FileType]
        /\ \A h \in Handles : StandsOK(h, file'[h])
    BY <1>1, <1>3, <2>3, <2>4, <2>5
  <2>7. \A h \in Handles : h >= 0 /\ file'[h].Opened => h = current' /\ Goal' \notin Closing
    <3>1. \A h \in Handles : ~(h >= 0 /\ file[h].Opened)
      BY <1>0, <2>2 DEF HandlesOK, Closing
    <3>2. \A h \in Handles : h # current => file'[h] = file[h]
      BY <1>1, <2>4
    <3>3. Goal' \notin Closing
      BY <2>1, <2>2 DEF Closing
    <3>. QED BY <2>1, <3>1, <3>2, <3>3
  <2>8. kernel' \in Seq(Units) /\ current' \in Handles /\ pc' # "disk" /\ current' >= 0
        /\ Goal' \notin {"read", "next", "got"}
    BY <1>1, <2>1, <2>2
  <2>9. rd' \in [h : Handles, left : Nat, out : Seq(Units), ret : {"none", "entry", "copy"}]
    BY <1>1, <2>1
  <2>. QED BY <1>2, <2>1, <2>2, <2>6, <2>7, <2>8, <2>9, TableChanges
<1>9. CASE Copy
  <2>1. pc = "copy" /\ KeepDisk /\ current' = current /\ rd' = NoRead /\ Goal = "copy" /\ current >= 0
    BY <1>0, <1>9 DEF Copy, Goal, ReturnsOK
  <2>2. CASE rd.out = <<>>
    <3>1. pc' = "jump" /\ file' = ClosedFile(current) /\ kernel' = kernel
      BY <1>9, <2>2 DEF Copy
    <3>2. Goal' = "jump" /\ pc' \in Statements
      BY <3>1 DEF Goal, Statements
    <3>. QED BY <1>1, <1>2, <1>4, <1>5, <2>1, <3>1, <3>2, TableChanges
  <2>3. CASE rd.out # <<>>
    <3>1. pc' = "load" /\ file' = file /\ kernel' = kernel \o rd.out
      BY <1>9, <2>3 DEF Copy
    <3>2. Goal' = "load" /\ pc' \in Statements /\ Goal' \notin Closing
      BY <3>1 DEF Goal, Statements, Closing
    <3>3. kernel' \in Seq(Units)
      <4>1. \A s, t \in Seq(Units) : s \o t \in Seq(Units)
        OBVIOUS
      <4>. QED BY <1>1, <3>1, <4>1
    <3>4. \A h \in Handles : h >= 0 /\ file'[h].Opened => h = current'
      BY <1>0, <2>1, <3>1 DEF HandlesOK
    <3>. QED BY <1>1, <1>2, <1>3, <1>5, <2>1, <3>1, <3>2, <3>3, <3>4, TableChanges
  <2>. QED BY <2>2, <2>3
<1>. QED BY <1>6, <1>7, <1>8, <1>9

\* The entry has been found: it gets the first handle, or there is none.
LEMMA FoundKeeps == BootInv /\ Found /\ UNCHANGED stage1Vars => BootInv'
<1>. SUFFICES ASSUME BootInv, Found, UNCHANGED stage1Vars PROVE BootInv'
  OBVIOUS
<1>. DEFINE t == ClosedFile(current)
            e == EntryAt(rd.out[1])
<1>0. BootTypeOK /\ ReturnsOK
  BY DEF BootInv
<1>1. FAT_OpenEntry(t, e) /\ rd' = NoRead /\ UNCHANGED <<geom, kernel>>
  BY DEF Found
<1>2. /\ t \in [Handles -> FileType]
      /\ \A h \in Handles : StandsOK(h, t[h])
      /\ \A h \in Handles : h >= 0 => ~t[h].Opened
  BY Closing1
<1>3. image \in Images
  BY <1>0 DEF BootTypeOK, DiskTypeOK
<1>4. /\ e.dir \in BOOLEAN /\ e.size \in Nat /\ e.first \in Nat
      /\ e.first \in Clusters \/ (~e.dir /\ e.size = 0)
  BY <1>3, EntryOK, Zenon
<1>. HIDE DEF t, e
<1>6. NoRead \in [h : Handles, left : Nat, out : Seq(Units), ret : {"none", "entry", "copy"}]
  BY Constants
<1>7. kernel' \in Seq(Units) /\ current \in Handles
  BY <1>0, <1>1 DEF BootTypeOK, FatTypeOK, Units
<1>8. CASE file' = t /\ pc' = "null" /\ UNCHANGED <<image, buf, io, faults, failed, current>>
  <2>1. DiskTypeOK' /\ IoTypeOK'
    BY <1>0, <1>1, <1>8 DEF BootTypeOK, DiskTypeOK, IoTypeOK
  <2>2. Goal' = "null" /\ pc' \in Statements
    BY <1>8 DEF Goal, Statements
  <2>. QED BY <1>1, <1>2, <1>6, <1>7, <1>8, <2>1, <2>2, TableChanges
<1>. DEFINE G(d, z, c) == [Closed EXCEPT !.IsDirectory = d, !.Size = z,
                                         !.FirstCluster = c, !.CurrentCluster = c]
            g == G(e.dir, e.size, e.first)
<1>9. ASSUME NEW h \in Handles, h >= 0, file' = [t EXCEPT ![h] = g], current' = h,
             Read(FAT_ClusterToLba(e.first), h, "opened", "null")
      PROVE  BootInv'
  <2>1. /\ g \in FileType /\ ~g.Opened /\ g.Position = 0 /\ g.Size = e.size
        /\ g.IsDirectory = e.dir /\ g.CurrentCluster = e.first
    <3>1. Closed \in FileType
      BY Constants
    <3>2. ASSUME NEW d \in BOOLEAN, NEW z \in Nat, NEW c \in Nat
          PROVE  /\ G(d, z, c) \in FileType /\ ~G(d, z, c).Opened /\ G(d, z, c).Position = 0
                 /\ G(d, z, c).Size = z /\ G(d, z, c).IsDirectory = d
                 /\ G(d, z, c).CurrentCluster = c
      BY <3>1 DEF FileType, Closed
    <3>. HIDE DEF G
    <3>3. e.dir \in BOOLEAN /\ e.size \in Nat /\ e.first \in Nat
      BY <1>4
    <3>4. /\ G(e.dir, e.size, e.first) \in FileType /\ ~G(e.dir, e.size, e.first).Opened
          /\ G(e.dir, e.size, e.first).Position = 0 /\ G(e.dir, e.size, e.first).Size = e.size
          /\ G(e.dir, e.size, e.first).IsDirectory = e.dir
          /\ G(e.dir, e.size, e.first).CurrentCluster = e.first
      BY <3>2, <3>3
    <3>. QED BY <3>4, Zenon
  <2>. HIDE DEF g
  <2>2. /\ DiskTypeOK' /\ IoTypeOK' /\ pc' \in Statements /\ pc' = "disk"
        /\ io'.ok = "opened" /\ io'.bad = "null" /\ Goal' = "opened" /\ image' = image
    <3>1. "opened" \in Statements /\ "null" \in Statements /\ h \in Buffers
      BY Constants DEF Statements
    <3>2. geom' \in Drives /\ FAT_ClusterToLba(e.first) \in Nat
      BY <1>0, <1>1, <1>4, ClusterLba DEF BootTypeOK, DiskTypeOK
    <3>. QED BY <1>0, <1>9, <3>1, <3>2, ReadBegins
  <2>3. StandsOK(h, g)
    BY <1>4, <2>1 DEF StandsOK, Limited
  <2>4. /\ file' \in [Handles -> FileType]
        /\ \A i \in Handles : StandsOK(i, file'[i])
        /\ \A i \in Handles : i >= 0 => ~file'[i].Opened
    BY <1>2, <1>9, <2>1, <2>3
  <2>. QED BY <1>1, <1>6, <1>7, <1>9, <2>2, <2>4, TableChanges
<1>. QED BY <1>1, <1>8, <1>9 DEF FAT_OpenEntry

\* A key is pressed, and the machine starts again.
LEMMA RebootKeeps == BootInv /\ wait_key_and_reboot /\ UNCHANGED fatVars => BootInv'
<1>. SUFFICES ASSUME BootInv, wait_key_and_reboot, UNCHANGED fatVars PROVE BootInv'
  OBVIOUS
<1>1. DiskTypeOK /\ IoTypeOK
  BY DEF BootInv, BootTypeOK
<1>2. DiskTypeOK'
  <2>1. [b \in Buffers |-> Junk] \in [Buffers -> Lbas \cup {Junk}]
    OBVIOUS
  <2>. QED BY <1>1, <2>1 DEF DiskTypeOK, wait_key_and_reboot
<1>3. IoTypeOK' /\ Stage1TypeOK'
  BY <1>1 DEF IoTypeOK, Stage1TypeOK, wait_key_and_reboot
<1>4. pc = "wait" /\ pc' = "power" /\ image' = image
  BY DEF wait_key_and_reboot
<1>. QED BY <1>2, <1>3, <1>4, EarlyStep DEF Closing

\* The loaders' variables are put back when the kernel is entered.
LEMMA EnterKeeps == BootInv /\ EnterKernel => BootInv'
<1>. SUFFICES ASSUME BootInv, EnterKernel PROVE BootInv'
  OBVIOUS
<1>0. image \in Images /\ Floppy \in Drives /\ MaxFaults \in Nat
  BY DiskAssumption DEF DiskAssumption, BootInv, BootTypeOK, DiskTypeOK
<1>1. /\ pc' = "kernel" /\ geom' = Floppy /\ buf' = [b \in Buffers |-> Junk] /\ io' = NoIO
      /\ faults' = 0 /\ failed' = FALSE /\ stage2_cluster' = 0 /\ stage2' = <<>>
      /\ file' = [h \in Handles |-> Closed] /\ current' = ROOT_DIRECTORY_HANDLE
      /\ rd' = NoRead /\ kernel' = <<>> /\ image' = image
  BY DEF EnterKernel
<1>2. Goal' = "kernel" /\ pc' \in Statements
  BY <1>1 DEF Goal, Statements
<1>3. BootTypeOK'
  <2>1. DiskTypeOK'
    <3>1. buf' \in [Buffers -> Lbas \cup {Junk}]
      BY <1>1
    <3>2. faults' \in 0 .. MaxFaults
      BY <1>0, <1>1
    <3>3. image' \in Images /\ geom' \in Drives /\ failed' \in BOOLEAN
      BY <1>0, <1>1
    <3>. QED BY <3>1, <3>2, <3>3 DEF DiskTypeOK
  <2>2. IoTypeOK'
    BY <1>1, Constants DEF IoTypeOK
  <2>3. Stage1TypeOK'
    BY <1>1 DEF Stage1TypeOK
  <2>4. FatTypeOK'
    BY <1>1, Constants DEF FatTypeOK, NoRead
  <2>. QED BY <1>2, <2>1, <2>2, <2>3, <2>4 DEF BootTypeOK
<1>4. ReturnsOK'
  BY <1>1, <1>2, Constants DEF ReturnsOK
<1>5. PositionsOK'
  BY <1>1, <1>2 DEF PositionsOK, Closed, Limited
<1>6. HandlesOK'
  BY <1>1 DEF HandlesOK, Closed
<1>7. SectorOK'
  BY <1>1, <1>2 DEF SectorOK
<1>. QED BY <1>3, <1>4, <1>5, <1>6, <1>7 DEF BootInv

LEMMA BootInvStep == BootInv /\ [PowerNext]_powerVars => BootInv'
<1>. SUFFICES ASSUME BootInv, [PowerNext]_powerVars PROVE BootInv'
  OBVIOUS
<1>1. CASE Next
  <2>1. CASE DISK_ReadSectors /\ UNCHANGED <<stage1Vars, fatVars>>
    BY <2>1, ArriveKeeps, RetryKeeps DEF DISK_ReadSectors
  <2>2. CASE Stage1 /\ UNCHANGED fatVars
    BY <2>2, Stage1Keeps
  <2>3. CASE Stage2 /\ UNCHANGED stage1Vars
    BY <2>3, BeginningKeeps, CallsKeep, ReadDoneKeeps, ReadMoreKeeps, SettledKeeps, FoundKeeps
       DEF Stage2
  <2>4. CASE wait_key_and_reboot /\ UNCHANGED fatVars
    BY <2>4, RebootKeeps
  <2>. QED BY <1>1, <2>1, <2>2, <2>3, <2>4 DEF Next, Processor
<1>2. CASE EnterKernel
  BY <1>2, EnterKeeps
<1>3. CASE UNCHANGED bootVars
  <2>. USE <1>3 DEF bootVars, diskVars, stage1Vars, fatVars
  <2>1. BootTypeOK' /\ Goal' = Goal
    BY DEF BootInv, BootTypeOK, DiskTypeOK, IoTypeOK, Stage1TypeOK, FatTypeOK, Goal
  <2>2. ReturnsOK'
    BY <2>1 DEF BootInv, ReturnsOK
  <2>3. PositionsOK' /\ HandlesOK'
    BY <2>1 DEF BootInv, PositionsOK, HandlesOK, Clusters
  <2>4. SectorOK'
    BY <2>1 DEF BootInv, SectorOK, Clusters
  <2>. QED BY <2>1, <2>2, <2>3, <2>4 DEF BootInv
<1>. QED BY <1>1, <1>2, <1>3 DEF PowerNext, Loading, Kernel, powerVars

-----------------------------------------------------------------------------
(* The theorems.                                                           *)

\* The loaders' variables keep their types, whatever the drive does: no read
\* goes to an address that is no address, and no call returns to nowhere.
THEOREM BootTypes == PowerSpec => []BootTypeOK
<1>1. PowerInit => BootInv
  BY BootInvInit DEF PowerInit
<1>. QED BY <1>1, BootInvStep, PTL DEF PowerSpec, BootInv

\* PowerTypeOK: and so do the kernel's, behind the loaders.
THEOREM PowerTypes == PowerSpec => []PowerTypeOK
<1>1. PowerInit => StartInv /\ StartTypeOK
  BY StartInvInit, TypesInit DEF PowerInit
<1>2. StartInv /\ [KernelNext]_startVars => StartInv'
  BY ControlStep, CursorStep, TablesStep, ServiceStep, SerialStep DEF StartInv
<1>3. [PowerNext]_powerVars => [KernelNext]_startVars
  <2>1. EnterKernel => UNCHANGED startVars
    BY DEF EnterKernel
  <2>. QED BY <2>1 DEF PowerNext, Loading, Kernel, powerVars
<1>. QED BY <1>1, <1>2, <1>3, TypesStep, BootTypes, PTL DEF PowerSpec, PowerTypeOK

\* HandlesBalanced of run boot: FAT_Open and start() close every handle but the
\* one in use, on every path and after every failed read.
THEOREM Balanced == PowerSpec => []HandlesBalanced
<1>1. PowerInit => BootInv
  BY BootInvInit DEF PowerInit
<1>2. BootInv => HandlesBalanced
  BY DEF BootInv, HandlesOK, HandlesBalanced, Goal, Closing
<1>. QED BY <1>1, <1>2, BootInvStep, PTL DEF PowerSpec

\* From power-on: the loaders leave the kernel's variables alone, and what the
\* start keeps by itself it keeps behind them.
THEOREM KernelFromPower == PowerSpec => [](ConsoleIntact /\ SerialLosses /\ InterruptsReturn)
<1>1. PowerInit => StartInv
  BY StartInvInit DEF PowerInit
<1>2. StartInv /\ [KernelNext]_startVars => StartInv'
  BY ControlStep, CursorStep, TablesStep, ServiceStep, SerialStep DEF StartInv
<1>3. [PowerNext]_powerVars => [KernelNext]_startVars
  <2>1. EnterKernel => UNCHANGED startVars
    BY DEF EnterKernel
  <2>. QED BY <2>1 DEF PowerNext, Loading, Kernel, powerVars
<1>4. StartInv => ConsoleIntact /\ SerialLosses
  BY StartupAssumption, FewLost DEF StartInv, CursorInv, ConsoleIntact, StartupAssumption
<1>. QED BY <1>1, <1>2, <1>3, <1>4, Returned, PTL DEF PowerSpec

-----------------------------------------------------------------------------
(* Chains of an image without errors.                                      *)

\* A chain stays in the FAT or has come to its end.
LEMMA ChainRange ==
  ASSUME image \in Images, NEW first \in Clusters
  PROVE  \A j \in Nat : Cluster(first, j) \in Clusters \cup 4088 .. 4095
<1>. DEFINE C(j) == Cluster(first, j)
            Last == 4088 .. 4095
            Bad == {j \in Nat : C(j) \notin Clusters \cup Last}
<1>1. SUFFICES ASSUME Bad # {} PROVE FALSE
  OBVIOUS
<1>2. PICK a \in Bad : \A b \in Bad : a <= b
  <2>1. Bad \subseteq Nat
    OBVIOUS
  <2>. HIDE DEF Bad
  <2>. QED BY <1>1, <2>1, LeastMember
<1>3. C(0) = first /\ \A j \in Nat : C(j + 1) = Follower(image, C(j))
  BY ClusterSteps DEF Cluster
<1>4. \A c \in Clusters : /\ Link(c) \in Clusters \cup Last
                          /\ c \in 0 .. 4087
  BY Chains
<1>. HIDE DEF C
<1>5. a # 0
  BY <1>3
<1>6. a - 1 \in Nat /\ ~(a <= a - 1) /\ a = (a - 1) + 1
  BY <1>5
<1>7. C(a - 1) \in Clusters \cup Last
  BY <1>2, <1>6
<1>8. C(a) = Follower(image, C(a - 1))
  BY <1>3, <1>6
<1>9. CASE C(a - 1) \in Clusters
  <2>1. C(a) = Link(C(a - 1))
    BY <1>4, <1>8, <1>9 DEF Follower, EndOfChain, Link
  <2>. HIDE DEF Last
  <2>. QED BY <1>4, <1>9, <2>1
<1>10. CASE C(a - 1) \in Last
  BY <1>8, <1>10 DEF Follower, EndOfChain
<1>. QED BY <1>7, <1>9, <1>10

\* What a chain gives are numbers, and those before the end are clusters.
LEMMA ChainNumbers ==
  ASSUME image \in Images, NEW first \in Clusters, NEW j \in Nat
  PROVE  /\ Cluster(first, j) \in Nat
         /\ Cluster(first, j) < EndOfChain => Cluster(first, j) \in Clusters
<1>. DEFINE c == Cluster(first, j)
<1>1. c \in Clusters \cup 4088 .. 4095
  BY ChainRange
<1>2. Clusters \subseteq 0 .. 4087
  BY Chains
<1>. HIDE DEF c
<1>3. c \in Nat /\ (c < EndOfChain => c \in Clusters)
  BY <1>1, <1>2 DEF EndOfChain
<1>. QED BY <1>3 DEF c

\* The next cluster of a chain.
LEMMA ChainGoesOn ==
  ASSUME image \in Images, NEW first \in Clusters, NEW j \in Nat, Cluster(first, j) \in Clusters
  PROVE  Cluster(first, j + 1) = FAT_NextCluster(Cluster(first, j))
<1>. DEFINE c == Cluster(first, j)
<1>1. FAT_NextCluster(c) = Link(c)
  BY NextCluster
<1>2. Cluster(first, j + 1) = Follower(image, c)
  BY ClusterSteps DEF Cluster
<1>3. Clusters \subseteq 0 .. 4087
  BY Chains
<1>. HIDE DEF c
<1>4. c \in Clusters
  BY DEF c
<1>5. ~(c >= EndOfChain)
  BY <1>3, <1>4 DEF EndOfChain
<1>. QED BY <1>1, <1>2, <1>5 DEF Follower, Link, c

\* A chain that has ended does not go on.
LEMMA ChainEnds ==
  ASSUME image \in Images, NEW first \in Clusters, NEW n \in Nat, HasLength(image, first, n),
         NEW j \in Nat, Cluster(first, j) < EndOfChain
  PROVE  j < n
<1>. DEFINE C(i) == Cluster(first, i)
            Bad == {i \in Nat : i >= n /\ C(i) < EndOfChain}
<1>1. SUFFICES ASSUME Bad # {} PROVE FALSE
  <2>1. j \in Nat /\ C(j) < EndOfChain
    OBVIOUS
  <2>. HIDE DEF C
  <2>. QED BY <2>1
<1>2. PICK a \in Bad : \A b \in Bad : a <= b
  <2>1. Bad \subseteq Nat
    OBVIOUS
  <2>. QED BY <1>1, <2>1, LeastMember
<1>3. \A i \in Nat : C(i + 1) = Follower(image, C(i))
  BY ClusterSteps DEF Cluster
<1>4. \A i \in Nat : C(i) \in Nat
  BY ChainNumbers
<1>5. C(n) >= EndOfChain
  <2>1. C(n) < EndOfChain <=> n < n
    BY DEF HasLength, Cluster
  <2>. QED BY <1>4, <2>1 DEF EndOfChain
<1>. HIDE DEF C
<1>6. a # n /\ a \in Nat /\ a >= n /\ C(a) < EndOfChain
  BY <1>2, <1>4, <1>5 DEF EndOfChain
<1>7. a - 1 \in Nat /\ a - 1 >= n /\ ~(a <= a - 1) /\ a = (a - 1) + 1
  BY <1>6
<1>8. C(a - 1) >= EndOfChain
  BY <1>2, <1>4, <1>7 DEF EndOfChain
<1>9. C(a) = Follower(image, C(a - 1))
  BY <1>3, <1>7
<1>10. C(a) = C(a - 1)
  BY <1>8, <1>9 DEF Follower
<1>. QED BY <1>4, <1>6, <1>7, <1>8, <1>10 DEF EndOfChain

\* The sector of a position is that of its cluster.
LEMMA SectorOfCluster ==
  ASSUME image \in Images, NEW first \in Clusters, NEW p \in Nat
  PROVE  SectorOf(first, p) = Cluster(first, p \div SectorSize) + DataBias
<1>. DEFINE q == p \div SectorSize
            c == Cluster(first, q)
<1>1. q \in Nat
  BY Areas
<1>2. c \in Nat
  BY <1>1, ChainNumbers
<1>. HIDE DEF q
<1>3. q \div 1 = q /\ q % 1 = 0
  BY <1>1
<1>4. SectorsPerCluster = 1 /\ RootLba \in Nat /\ RootSectors \in Nat
      /\ DataBias = RootLba + RootSectors - 2
  BY Areas
<1>5. SectorOf(first, p) = RootLba + RootSectors + 1 * (c - 2) + 0
  BY <1>3, <1>4 DEF SectorOf, q
<1>. HIDE DEF c
<1>6. RootLba + RootSectors + 1 * (c - 2) + 0 = c + DataBias
  BY <1>2, <1>4
<1>. QED BY <1>5, <1>6 DEF c, q

-----------------------------------------------------------------------------
(* Stage 1 loads the whole of stage 2.                                     *)

\* The file is loaded up to the cluster that comes next.
Loaded(u) ==
  LET first == EntryAt(u).first
  IN /\ EntryAt(u).name = "STAGE2" /\ u \in DOMAIN image.entries
     /\ stage2_cluster = Cluster(first, Len(stage2))
     /\ \A j \in 1 .. Len(stage2) : stage2[j] = Cluster(first, j - 1) + DataBias

StageOK ==
  /\ Goal \in {"power", "search", "next", "got", "wait"} => geom = Floppy
  /\ Goal \in {"power", "search"} => stage2 = <<>>
  /\ Goal \in {"next", "got"} => \E u \in RootUnits : Loaded(u)
  /\ pc = "disk" /\ io.ok = "got" => io.lba = stage2_cluster + DataBias
  /\ pc = "got" => buf[SectorBuffer] = stage2_cluster + DataBias
  /\ Stage2Whole

\* Stage 2 does not go back to stage 1, and leaves the floppy as it is.
LEMMA Stage2Goal ==
  ASSUME BootInv, Stage2
  PROVE  /\ Goal' \notin {"power", "search", "next", "got", "wait"} /\ pc' # "start"
         /\ image' = image
<1>1. CASE DISK_Initialize \/ FAT_ReadFat \/ OpenRoot
  BY <1>1 DEF DISK_Initialize, FAT_ReadFat, OpenRoot, Read, KeepDisk, Goal
<1>2. CASE ReadDone
  BY <1>2 DEF ReadDone, KeepDisk, Goal, BootInv, ReturnsOK
<1>3. CASE ReadMore
  <2>1. rd.ret \in {"entry", "copy"}
    BY <1>3 DEF ReadMore, BootInv, ReturnsOK, Goal
  <2>2. \/ pc' = "read" /\ image' = image
        \/ pc' = rd.ret /\ image' = image
        \/ \E lba, b : Read(lba, b, "read", rd.ret)
    BY <1>3 DEF ReadMore
  <2>. QED BY <2>1, <2>2 DEF Goal, Read
<1>4. CASE FAT_Open \/ FAT_FindFile \/ FindNext \/ NotFound \/ Opened \/ Load \/ Copy
  <2>1. pc' \in {"find", "read", "null", "load", "jump"} /\ image' = image
    BY <1>4 DEF FAT_Open, FAT_FindFile, FindNext, NotFound, Opened, Load, Copy, FAT_Read, KeepDisk
  <2>. QED BY <2>1 DEF Goal
<1>5. CASE Found
  <2>1. \/ pc' = "null" /\ image' = image
        \/ \E lba, b : Read(lba, b, "opened", "null")
    BY <1>5 DEF Found, FAT_OpenEntry
  <2>. QED BY <2>1 DEF Goal, Read
<1>. QED BY <1>1, <1>2, <1>3, <1>4, <1>5 DEF Stage2

\* Elsewhere nothing is said of stage 2's sectors.
LEMMA StageElsewhere ==
  ASSUME Goal' \notin {"power", "search", "next", "got", "wait"}, pc' # "start"
  PROVE  StageOK'
<1>1. pc' # "got" /\ ~(pc' = "disk" /\ io'.ok = "got")
  BY DEF Goal
<1>. QED BY <1>1 DEF StageOK, Stage2Whole

\* What has been loaded does not depend on the statement.
LEMMA LoadedKept ==
  ASSUME image' = image, UNCHANGED stage1Vars, NEW u, Loaded(u)
  PROVE  Loaded(u)'
BY DEF Loaded, stage1Vars, Cluster, EntryAt

\* A read in stage 1.
LEMMA StageReads ==
  BootInv /\ StageOK /\ DISK_ReadSectors /\ UNCHANGED stage1Vars => StageOK'
<1>. SUFFICES ASSUME BootInv, StageOK, DISK_ReadSectors, UNCHANGED stage1Vars PROVE StageOK'
  OBVIOUS
<1>0. BootTypeOK /\ ReturnsOK /\ SectorOK
  BY DEF BootInv
<1>1. image' = image /\ geom' = geom /\ stage2' = stage2 /\ stage2_cluster' = stage2_cluster
      /\ pc = "disk"
  BY DEF DISK_ReadSectors, Arrive, Retry, Fault, stage1Vars
<1>2. Goal \in {"next", "got"} => \E u \in RootUnits : Loaded(u)'
  <2>1. Goal \in {"next", "got"} => \E u \in RootUnits : Loaded(u)
    BY DEF StageOK
  <2>. QED BY <1>1, <2>1, LoadedKept
<1>3. CASE Arrive
  <2>1. pc' = io.ok /\ Goal' = Goal /\ io' = NoIO /\ pc' # "disk" /\ pc' # "start"
    BY <1>0, <1>1, <1>3 DEF Arrive, Goal, ReturnsOK
  <2>2. ASSUME pc' = "got" PROVE buf'[SectorBuffer] = stage2_cluster + DataBias
    <3>1. io.buf = SectorBuffer /\ io.lba = stage2_cluster + DataBias /\ geom = Floppy
      BY <1>0, <1>1, <2>1, <2>2 DEF SectorOK, StageOK, Goal
    <3>2. io.lba \in Nat
      BY <1>0 DEF BootTypeOK, IoTypeOK
    <3>3. SectorAt(LBA2CHS(Floppy, io.lba)) = io.lba
      BY <1>3, <3>1, <3>2, FoundThere DEF Arrive
    <3>4. buf \in [Buffers -> Lbas \cup {Junk}] /\ SectorBuffer \in Buffers
      BY <1>0, Constants DEF BootTypeOK, DiskTypeOK
    <3>. QED BY <1>3, <3>1, <3>3, <3>4 DEF Arrive
  <2>. QED BY <1>1, <1>2, <2>1, <2>2 DEF StageOK, Stage2Whole
<1>4. CASE Retry /\ io.tries < 2
  <2>1. pc' = pc /\ io' = [io EXCEPT !.tries = @ + 1]
    BY <1>4 DEF Retry
  <2>2. io'.ok = io.ok /\ io'.lba = io.lba /\ Goal' = Goal
    BY <1>0, <2>1 DEF BootTypeOK, IoTypeOK, Goal
  <2>. QED BY <1>1, <1>2, <2>1, <2>2 DEF StageOK, Stage2Whole
<1>5. CASE Retry /\ ~(io.tries < 2)
  <2>1. pc' = io.bad
    BY <1>5 DEF Retry
  <2>2. CASE io.bad = "wait"
    <3>1. Goal \in {"search", "next", "got"} /\ Goal' = "wait" /\ pc' = "wait"
      BY <1>0, <1>1, <2>1, <2>2 DEF ReturnsOK, Goal
    <3>. QED BY <1>1, <3>1 DEF StageOK, Stage2Whole
  <2>3. CASE io.bad # "wait"
    <3>1. io.bad \in {"hang", "null", "entry", "copy"}
      BY <1>0, <1>1, <2>3 DEF ReturnsOK, Goal
    <3>2. Goal' = io.bad
      BY <2>1, <3>1 DEF Goal
    <3>. QED BY <2>1, <3>1, <3>2, StageElsewhere
  <2>. QED BY <2>2, <2>3
<1>. QED BY <1>3, <1>4, <1>5 DEF DISK_ReadSectors

\* The last cluster of a chain tells its length.
LEMMA ChainStops ==
  ASSUME image \in Images, NEW first \in Clusters, NEW N \in Nat, HasLength(image, first, N),
         NEW n \in Nat, Cluster(first, n) \in Clusters, Cluster(first, n + 1) >= EndOfChain
  PROVE  n + 1 = N
<1>1. n < N
  <2>1. Cluster(first, n) < EndOfChain
    BY Onward
  <2>. QED BY <2>1, ChainEnds
<1>2. ~(n + 1 < N)
  <2>1. n + 1 \in 0 .. N => (Cluster(first, n + 1) < EndOfChain <=> n + 1 < N)
    BY DEF HasLength, Cluster
  <2>2. Cluster(first, n + 1) \in Nat
    BY ChainNumbers
  <2>. QED BY <2>1, <2>2 DEF EndOfChain
<1>. QED BY <1>1, <1>2

\* What an image without errors says of an entry.
LEMMA EntryFacts ==
  ASSUME image \in Images, NEW u \in DOMAIN image.entries
  PROVE  LET e == image.entries[u]
         IN /\ EntryAt(u) = e /\ e.first \in Clusters /\ e.size \in Nat /\ e.dir \in BOOLEAN
            /\ e.name \notin {"garbled", "-"}
            /\ ~e.dir /\ e.size > 0 =>
                 HasLength(image, e.first, (e.size + SectorSize - 1) \div SectorSize)
            /\ e.dir => e.size = 0 /\ \E n \in Clusters : /\ 0 .. n \subseteq Clusters
                                                          /\ HasLength(image, e.first, n)
            /\ e.name = "STAGE2" => ~e.dir /\ e.size > 0
<1>. DEFINE e == image.entries[u]
<1>1. SectorSize * SectorsPerCluster = SectorSize
  BY Areas
<1>2. e.first \in Clusters /\ e.size \in Nat /\ e.dir \in BOOLEAN
  BY ImageAssumption DEF ImageAssumption, Clusters
<1>3. e.name \notin {"garbled", "-"} /\ (e.name = "STAGE2" => ~e.dir /\ e.size > 0)
  BY ImageAssumption DEF ImageAssumption, NoEntry
<1>4. ~e.dir /\ e.size > 0 =>
        HasLength(image, e.first, (e.size + SectorSize - 1) \div SectorSize)
  BY <1>1, ImageAssumption DEF ImageAssumption
<1>5. e.dir => e.size = 0 /\ \E n \in Clusters : 0 .. n \subseteq Clusters /\ HasLength(image, e.first, n)
  BY ImageAssumption DEF ImageAssumption, Clusters
<1>6. EntryAt(u) = e
  BY DEF EntryAt
<1>. QED BY <1>2, <1>3, <1>4, <1>5, <1>6

\* The last cluster of stage 2 is in memory.
LEMMA StageLoaded ==
  ASSUME image \in Images, NEW u \in DOMAIN image.entries,
         EntryAt(u).name = "STAGE2", NEW n \in Nat,
         Cluster(EntryAt(u).first, n) \in Clusters,
         Cluster(EntryAt(u).first, n + 1) >= EndOfChain
  PROVE  n + 1 = (EntryAt(u).size + SectorSize - 1) \div SectorSize
<1>. DEFINE e == EntryAt(u)
            N == (e.size + SectorSize - 1) \div SectorSize
<1>1. e.first \in Clusters /\ e.size \in Nat /\ e.size > 0 /\ HasLength(image, e.first, N)
  BY EntryFacts
<1>2. N \in Nat
  BY <1>1, Areas
<1>. HIDE DEF N, e
<1>3. Cluster(e.first, n) \in Clusters /\ Cluster(e.first, n + 1) >= EndOfChain
  BY DEF e
<1>4. n + 1 = N
  BY <1>1, <1>2, <1>3, ChainStops
<1>. QED BY <1>4 DEF N, e

LEMMA StageStep == BootInv /\ StageOK /\ [PowerNext]_powerVars => StageOK'
<1>. SUFFICES ASSUME BootInv, StageOK, [PowerNext]_powerVars PROVE StageOK'
  OBVIOUS
<1>0. BootTypeOK /\ ReturnsOK /\ SectorOK /\ image \in Images
  BY DEF BootInv, BootTypeOK, DiskTypeOK
<1>1. CASE DISK_ReadSectors /\ UNCHANGED stage1Vars
  BY <1>1, StageReads
<1>2. CASE GetDriveParams
  <2>1. pc = "power" /\ geom = Floppy /\ stage2 = <<>> /\ UNCHANGED stage1Vars
    BY <1>2 DEF GetDriveParams, StageOK, Goal
  <2>2. CASE geom' = Floppy /\ Read(RootLba, FatBuffer, "search", "wait")
    <3>1. Goal' = "search" /\ pc' = "disk" /\ io'.ok = "search"
      BY <2>2 DEF Read, Goal
    <3>. QED BY <2>1, <2>2, <3>1 DEF StageOK, stage1Vars, Stage2Whole
  <2>3. CASE pc' = "wait" /\ geom' = geom
    BY <2>1, <2>3 DEF StageOK, Goal, stage1Vars, Stage2Whole
  <2>. QED BY <1>2, <2>2, <2>3 DEF GetDriveParams
<1>3. CASE search_kernel
  <2>1. pc = "search" /\ geom' = Floppy /\ stage2' = <<>>
    BY <1>3 DEF search_kernel, StageOK, Goal
  <2>2. CASE pc' = "wait"
    BY <2>1, <2>2 DEF StageOK, Goal, Stage2Whole
  <2>3. CASE /\ \E e \in Named("STAGE2", RootUnits) : stage2_cluster' = e.first
             /\ Read(FatLba, FatBuffer, "next", "wait")
    <3>1. PICK u \in RootUnits : EntryAt(u).name = "STAGE2" /\ stage2_cluster' = EntryAt(u).first
      BY <2>3 DEF Named
    <3>2. Goal' = "next" /\ pc' = "disk" /\ io'.ok = "next" /\ image' = image
      BY <2>3 DEF Read, Goal
    <3>3. u \in DOMAIN image.entries
      BY <3>1 DEF EntryAt, NoEntry
    <3>4. Loaded(u)'
      <4>1. EntryAt(u)' = EntryAt(u) /\ \A c, j : Cluster(c, j)' = Cluster(c, j)
        BY <3>2 DEF EntryAt, Cluster
      <4>2. Cluster(EntryAt(u).first, 0) = EntryAt(u).first
        BY ClusterSteps DEF Cluster
      <4>. QED BY <2>1, <3>1, <3>2, <3>3, <4>1, <4>2 DEF Loaded
    <3>. QED BY <2>1, <3>2, <3>4 DEF StageOK, Stage2Whole
  <2>4. {u \in RootUnits : buf[FatBuffer] = RootLba} \subseteq RootUnits
    OBVIOUS
  <2>. QED BY <1>3, <2>2, <2>3, <2>4 DEF search_kernel, Named
<1>4. CASE load_kernel_loop
  <2>1. /\ pc = "next" /\ geom' = geom /\ UNCHANGED stage1Vars
        /\ Read(stage2_cluster + DataBias, SectorBuffer, "got", "wait")
    BY <1>4 DEF load_kernel_loop
  <2>2. Goal = "next" /\ Goal' = "got" /\ pc' = "disk" /\ io'.lba = stage2_cluster + DataBias
        /\ image' = image
    BY <2>1 DEF Goal, Read
  <2>3. \E u \in RootUnits : Loaded(u)'
    BY <2>1, <2>2, LoadedKept DEF StageOK
  <2>. QED BY <2>1, <2>2, <2>3 DEF StageOK, Stage2Whole, stage1Vars
<1>5. CASE next_cluster_after
  <2>1. /\ pc = "got" /\ UNCHANGED <<image, geom, buf, io, faults, failed>>
        /\ stage2' = Append(stage2, buf[SectorBuffer])
    BY <1>5 DEF next_cluster_after
  <2>2. /\ Goal = "got" /\ geom = Floppy /\ buf[SectorBuffer] = stage2_cluster + DataBias
        /\ stage2_cluster \in Clusters /\ stage2 \in Seq(Lbas) /\ buf[SectorBuffer] \in Lbas
    BY <1>0, <2>1 DEF Goal, StageOK, SectorOK, BootTypeOK, Stage1TypeOK
  <2>3. PICK u \in RootUnits : Loaded(u)
    BY <2>2 DEF StageOK
  <2>. DEFINE first == EntryAt(u).first
              n == Len(stage2)
              next == FAT_NextCluster(stage2_cluster)
  <2>4. /\ n \in Nat /\ EntryAt(u).name = "STAGE2" /\ u \in DOMAIN image.entries
        /\ stage2_cluster = Cluster(first, n)
        /\ \A j \in 1 .. n : stage2[j] = Cluster(first, j - 1) + DataBias
    BY <2>2, <2>3 DEF Loaded
  <2>5. first \in Clusters
    BY <1>0, <2>4, ImageAssumption DEF ImageAssumption, EntryAt, Clusters
  <2>6. Cluster(first, n) \in Clusters /\ Cluster(first, n + 1) = next
    BY <1>0, <2>2, <2>4, <2>5, ChainGoesOn
  <2>7. \A j \in 1 .. n + 1 : stage2'[j] = Cluster(first, j - 1) + DataBias
    <3>1. Len(stage2') = n + 1 /\ stage2'[n + 1] = buf[SectorBuffer]
          /\ \A j \in 1 .. n : stage2'[j] = stage2[j]
      BY <2>1, <2>2
    <3>2. n + 1 - 1 = n
      BY <2>4
    <3>. HIDE DEF n, first
    <3>3. ASSUME NEW j \in 1 .. n + 1 PROVE stage2'[j] = Cluster(first, j - 1) + DataBias
      <4>1. j \in 1 .. n \/ j = n + 1
        BY <2>4
      <4>. QED BY <2>2, <2>4, <3>1, <3>2, <4>1
    <3>. QED BY <3>3
  <2>8. Len(stage2') = n + 1 /\ stage2' \in Seq(Lbas)
    BY <2>1, <2>2
  <2>9. EntryAt(u)' = EntryAt(u) /\ \A c, j : Cluster(c, j)' = Cluster(c, j)
    BY <2>1 DEF EntryAt, Cluster
  <2>. HIDE DEF first, n, next
  <2>10. CASE next >= EndOfChain
    <3>1. pc' = "start"
      BY <1>5, <2>10 DEF next_cluster_after, next
    <3>. DEFINE size == EntryAt(u).size
    <3>2. n + 1 = (size + SectorSize - 1) \div SectorSize
      BY <1>0, <2>4, <2>6, <2>10, StageLoaded DEF first
    <3>3. stage2' = [j \in 1 .. n + 1 |-> stage2'[j]]
      BY <2>8
    <3>4. \A j \in 1 .. n + 1 : stage2'[j] = SectorOf(first, (j - 1) * SectorSize)
      <4>. SUFFICES ASSUME NEW j \in 1 .. n + 1
                    PROVE  stage2'[j] = SectorOf(first, (j - 1) * SectorSize)
        OBVIOUS
      <4>1. j - 1 \in Nat /\ SectorSize \in Nat \ {0} /\ 0 \in 0 .. SectorSize - 1
        BY <2>4, Areas
      <4>2. (j - 1) * SectorSize \in Nat /\ (j - 1) * SectorSize + 0 = (j - 1) * SectorSize
        BY <4>1
      <4>3. ((j - 1) * SectorSize) \div SectorSize = j - 1
        BY <4>1, <4>2, Quotient
      <4>4. SectorOf(first, (j - 1) * SectorSize) = Cluster(first, j - 1) + DataBias
        BY <1>0, <2>5, <4>2, <4>3, SectorOfCluster
      <4>. QED BY <2>7, <4>4
    <3>5. stage2' = [j \in 1 .. (size + SectorSize - 1) \div SectorSize |->
                       SectorOf(first, (j - 1) * SectorSize)]
      BY <3>2, <3>3, <3>4
    <3>6. \A c, p : SectorOf(c, p)' = SectorOf(c, p)
      BY <2>9 DEF SectorOf
    <3>7. EntryAt(u) \in Named("STAGE2", RootUnits)'
      BY <2>4, <2>9 DEF Named
    <3>8. Stage2Whole'
      BY <3>5, <3>6, <3>7 DEF Stage2Whole, first
    <3>. QED BY <3>1, <3>8 DEF StageOK, Goal
  <2>11. CASE ~(next >= EndOfChain)
    <3>1. pc' = "next" /\ stage2_cluster' = next
      BY <1>5, <2>11 DEF next_cluster_after, next
    <3>2. Loaded(u)'
      BY <2>1, <2>4, <2>6, <2>7, <2>8, <2>9, <3>1 DEF Loaded, first
    <3>. QED BY <2>1, <2>2, <3>1, <3>2 DEF StageOK, Goal, Stage2Whole
  <2>. QED BY <2>10, <2>11
<1>6. CASE ResetFails
  <2>1. pc = "disk" /\ io.bad = "wait" /\ pc' = "wait" /\ geom' = geom
    BY <1>6 DEF ResetFails
  <2>2. geom = Floppy
    BY <1>0, <2>1 DEF ReturnsOK, StageOK, Goal
  <2>. QED BY <2>1, <2>2 DEF StageOK, Goal, Stage2Whole
<1>7. CASE Stage2
  BY <1>7, Stage2Goal, StageElsewhere
<1>8. CASE wait_key_and_reboot
  BY <1>8 DEF wait_key_and_reboot, StageOK, Goal, Stage2Whole
<1>9. CASE EnterKernel
  <2>1. pc' = "kernel"
    BY <1>9 DEF EnterKernel
  <2>. QED BY <2>1, StageElsewhere DEF Goal
<1>10. CASE UNCHANGED bootVars
  <2>1. UNCHANGED <<image, pc, geom, buf, io, stage2, stage2_cluster>>
    BY <1>10 DEF bootVars, diskVars, stage1Vars
  <2>2. Goal' = Goal /\ \A u : Loaded(u) => Loaded(u)'
    BY <2>1, LoadedKept DEF Goal, stage1Vars
  <2>3. Stage2Whole'
    BY <2>1 DEF StageOK, Stage2Whole, Named, EntryAt, SectorOf, Cluster
  <2>. QED BY <2>1, <2>2, <2>3 DEF StageOK
<1>. QED BY <1>1, <1>2, <1>3, <1>4, <1>5, <1>6, <1>7, <1>8, <1>9, <1>10
         DEF PowerNext, Loading, Kernel, powerVars, Next, Processor, Stage1

\* Stage2Whole: whichever reads fail, are retried or spoil the buffer, stage 2 is
\* entered only with all its clusters in memory, in order.
THEOREM Stage2Loaded == PowerSpec => []Stage2Whole
<1>1. PowerInit => BootInv /\ StageOK
  <2>1. Init => StageOK
    BY DEF Init, StageOK, Goal, Stage2Whole
  <2>. QED BY <2>1, BootInvInit DEF PowerInit
<1>2. StageOK => Stage2Whole
  BY DEF StageOK
<1>. QED BY <1>1, <1>2, BootInvStep, StageStep, PTL DEF PowerSpec

-----------------------------------------------------------------------------
(* Stage 2 finds and loads the whole file, as long as no read has failed.  *)

\* The file in use, and the sector and the unit that a position of it lies in.
Here(h, first, p) == IF h = ROOT_DIRECTORY_HANDLE THEN RootLba + (p \div SectorSize)
                     ELSE Cluster(first, p \div SectorSize) + DataBias
Unit(h, first, p) == <<Here(h, first, p), p % SectorSize>>
UnitAt(p) == Unit(current, file[current].FirstCluster, p)

\* An entry that the path names in the directory it starts from.
Level1(e) == e \in Named(opening[1], RootUnits)

\* The file in use is that of the entry; a directory gets a size at its end.
Matches(e) ==
  /\ e \in {image.entries[u] : u \in DOMAIN image.entries}
  /\ file[current].FirstCluster = e.first /\ file[current].IsDirectory = e.dir
  /\ \/ file[current].Size = e.size
     \/ e.dir /\ \E n \in Nat : HasLength(image, e.first, n) /\ file[current].Size = n * SectorSize

Working == {"find", "read", "entry", "opened", "load", "copy"}
Searching == Goal = "entry" \/ (Goal = "read" /\ rd.ret = "entry")
Copying == Goal = "copy" \/ (Goal = "read" /\ rd.ret = "copy")

OpeningOK == Goal \in Working \cup {"jump", "null"} => opening \in Paths
Fresh == Goal \in {"power", "search", "next", "got", "wait", "start", "fat", "root", "open",
                  "find", "opened"} \/ Searching
FreshOK == Fresh => kernel = <<>>

\* The root directory is open, its first sector in its buffer.
RootOpen ==
  Goal = "open" =>
    LET f == file[ROOT_DIRECTORY_HANDLE]
    IN /\ f.FirstCluster = RootLba /\ f.IsDirectory /\ f.Size = DirEntryCount
       /\ f.CurrentCluster = RootLba /\ f.Position = 0
       /\ IF pc = "open" THEN buf[ROOT_DIRECTORY_HANDLE] = RootLba
          ELSE io.buf = ROOT_DIRECTORY_HANDLE /\ io.lba = RootLba

\* Which directory or file is in use, and what is left of the path.
InRoot ==
  /\ current = ROOT_DIRECTORY_HANDLE /\ file[current].FirstCluster = RootLba
  /\ file[current].IsDirectory /\ file[current].Size = DirEntryCount
  /\ \/ Goal = "find" /\ path = opening
     \/ Searching /\ path = Tail(opening) /\ sought \in {opening[1], "garbled"}
InDirectory ==
  /\ current >= 0 /\ Len(opening) = 2 /\ \E e : Level1(e) /\ Matches(e)
  /\ \/ Goal \in {"opened", "find"} /\ path = Tail(opening)
     \/ Searching /\ path = <<>> /\ sought \in {opening[2], "garbled"}
InFile ==
  /\ current >= 0 /\ path = <<>> /\ \E e \in Resolved(opening) : Matches(e)
  /\ Goal \in {"opened", "load"} \/ Copying
RouteOK == Goal \in Working => InRoot \/ InDirectory \/ InFile

\* The cluster is that of the position, and so is the sector in the buffer.
StandOK ==
  Goal \in Working =>
    LET f == file[current]
    IN /\ IF current = ROOT_DIRECTORY_HANDLE
          THEN f.CurrentCluster = RootLba + (f.Position \div SectorSize)
          ELSE \/ Limited(f) /\ f.Position = f.Size
               \/ f.CurrentCluster = Cluster(f.FirstCluster, f.Position \div SectorSize)
       /\ current >= 0 /\ f.Position > 0 =>
            Cluster(f.FirstCluster, (f.Position - 1) \div SectorSize) \in Clusters
       /\ Goal \in {"find", "opened"} => f.Position = 0
Standing == UnitAt(file[current].Position)[1]
BufferOK ==
  /\ pc = "disk" /\ io.ok \in {"read", "opened"} => io.buf = current /\ io.lba = Standing
  /\ pc \in Working /\ ~(Limited(file[current]) /\ file[current].Position = file[current].Size) =>
       buf[current] = Standing

\* What FAT_Read has delivered are the units before the position.
OutOK ==
  /\ Goal \in {"opened", "load"} => rd.out = <<>>
  /\ Searching \/ Copying =>
    LET f == file[current]
        n == Len(rd.out)
    IN /\ n <= f.Position
       /\ \A i \in 1 .. n : rd.out[i] = UnitAt(f.Position - n + i - 1)
       /\ Searching => n + (IF Goal = "read" THEN rd.left ELSE 0) <= 1
       /\ n = 0 /\ (Goal = "read" => rd.left = 0) => Limited(f) /\ f.Position = f.Size

\* What has been copied are all units before those.
KernelOK ==
  Goal = "load" \/ Copying =>
    /\ Len(kernel) + Len(rd.out) = file[current].Position
    /\ \A i \in 1 .. Len(kernel) : kernel[i] = UnitAt(i - 1)

\* All units before those have been compared.
SearchOK ==
  Searching =>
    \A q \in Nat : q < file[current].Position - Len(rd.out) => EntryAt(UnitAt(q)).name # sought

LoadOK == /\ RootOpen /\ RouteOK /\ StandOK /\ BufferOK /\ OutOK /\ KernelOK /\ SearchOK
          /\ KernelWhole /\ NullMeansAbsent
LoadInv == OpeningOK /\ FreshOK /\ (Healthy => LoadOK)

-----------------------------------------------------------------------------
(* What these predicates depend on.                                        *)

\* The types of the file in use.
LEMMA Facts ==
  ASSUME BootInv
  PROVE  /\ image \in Images /\ current \in Handles /\ file \in [Handles -> FileType]
         /\ file[current] \in FileType
         /\ file[current].Position \in Nat /\ file[current].Size \in Nat
         /\ file[current].CurrentCluster \in Nat /\ file[current].FirstCluster \in Nat
         /\ rd.out \in Seq(Units) /\ rd.left \in Nat /\ kernel \in Seq(Units)
         /\ buf \in [Buffers -> Lbas \cup {Junk}]
         /\ Limited(file[current]) => file[current].Position <= file[current].Size
         /\ current = ROOT_DIRECTORY_HANDLE <=> ~(current >= 0)
<1>1. BootTypeOK /\ ReturnsOK /\ PositionsOK
  BY DEF BootInv
<1>2. image \in Images /\ current \in Handles /\ file \in [Handles -> FileType]
      /\ kernel \in Seq(Units) /\ buf \in [Buffers -> Lbas \cup {Junk}]
  BY <1>1 DEF BootTypeOK, DiskTypeOK, FatTypeOK, Units
<1>3. file[current] \in FileType
  BY <1>2
<1>4. /\ file[current].Position \in Nat /\ file[current].Size \in Nat
      /\ file[current].CurrentCluster \in Nat /\ file[current].FirstCluster \in Nat
  BY <1>3 DEF FileType
<1>5. rd \in [h : Handles, left : Nat, out : Seq(Units), ret : {"none", "entry", "copy"}]
  BY <1>1 DEF ReturnsOK
<1>6. rd.out \in Seq(Units) /\ rd.left \in Nat
  BY <1>5
<1>7. Limited(file[current]) => file[current].Position <= file[current].Size
  BY <1>1, <1>2 DEF PositionsOK
<1>8. current = ROOT_DIRECTORY_HANDLE <=> ~(current >= 0)
  BY <1>2 DEF Handles, ROOT_DIRECTORY_HANDLE
<1>. QED BY <1>2, <1>3, <1>4, <1>6, <1>7, <1>8

\* Sectors, units and entries depend on the image alone.
LEMMA ImageFixed ==
  ASSUME image' = image
  PROVE  /\ \A h, first, p : Unit(h, first, p)' = Unit(h, first, p)
         /\ \A u : EntryAt(u)' = EntryAt(u)
         /\ \A first : UnitsOf(first)' = UnitsOf(first)
         /\ \A name, units : Named(name, units)' = Named(name, units)
         /\ \A p : Resolved(p)' = Resolved(p)
         /\ \A first, n : Cluster(first, n)' = Cluster(first, n)
         /\ Clusters' = Clusters
<1>1. \A u : EntryAt(u)' = EntryAt(u)
  BY DEF EntryAt
<1>2. \A first, n : Cluster(first, n)' = Cluster(first, n)
  BY DEF Cluster
<1>3. Clusters' = Clusters
  BY DEF Clusters
<1>4. \A h, first, p : Unit(h, first, p)' = Unit(h, first, p)
  BY <1>2 DEF Unit, Here
<1>5. \A first : UnitsOf(first)' = UnitsOf(first)
  BY <1>2, <1>3 DEF UnitsOf
<1>6. \A name, units : Named(name, units)' = Named(name, units)
  BY <1>1 DEF Named
<1>7. \A p : Resolved(p)' = Resolved(p)
  BY <1>5, <1>6 DEF Resolved
<1>. QED BY <1>1, <1>2, <1>3, <1>4, <1>5, <1>6, <1>7

\* The file in use is the same.
LEMMA SameFile ==
  ASSUME image' = image, current' = current, opening' = opening,
         file'[current].FirstCluster = file[current].FirstCluster,
         file'[current].IsDirectory = file[current].IsDirectory,
         file'[current].Size = file[current].Size
  PROVE  /\ \A p : UnitAt(p)' = UnitAt(p)
         /\ \A e : Matches(e)' = Matches(e) /\ Level1(e)' = Level1(e)
         /\ Resolved(opening)' = Resolved(opening)
<1>1. \A p : UnitAt(p)' = UnitAt(p)
  BY ImageFixed DEF UnitAt
<1>2. \A e : Matches(e)' = Matches(e)
  BY DEF Matches
<1>3. \A e : Level1(e)' = Level1(e)
  BY ImageFixed DEF Level1
<1>4. Resolved(opening)' = Resolved(opening)
  BY ImageFixed
<1>. QED BY <1>1, <1>2, <1>3, <1>4

-----------------------------------------------------------------------------
(* What is asked for, and an empty destination.                            *)

\* A step that neither opens nor copies.
LEMMA NothingCopied ==
  ASSUME OpeningOK, FreshOK, UNCHANGED <<opening, kernel>>,
         Goal' \in Working \cup {"jump", "null"} => Goal \in Working \cup {"jump", "null"},
         Fresh' => Fresh
  PROVE  OpeningOK' /\ FreshOK'
BY DEF OpeningOK, FreshOK

\* While a program is looked for, something is asked for and nothing is copied.
LEMMA FreshStep ==
  BootInv /\ OpeningOK /\ FreshOK /\ [PowerNext]_powerVars => OpeningOK' /\ FreshOK'
<1>. SUFFICES ASSUME BootInv, OpeningOK, FreshOK, [PowerNext]_powerVars
              PROVE  OpeningOK' /\ FreshOK'
  OBVIOUS
<1>. USE DEF Working, Searching, Fresh
<1>0. ReturnsOK
  BY DEF BootInv
<1>1. CASE Arrive /\ UNCHANGED fatVars
  <2>1. Goal' = Goal /\ UNCHANGED <<opening, kernel, rd>>
    BY <1>0, <1>1 DEF Arrive, Goal, fatVars, ReturnsOK
  <2>. QED BY <2>1, NothingCopied
<1>2. CASE Retry /\ UNCHANGED fatVars
  <2>1. UNCHANGED <<opening, kernel, rd>> /\ pc = "disk"
    BY <1>2 DEF fatVars, Retry, Fault
  <2>2. CASE io.tries < 2
    <3>1. pc' = pc /\ io' = [io EXCEPT !.tries = @ + 1]
      BY <1>2, <2>2 DEF Retry
    <3>2. io'.ok = io.ok
      BY <3>1 DEF BootInv, BootTypeOK, IoTypeOK
    <3>3. Goal' = Goal
      BY <3>1, <3>2 DEF Goal
    <3>. QED BY <2>1, <3>3, NothingCopied
  <2>3. CASE ~(io.tries < 2)
    <3>1. pc' = io.bad
      BY <1>2, <2>3 DEF Retry
    <3>2. Goal' = io.bad
      BY <1>0, <2>1, <3>1 DEF Goal, ReturnsOK
    <3>3. \/ Goal' = "wait" /\ Goal \in {"search", "next", "got"}
          \/ Goal' = "hang"
          \/ Goal' = "null" /\ Goal = "opened"
          \/ Goal' = rd.ret /\ Goal = "read" /\ rd.ret \in {"entry", "copy"}
      BY <1>0, <2>1, <3>2 DEF Goal, ReturnsOK
    <3>. QED BY <2>1, <3>3, NothingCopied
  <2>. QED BY <2>2, <2>3
<1>3. CASE Stage1 /\ UNCHANGED fatVars
  <2>1. UNCHANGED <<opening, kernel, rd>>
    BY <1>3 DEF fatVars
  <2>2. /\ Goal \in {"power", "search", "next", "got", "wait"} \/ (pc = "disk" /\ io.bad = "wait")
        /\ Goal' \in {"power", "wait", "search", "next", "got", "start"}
    <3>1. CASE GetDriveParams
      BY <3>1 DEF GetDriveParams, Read, Goal
    <3>2. CASE search_kernel
      <4>1. pc = "search" /\ (pc' = "wait" \/ Read(FatLba, FatBuffer, "next", "wait"))
        BY <3>2 DEF search_kernel
      <4>. QED BY <4>1 DEF Read, Goal
    <3>3. CASE load_kernel_loop
      BY <3>3 DEF load_kernel_loop, Read, Goal
    <3>4. CASE next_cluster_after
      <4>1. pc = "got" /\ pc' \in {"start", "next"}
        BY <3>4 DEF next_cluster_after
      <4>. QED BY <4>1 DEF Goal
    <3>5. CASE ResetFails
      BY <3>5 DEF ResetFails, Goal
    <3>. QED BY <1>3, <3>1, <3>2, <3>3, <3>4, <3>5 DEF Stage1
  <2>3. Goal \in {"power", "search", "next", "got", "wait"}
    BY <1>0, <2>2 DEF ReturnsOK, Goal
  <2>. QED BY <2>1, <2>2, <2>3, NothingCopied
<1>4. CASE DISK_Initialize \/ FAT_ReadFat \/ OpenRoot
  <2>1. /\ UNCHANGED <<opening, kernel>> /\ Goal \in {"start", "fat", "root"}
        /\ Goal' \in {"hang", "fat", "root", "open"}
    BY <1>4 DEF DISK_Initialize, FAT_ReadFat, OpenRoot, Read, KeepDisk, Goal, fatVars
  <2>. QED BY <2>1, NothingCopied
<1>5. CASE ReadDone \/ ReadMore
  <2>1. Goal = "read" /\ rd.ret \in {"entry", "copy"} /\ UNCHANGED <<opening, kernel>>
    BY <1>0, <1>5 DEF ReadDone, ReadMore, ReturnsOK, Goal, fatVars
  <2>2. rd'.ret = rd.ret
    <3>1. rd \in [h : Handles, left : Nat, out : Seq(Units), ret : {"none", "entry", "copy"}]
      BY <1>0 DEF ReturnsOK
    <3>2. rd' = rd \/ \E x, y : rd' = [rd EXCEPT !.left = x, !.out = y]
      BY <1>5 DEF ReadDone, ReadMore, fatVars
    <3>. QED BY <3>1, <3>2
  <2>3. Goal' \in {"read", rd.ret}
    <3>1. \/ pc' = "read" \/ pc' = rd.ret \/ \E lba, b : Read(lba, b, "read", rd.ret)
      BY <1>5 DEF ReadDone, ReadMore
    <3>. QED BY <2>1, <3>1 DEF Read, Goal
  <2>. QED BY <2>1, <2>2, <2>3, NothingCopied
<1>6. CASE FAT_Open
  <2>1. pc = "open" /\ pc' = "find" /\ opening' \in Paths /\ kernel' = kernel
    BY <1>6 DEF FAT_Open
  <2>. QED BY <2>1 DEF OpeningOK, FreshOK, Goal
<1>7. CASE FAT_FindFile \/ FindNext
  <2>1. /\ pc \in {"find", "entry"} /\ UNCHANGED <<opening, kernel>> /\ pc' = "read"
    BY <1>7 DEF FAT_FindFile, FindNext, FAT_Read
  <2>. QED BY <2>1, NothingCopied DEF Goal
<1>8. CASE NotFound \/ Opened
  <2>1. /\ pc \in {"entry", "opened"} /\ UNCHANGED <<opening, kernel>>
        /\ pc' \in {"null", "load", "find"}
    BY <1>8 DEF NotFound, Opened
  <2>. QED BY <2>1, NothingCopied DEF Goal
<1>9. CASE Found
  <2>1. pc = "entry" /\ UNCHANGED <<opening, kernel>>
    BY <1>9 DEF Found
  <2>2. pc' = "null" \/ \E lba, b : Read(lba, b, "opened", "null")
    BY <1>9 DEF Found, FAT_OpenEntry
  <2>3. Goal' \in {"null", "opened"} /\ Goal = "entry"
    BY <2>1, <2>2 DEF Goal, Read
  <2>. QED BY <2>1, <2>3, NothingCopied
<1>10. CASE Load
  <2>1. pc = "load" /\ pc' = "read" /\ rd'.ret = "copy" /\ UNCHANGED <<opening, kernel>>
    BY <1>10 DEF Load, FAT_Read
  <2>. QED BY <2>1, NothingCopied DEF Goal
<1>11. CASE Copy
  <2>1. pc = "copy" /\ pc' \in {"jump", "load"} /\ opening' = opening
    BY <1>11 DEF Copy
  <2>. QED BY <2>1 DEF Goal, OpeningOK, FreshOK
<1>12. CASE wait_key_and_reboot /\ UNCHANGED fatVars
  <2>1. pc = "wait" /\ pc' = "power" /\ UNCHANGED <<opening, kernel>>
    BY <1>12 DEF wait_key_and_reboot, fatVars
  <2>. QED BY <2>1, NothingCopied DEF Goal
<1>13. CASE EnterKernel
  <2>1. pc' = "kernel" /\ kernel' = <<>>
    BY <1>13 DEF EnterKernel
  <2>. QED BY <2>1 DEF Goal, OpeningOK, FreshOK
<1>14. CASE UNCHANGED bootVars
  <2>1. UNCHANGED <<pc, io, rd, opening, kernel>>
    BY <1>14 DEF bootVars, diskVars, fatVars
  <2>. QED BY <2>1, NothingCopied DEF Goal
<1>. QED BY <1>1, <1>2, <1>3, <1>4, <1>5, <1>6, <1>7, <1>8, <1>9, <1>10, <1>11, <1>12, <1>13, <1>14
         DEF PowerNext, Loading, Kernel, powerVars, Next, Processor, DISK_ReadSectors, Stage2

\* Elsewhere nothing is said of files.
LEMMA Elsewhere ==
  ASSUME Goal' \notin Working \cup {"open", "jump", "null"}
  PROVE  LoadOK'
<1>1. /\ pc' \notin Working \cup {"jump", "null"}
      /\ ~(pc' = "disk" /\ io'.ok \in {"read", "opened"})
  BY DEF Goal, Working
<1>2. ~Searching' /\ ~Copying'
  BY DEF Searching, Copying, Working
<1>3. Goal' \notin {"opened", "load"}
  BY DEF Working
<1>. QED BY <1>1, <1>2, <1>3
         DEF LoadOK, RootOpen, RouteOK, StandOK, BufferOK, OutOK, KernelOK, SearchOK,
             KernelWhole, NullMeansAbsent

\* A read goes on, or the call has got all it wants; no file moves.
LEMMA Unmoved ==
  ASSUME BootInv, LoadOK, image' = image, UNCHANGED fatVars, Goal \in Working \cup {"open"},
         \/ Goal' = Goal
         \/ Goal = "read" /\ rd.left = 0 /\ rd.ret \in {"entry", "copy"} /\ Goal' = rd.ret,
         RootOpen', BufferOK'
  PROVE  LoadOK'
<1>. USE DEF Working
<1>1. UNCHANGED <<file, path, current, sought, rd, kernel, opening>>
  BY DEF fatVars
<1>2. Searching' = Searching /\ Copying' = Copying
  BY <1>1 DEF Searching, Copying
<1>3. /\ Goal' \in {"find", "opened", "load", "open"} <=> Goal' = Goal /\ Goal # "read"
                                                         /\ Goal \notin {"entry", "copy"}
      /\ Goal' \in Working => Goal \in Working
  OBVIOUS
<1>4. /\ \A p : UnitAt(p)' = UnitAt(p)
      /\ \A e : Matches(e)' = Matches(e) /\ Level1(e)' = Level1(e)
      /\ Resolved(opening)' = Resolved(opening)
  BY <1>1, SameFile
<1>5. RouteOK'
  <2>1. InRoot => InRoot' \/ Goal' \notin Working
    BY <1>1, <1>2, <1>3 DEF InRoot
  <2>2. InDirectory => InDirectory' \/ Goal' \notin Working
    BY <1>1, <1>2, <1>3, <1>4 DEF InDirectory
  <2>3. InFile => InFile' \/ Goal' \notin Working
    BY <1>1, <1>2, <1>3, <1>4 DEF InFile
  <2>. QED BY <1>3, <2>1, <2>2, <2>3 DEF LoadOK, RouteOK
<1>6. StandOK'
  <2>1. \A first, n : Cluster(first, n)' = Cluster(first, n)
    BY ImageFixed
  <2>2. Clusters' = Clusters
    BY ImageFixed
  <2>. QED BY <1>1, <1>3, <2>1, <2>2 DEF LoadOK, StandOK
<1>7. OutOK'
  <2>1. rd.left \in Nat /\ Len(rd.out) \in Nat
    BY Facts
  <2>2. Goal' \in {"opened", "load"} => rd'.out = <<>>
    BY <1>1, <1>3 DEF LoadOK, OutOK
  <2>. DEFINE f == file[current]
              n == Len(rd.out)
  <2>3. Searching \/ Copying =>
          /\ n <= f.Position
          /\ \A i \in 1 .. n : rd.out[i] = UnitAt(f.Position - n + i - 1)
          /\ Searching => n + (IF Goal = "read" THEN rd.left ELSE 0) <= 1
          /\ n = 0 /\ (Goal = "read" => rd.left = 0) => Limited(f) /\ f.Position = f.Size
    BY DEF LoadOK, OutOK
  <2>. HIDE DEF f, n
  <2>4. Searching \/ Copying =>
          /\ n <= f.Position
          /\ \A i \in 1 .. n : rd.out[i] = UnitAt(f.Position - n + i - 1)
          /\ Searching => n + (IF Goal' = "read" THEN rd.left ELSE 0) <= 1
          /\ n = 0 /\ (Goal' = "read" => rd.left = 0) => Limited(f) /\ f.Position = f.Size
    <3>1. n \in Nat
      BY <2>1 DEF n
    <3>. QED BY <2>1, <2>3, <3>1
  <2>. QED BY <1>1, <1>2, <1>4, <2>2, <2>4 DEF OutOK, Limited, f, n
<1>8. KernelOK'
  BY <1>1, <1>2, <1>3, <1>4 DEF LoadOK, KernelOK
<1>9. SearchOK'
  BY <1>1, <1>2, <1>4, ImageFixed DEF LoadOK, SearchOK
<1>10. pc' \notin {"jump", "null"}
  BY DEF Goal
<1>. QED BY <1>5, <1>6, <1>7, <1>8, <1>9, <1>10 DEF LoadOK, KernelWhole, NullMeansAbsent

\* A read has arrived: the sector asked for is in its buffer.
LEMMA ArriveLoads ==
  BootInv /\ LoadInv /\ Arrive /\ UNCHANGED fatVars /\ Healthy' => LoadOK'
<1>. SUFFICES ASSUME BootInv, LoadInv, Arrive, UNCHANGED fatVars, Healthy' PROVE LoadOK'
  OBVIOUS
<1>0. ReturnsOK /\ IoTypeOK
  BY DEF BootInv, BootTypeOK
<1>1. /\ pc = "disk" /\ pc' = io.ok /\ image' = image /\ geom' = geom /\ failed' = failed
      /\ buf' = [buf EXCEPT ![io.buf] = SectorAt(LBA2CHS(geom, io.lba))]
      /\ OnFloppy(LBA2CHS(geom, io.lba))
  BY DEF Arrive
<1>2. Goal' = Goal /\ pc' = Goal /\ Goal = io.ok /\ pc' # "disk"
  BY <1>0, <1>1 DEF Goal, ReturnsOK
<1>3. CASE Goal \notin Working \cup {"open"}
  <2>1. Goal \notin {"jump", "null"}
    BY <1>0, <1>1, <1>2 DEF ReturnsOK
  <2>. QED BY <1>2, <1>3, <2>1, Elsewhere
<1>4. CASE Goal \in Working \cup {"open"}
  <2>1. LoadOK /\ geom = Floppy
    BY <1>1 DEF LoadInv, Healthy
  <2>2. Goal \in {"read", "opened", "open"}
    BY <1>0, <1>1, <1>2, <1>4 DEF ReturnsOK, Working
  <2>3. io.lba \in Nat /\ io.buf \in Buffers /\ buf \in [Buffers -> Lbas \cup {Junk}]
    BY <1>0, Facts DEF IoTypeOK
  <2>4. buf'[io.buf] = io.lba
    <3>1. SectorAt(LBA2CHS(Floppy, io.lba)) = io.lba
      BY <1>1, <2>1, <2>3, FoundThere
    <3>. QED BY <1>1, <2>1, <2>3, <3>1
  <2>5. UNCHANGED <<file, current, opening>>
    BY DEF fatVars
  <2>6. RootOpen'
    BY <1>1, <1>2, <2>1, <2>4, <2>5 DEF LoadOK, RootOpen
  <2>7. Standing' = Standing
    BY <1>1, <2>5, SameFile DEF Standing
  <2>8. BufferOK'
    BY <1>1, <1>2, <2>1, <2>2, <2>4, <2>5, <2>7 DEF LoadOK, BufferOK, Working
  <2>. QED BY <1>1, <1>2, <1>4, <2>1, <2>6, <2>8, Unmoved
<1>. QED BY <1>3, <1>4

\* A read is tried again.
LEMMA RetryLoads ==
  BootInv /\ LoadInv /\ Retry /\ UNCHANGED fatVars /\ Healthy' => LoadOK'
<1>. SUFFICES ASSUME BootInv, LoadInv, Retry, UNCHANGED fatVars, Healthy' PROVE LoadOK'
  OBVIOUS
<1>0. ReturnsOK /\ IoTypeOK
  BY DEF BootInv, BootTypeOK
<1>1. pc = "disk" /\ pc' = pc /\ io' = [io EXCEPT !.tries = @ + 1] /\ UNCHANGED <<image, geom, failed>>
  BY DEF Retry, Fault, Healthy
<1>2. io'.ok = io.ok /\ io'.lba = io.lba /\ io'.buf = io.buf /\ Goal' = Goal /\ Goal = io.ok
  BY <1>0, <1>1 DEF IoTypeOK, Goal
<1>3. CASE Goal \notin Working \cup {"open"}
  <2>1. Goal \notin {"jump", "null"}
    BY <1>0, <1>1, <1>2 DEF ReturnsOK
  <2>. QED BY <1>2, <1>3, <2>1, Elsewhere
<1>4. CASE Goal \in Working \cup {"open"}
  <2>1. LoadOK
    BY <1>1 DEF LoadInv, Healthy
  <2>2. UNCHANGED <<file, current, opening>>
    BY DEF fatVars
  <2>3. RootOpen'
    BY <1>1, <1>2, <2>1, <2>2 DEF LoadOK, RootOpen
  <2>4. Standing' = Standing
    BY <1>1, <2>2, SameFile DEF Standing
  <2>5. BufferOK'
    BY <1>1, <1>2, <2>1, <2>2, <2>4 DEF LoadOK, BufferOK, Working
  <2>. QED BY <1>1, <1>2, <1>4, <2>1, <2>3, <2>5, Unmoved
<1>. QED BY <1>3, <1>4

\* A call of FAT_Read returns.
LEMMA ReadDoneLoads == BootInv /\ LoadInv /\ ReadDone /\ Healthy' => LoadOK'
<1>. SUFFICES ASSUME BootInv, LoadInv, ReadDone, Healthy' PROVE LoadOK'
  OBVIOUS
<1>1. /\ pc = "read" /\ pc' = rd.ret /\ rd.left = 0 /\ UNCHANGED fatVars
      /\ UNCHANGED <<image, geom, buf, io, failed>>
  BY DEF ReadDone, KeepDisk
<1>2. rd.ret \in {"entry", "copy"} /\ Goal = "read" /\ Goal' = rd.ret
  BY <1>1 DEF BootInv, ReturnsOK, Goal
<1>3. LoadOK
  BY <1>1 DEF LoadInv, Healthy
<1>4. UNCHANGED <<file, current, opening>>
  BY <1>1 DEF fatVars
<1>5. RootOpen'
  BY <1>2 DEF RootOpen
<1>6. Standing' = Standing
  BY <1>1, <1>4, SameFile DEF Standing
<1>7. BufferOK'
  BY <1>1, <1>2, <1>3, <1>4, <1>6 DEF LoadOK, BufferOK, Working, Limited
<1>. QED BY <1>1, <1>2, <1>3, <1>5, <1>7, Unmoved DEF Working

\* The root directory is opened.
LEMMA OpenRootLoads == BootInv /\ OpenRoot => LoadOK'
<1>. SUFFICES ASSUME BootInv, OpenRoot PROVE LoadOK'
  OBVIOUS
<1>1. Goal' = "open" /\ pc' = "disk" /\ io'.buf = ROOT_DIRECTORY_HANDLE /\ io'.lba = RootLba
      /\ io'.ok = "open"
  BY DEF OpenRoot, Read, Goal
<1>. DEFINE g(n, c) == [Closed EXCEPT !.Opened = TRUE, !.IsDirectory = TRUE, !.Size = n,
                                      !.FirstCluster = c, !.CurrentCluster = c]
            f == g(DirEntryCount, RootLba)
<1>2. /\ f.FirstCluster = RootLba /\ f.IsDirectory /\ f.Size = DirEntryCount
      /\ f.CurrentCluster = RootLba /\ f.Position = 0
  <2>1. \A n, c : /\ g(n, c).FirstCluster = c /\ g(n, c).IsDirectory /\ g(n, c).Size = n
                  /\ g(n, c).CurrentCluster = c /\ g(n, c).Position = 0
    BY DEF Closed
  <2>. HIDE DEF g
  <2>. QED BY <2>1
<1>3. file'[ROOT_DIRECTORY_HANDLE] = f
  BY Constants DEF OpenRoot
<1>. HIDE DEF f
<1>4. RootOpen'
  BY <1>1, <1>2, <1>3 DEF RootOpen
<1>. QED BY <1>1, <1>4
         DEF LoadOK, RouteOK, StandOK, BufferOK, OutOK, KernelOK, SearchOK, Working, Searching, Copying,
             KernelWhole, NullMeansAbsent

\* FAT_Open begins in the root directory.
LEMMA OpenLoads == BootInv /\ LoadOK /\ FAT_Open => LoadOK'
<1>. SUFFICES ASSUME BootInv, LoadOK, FAT_Open PROVE LoadOK'
  OBVIOUS
<1>1. /\ pc = "open" /\ pc' = "find" /\ current' = ROOT_DIRECTORY_HANDLE /\ path' = opening'
      /\ UNCHANGED <<image, buf, file>>
  BY DEF FAT_Open, KeepDisk
<1>2. Goal = "open" /\ Goal' = "find"
  BY <1>1 DEF Goal
<1>. DEFINE f == file[ROOT_DIRECTORY_HANDLE]
<1>3. /\ f.FirstCluster = RootLba /\ f.IsDirectory /\ f.Size = DirEntryCount
      /\ f.CurrentCluster = RootLba /\ f.Position = 0 /\ buf[ROOT_DIRECTORY_HANDLE] = RootLba
  BY <1>1, <1>2 DEF LoadOK, RootOpen
<1>4. file'[current'] = f /\ ~(current' >= 0)
  BY <1>1, Constants
<1>5. RootLba + (0 \div SectorSize) = RootLba
  <2>1. SectorSize \in Nat \ {0} /\ RootLba \in Nat
    BY Areas
  <2>2. 0 = 0 * SectorSize + 0 /\ 0 \in 0 .. SectorSize - 1
    BY <2>1
  <2>3. (0 * SectorSize + 0) \div SectorSize = 0
    BY <2>1, <2>2, Quotient
  <2>. QED BY <2>1, <2>2, <2>3
<1>. HIDE DEF f
<1>6. RouteOK'
  BY <1>1, <1>2, <1>3, <1>4 DEF RouteOK, InRoot
<1>7. StandOK'
  BY <1>1, <1>2, <1>3, <1>4, <1>5 DEF StandOK
<1>8. BufferOK'
  <2>1. Standing' = RootLba + (0 \div SectorSize)
    BY <1>1, <1>3, <1>4 DEF Standing, UnitAt, Unit, Here
  <2>. QED BY <1>1, <1>3, <1>5, <2>1 DEF BufferOK
<1>. QED BY <1>1, <1>2, <1>6, <1>7, <1>8
         DEF LoadOK, RootOpen, OutOK, KernelOK, SearchOK, Working, Searching, Copying,
             KernelWhole, NullMeansAbsent

\* FAT_Read is called: nothing is delivered yet.
LEMMA CallLoads ==
  ASSUME BootInv, LoadOK, KeepDisk, UNCHANGED <<file, current, opening>>,
         pc \in {"find", "entry", "load"}, NEW count \in Nat \ {0}, NEW ret \in {"entry", "copy"},
         FAT_Read(current, count, ret), ret = "entry" => count = 1,
         RouteOK', KernelOK', SearchOK'
  PROVE  LoadOK'
<1>. DEFINE f == file[current]
            left == IF Limited(f) THEN Least(count, f.Size - f.Position) ELSE count
<1>1. /\ rd' = [h |-> current, out |-> <<>>, ret |-> ret, left |-> left]
      /\ pc' = "read" /\ image' = image /\ buf' = buf
  BY DEF FAT_Read, Limited, KeepDisk
<1>2. Goal = pc /\ Goal' = "read"
  BY <1>1 DEF Goal
<1>3. f.Size \in Nat /\ f.Position \in Nat /\ (Limited(f) => f.Position <= f.Size)
  BY Facts
<1>. HIDE DEF f
<1>4. left <= count /\ left \in Nat /\ (left = 0 => Limited(f) /\ f.Position = f.Size)
  BY <1>3 DEF Least
<1>. HIDE DEF left
<1>5. rd'.out = <<>> /\ rd'.left = left /\ rd'.ret = ret /\ Len(rd'.out) = 0
  BY <1>1
<1>6. \A p : UnitAt(p)' = UnitAt(p)
  BY <1>1, SameFile
<1>7. StandOK'
  <2>1. \A first, n : Cluster(first, n)' = Cluster(first, n)
    BY <1>1, ImageFixed
  <2>2. Clusters' = Clusters
    BY <1>1, ImageFixed
  <2>. QED BY <1>2, <2>1, <2>2 DEF LoadOK, StandOK, Working
<1>8. BufferOK'
  BY <1>1, <1>2, <1>6 DEF LoadOK, BufferOK, Working, Standing, Limited
<1>9. OutOK'
  BY <1>2, <1>3, <1>4, <1>5 DEF OutOK, Searching, Limited, f
<1>. QED BY <1>1, <1>2, <1>7, <1>8, <1>9 DEF LoadOK, RootOpen, KernelWhole, NullMeansAbsent

\* FAT_FindFile begins with the first entry, or goes on with the next.
LEMMA FindLoads ==
  BootInv /\ OpeningOK /\ LoadOK /\ (FAT_FindFile \/ FindNext) => LoadOK'
<1>. SUFFICES ASSUME BootInv, OpeningOK, LoadOK, FAT_FindFile \/ FindNext PROVE LoadOK'
  OBVIOUS
<1>1. /\ pc \in {"find", "entry"} /\ pc' = "read" /\ FAT_Read(current, 1, "entry")
      /\ KeepDisk /\ UNCHANGED <<file, current, kernel, opening>>
      /\ rd'.out = <<>> /\ rd'.ret = "entry" /\ image' = image
  BY DEF FAT_FindFile, FindNext, FAT_Read, KeepDisk
<1>2. Goal = pc /\ Goal' = "read" /\ Searching' /\ ~Copying'
  BY <1>1 DEF Goal, Searching, Copying
<1>3. opening \in Paths
  BY <1>1, <1>2 DEF OpeningOK, Working
<1>4. /\ Len(opening) \in 1 .. 2 /\ opening \in Seq(STRING)
  BY <1>3, FatAssumption DEF FatAssumption
<1>5. /\ \A p : UnitAt(p)' = UnitAt(p)
      /\ \A e : Matches(e)' = Matches(e) /\ Level1(e)' = Level1(e)
  BY <1>1, SameFile
<1>6. CASE FAT_FindFile
  <2>1. /\ pc = "find" /\ path' = Tail(path) /\ sought' \in {Head(path), "garbled"}
    BY <1>6 DEF FAT_FindFile
  <2>2. RouteOK'
    <3>1. CASE InRoot
      <4>1. path = opening
        BY <1>2, <2>1, <3>1 DEF InRoot, Searching
      <4>2. Head(opening) = opening[1]
        BY <1>4
      <4>3. InRoot'
        BY <1>1, <1>2, <2>1, <3>1, <4>1, <4>2 DEF InRoot
      <4>. QED BY <4>3 DEF RouteOK
    <3>2. CASE InDirectory
      <4>1. path = Tail(opening) /\ Len(opening) = 2
        BY <1>2, <2>1, <3>2 DEF InDirectory, Searching
      <4>2. Head(path) = opening[2] /\ Tail(path) = <<>>
        <5>1. path \in Seq(STRING) /\ Len(path) = 1 /\ path[1] = opening[2]
          BY <1>4, <4>1
        <5>2. \A s \in Seq(STRING) : Len(s) = 1 => Head(s) = s[1] /\ Tail(s) \in Seq(STRING)
                                                 /\ Len(Tail(s)) = 0
          OBVIOUS
        <5>3. \A s \in Seq(STRING) : Len(s) = 0 => s = <<>>
          OBVIOUS
        <5>. QED BY <5>1, <5>2, <5>3
      <4>3. InDirectory'
        BY <1>1, <1>2, <1>5, <2>1, <3>2, <4>2 DEF InDirectory
      <4>. QED BY <4>3 DEF RouteOK
    <3>3. ~InFile
      BY <1>2, <2>1 DEF InFile, Copying
    <3>. QED BY <1>2, <2>1, <3>1, <3>2, <3>3 DEF LoadOK, RouteOK, Working
  <2>3. SearchOK'
    <3>1. file'[current'].Position = 0 /\ Len(rd'.out) = 0
      BY <1>1, <1>2, <2>1 DEF LoadOK, StandOK, Working
    <3>2. \A q \in Nat : ~(q < 0 - 0)
      OBVIOUS
    <3>. QED BY <3>1, <3>2 DEF SearchOK
  <2>4. KernelOK'
    BY <1>2 DEF KernelOK
  <2>. QED BY <1>1, <2>2, <2>3, <2>4, CallLoads
<1>7. CASE FindNext
  <2>1. /\ pc = "entry" /\ rd.out # <<>> /\ EntryAt(rd.out[1]).name # sought
        /\ UNCHANGED <<path, sought>>
    BY <1>7 DEF FindNext
  <2>2. RouteOK'
    <3>1. InRoot => InRoot'
      BY <1>1, <1>2, <2>1 DEF InRoot
    <3>2. InDirectory => InDirectory'
      BY <1>1, <1>2, <1>5, <2>1 DEF InDirectory
    <3>3. ~InFile
      BY <1>2, <2>1 DEF InFile, Copying
    <3>. QED BY <1>2, <2>1, <3>1, <3>2, <3>3 DEF LoadOK, RouteOK, Working
  <2>3. SearchOK'
    <3>. DEFINE p == file[current].Position
    <3>1. p \in Nat /\ rd.out \in Seq(Units)
      BY Facts
    <3>2. Searching
      BY <1>2, <2>1 DEF Searching
    <3>3. /\ Len(rd.out) <= p /\ Len(rd.out) <= 1
          /\ \A i \in 1 .. Len(rd.out) : rd.out[i] = UnitAt(p - Len(rd.out) + i - 1)
      <4>1. /\ Len(rd.out) <= p /\ Len(rd.out) + (IF Goal = "read" THEN rd.left ELSE 0) <= 1
            /\ \A i \in 1 .. Len(rd.out) : rd.out[i] = UnitAt(p - Len(rd.out) + i - 1)
        BY <3>2 DEF LoadOK, OutOK
      <4>. QED BY <1>2, <2>1, <3>1, <4>1
    <3>4. Len(rd.out) = 1
      <4>1. \A s \in Seq(Units) : s # <<>> => Len(s) \in Nat /\ Len(s) >= 1
        OBVIOUS
      <4>. DEFINE n == Len(rd.out)
      <4>2. n \in Nat /\ n >= 1 /\ n <= 1
        BY <2>1, <3>1, <3>3, <4>1
      <4>. HIDE DEF n
      <4>3. n = 1
        BY <4>2
      <4>. QED BY <4>3 DEF n
    <3>5. rd.out[1] = UnitAt(p - 1)
      <4>1. 1 \in 1 .. Len(rd.out) /\ p - Len(rd.out) + 1 - 1 = p - 1
        BY <3>1, <3>4
      <4>. QED BY <3>3, <4>1
    <3>6. \A q \in Nat : q < p - 1 => EntryAt(UnitAt(q)).name # sought
      BY <3>2, <3>4 DEF LoadOK, SearchOK
    <3>7. \A q \in Nat : q < p => EntryAt(UnitAt(q)).name # sought
      <4>1. \A q \in Nat : q < p => q < p - 1 \/ q = p - 1
        BY <3>1
      <4>. QED BY <2>1, <3>5, <3>6, <4>1
    <3>8. \A u : EntryAt(u)' = EntryAt(u)
      BY <1>1, ImageFixed
    <3>9. p - Len(rd'.out) = p /\ file'[current'].Position = p
      BY <1>1, <3>1
    <3>. HIDE DEF p
    <3>. QED BY <1>5, <2>1, <3>7, <3>8, <3>9 DEF SearchOK
  <2>4. KernelOK'
    BY <1>2 DEF KernelOK
  <2>. QED BY <1>1, <2>2, <2>3, <2>4, CallLoads
<1>. QED BY <1>6, <1>7

\* start() calls FAT_Read.
LEMMA LoadLoads == BootInv /\ LoadOK /\ Load => LoadOK'
<1>. SUFFICES ASSUME BootInv, LoadOK, Load PROVE LoadOK'
  OBVIOUS
<1>1. /\ pc = "load" /\ pc' = "read" /\ FAT_Read(current, LoadSize, "copy")
      /\ KeepDisk /\ UNCHANGED <<file, path, current, kernel, opening>>
      /\ rd'.out = <<>> /\ rd'.ret = "copy" /\ image' = image
  BY DEF Load, FAT_Read, KeepDisk
<1>2. Goal = "load" /\ Goal' = "read" /\ ~Searching' /\ Copying'
  BY <1>1 DEF Goal, Searching, Copying
<1>3. /\ \A p : UnitAt(p)' = UnitAt(p)
      /\ \A e : Matches(e)' = Matches(e)
      /\ Resolved(opening)' = Resolved(opening)
  BY <1>1, SameFile
<1>4. InFile
  BY <1>2 DEF LoadOK, RouteOK, Working, InRoot, InDirectory, Searching
<1>5. RouteOK'
  <2>1. InFile'
    BY <1>1, <1>2, <1>3, <1>4 DEF InFile
  <2>. QED BY <2>1 DEF RouteOK
<1>6. KernelOK'
  <2>1. rd.out = <<>>
    BY <1>2 DEF LoadOK, OutOK
  <2>2. /\ Len(kernel) + Len(rd.out) = file[current].Position
        /\ \A i \in 1 .. Len(kernel) : kernel[i] = UnitAt(i - 1)
    BY <1>2 DEF LoadOK, KernelOK
  <2>. QED BY <1>1, <1>3, <2>1, <2>2 DEF KernelOK
<1>7. SearchOK'
  BY <1>2 DEF SearchOK
<1>8. LoadSize \in Nat \ {0}
  BY FatAssumption DEF FatAssumption
<1>. QED BY <1>1, <1>5, <1>6, <1>7, <1>8, CallLoads

-----------------------------------------------------------------------------
(* FAT_Read.                                                               *)

\* The file in use is the root directory, or it is that of an entry.
LEMMA InUse ==
  ASSUME BootInv, RouteOK, Goal \in Working
  PROVE  /\ current = ROOT_DIRECTORY_HANDLE =>
              /\ file[current].FirstCluster = RootLba
              /\ file[current].IsDirectory /\ file[current].Size = DirEntryCount
         /\ current >= 0 =>
              /\ file[current].FirstCluster \in Clusters
              /\ \E u \in DOMAIN image.entries : Matches(image.entries[u])
<1>1. /\ image \in Images
      /\ current = ROOT_DIRECTORY_HANDLE <=> ~(current >= 0)
  BY Facts
<1>2. CASE InRoot
  BY <1>1, <1>2 DEF InRoot
<1>3. CASE InDirectory \/ InFile
  <2>1. PICK e : Matches(e)
    BY <1>3 DEF InDirectory, InFile
  <2>2. PICK u \in DOMAIN image.entries : e = image.entries[u] /\ file[current].FirstCluster = e.first
    BY <2>1 DEF Matches
  <2>3. image.entries[u].first \in Clusters
    BY <1>1, EntryFacts
  <2>. QED BY <1>1, <1>3, <2>1, <2>2, <2>3 DEF InDirectory, InFile
<1>. QED BY <1>2, <1>3 DEF RouteOK

\* What a step of FAT_Read delivers, and where it stands before it.
LEMMA Delivered ==
  ASSUME BootInv, LoadOK, ReadMore
  PROVE  LET f == file[current]
             take == Least(rd.left, SectorSize - (f.Position % SectorSize))
         IN /\ pc = "read" /\ Goal = "read" /\ rd.h = current /\ rd.ret \in {"entry", "copy"}
            /\ take \in Nat \ {0} /\ take <= rd.left
            /\ (f.Position % SectorSize) + take <= SectorSize
            /\ rd' = [rd EXCEPT !.left = rd.left - take,
                                !.out = rd.out \o [i \in 1 .. take |-> UnitAt(f.Position + i - 1)]]
            /\ Limited(f) => f.Position + take <= f.Size
            /\ current >= 0 =>
                 /\ f.FirstCluster \in Clusters /\ f.CurrentCluster \in Clusters
                 /\ f.CurrentCluster = Cluster(f.FirstCluster, f.Position \div SectorSize)
            /\ current = ROOT_DIRECTORY_HANDLE =>
                 f.CurrentCluster = RootLba + (f.Position \div SectorSize)
<1>. DEFINE f == file[current]
            p == f.Position
            o == p % SectorSize
            a == p \div SectorSize
            take == Least(rd.left, SectorSize - o)
            units == [i \in 1 .. take |-> <<buf[current], o + i - 1>>]
<1>0. ReturnsOK /\ PositionsOK
  BY DEF BootInv
<1>1. /\ pc = "read" /\ rd.left > 0 /\ Goal = "read" /\ rd.h = current /\ rd.ret \in {"entry", "copy"}
  BY <1>0 DEF ReadMore, ReturnsOK, Goal
<1>2. /\ p \in Nat /\ f.Size \in Nat /\ rd.left \in Nat /\ SectorSize \in Nat \ {0}
      /\ current \in Handles /\ image \in Images
      /\ current = ROOT_DIRECTORY_HANDLE <=> ~(current >= 0)
  BY Facts, Areas
<1>3. Limited(f) => rd.left <= f.Size - p
  BY <1>0, <1>1 DEF PositionsOK
<1>4. rd' = [rd EXCEPT !.left = rd.left - take, !.out = rd.out \o units]
  BY <1>1 DEF ReadMore
<1>5. o \in 0 .. SectorSize - 1 /\ a \in Nat
  BY <1>2
<1>6. ~(Limited(f) /\ p = f.Size)
  <2>. HIDE DEF f, p
  <2>. QED BY <1>1, <1>2, <1>3
<1>7. buf[current] = UnitAt(p)[1]
  BY <1>1, <1>6 DEF LoadOK, BufferOK, Working, Standing
<1>8. UnitAt(p)[1] = Here(current, f.FirstCluster, p)
  BY DEF UnitAt, Unit
<1>9. /\ current = ROOT_DIRECTORY_HANDLE => f.CurrentCluster = RootLba + a
      /\ current >= 0 => /\ f.FirstCluster \in Clusters
                         /\ f.CurrentCluster = Cluster(f.FirstCluster, a)
  <2>1. RouteOK /\ StandOK
    BY DEF LoadOK
  <2>2. current >= 0 => f.FirstCluster \in Clusters
    BY <1>1, <2>1, InUse DEF Working
  <2>. QED BY <1>1, <1>2, <1>6, <2>1, <2>2 DEF StandOK, Working
<1>10. current >= 0 => f.CurrentCluster \in Clusters
  BY <1>0, <1>2, <1>6 DEF PositionsOK
<1>. HIDE DEF units
<1>11. take \in Nat \ {0} /\ take <= rd.left /\ o + take <= SectorSize
  <2>. HIDE DEF o
  <2>. QED BY <1>1, <1>2, <1>5 DEF Least
<1>12. Limited(f) => p + take <= f.Size
  <2>. HIDE DEF take, p, f
  <2>. QED BY <1>2, <1>3, <1>11
<1>13. units = [i \in 1 .. take |-> UnitAt(p + i - 1)]
  <2>. SUFFICES ASSUME NEW i \in 1 .. take
                PROVE  <<buf[current], o + i - 1>> = UnitAt(p + i - 1)
    BY DEF units
  <2>. HIDE DEF take, p
  <2>0. i - 1 \in Nat /\ i <= take
    BY <1>11
  <2>1. (p + (i - 1)) \div SectorSize = a /\ (p + (i - 1)) % SectorSize = o + (i - 1)
    <3>1. o + (i - 1) < SectorSize
      <4>. HIDE DEF o
      <4>. QED BY <1>2, <1>5, <1>11, <2>0
    <3>. QED BY <1>2, <2>0, <3>1, InSector
  <2>2. p + (i - 1) = p + i - 1 /\ o + (i - 1) = o + i - 1
    <3>. HIDE DEF o
    <3>. QED BY <1>2, <1>5, <2>0
  <2>3. (p + i - 1) \div SectorSize = a /\ (p + i - 1) % SectorSize = o + i - 1
    <3>. DEFINE q == p + i - 1
                s == o + i - 1
    <3>. HIDE DEF q, s, o, a
    <3>. QED BY <2>1, <2>2 DEF q, s
  <2>4. Here(current, f.FirstCluster, p + i - 1) = Here(current, f.FirstCluster, p)
    BY <2>3 DEF Here
  <2>5. UnitAt(p + i - 1) = <<Here(current, f.FirstCluster, p + i - 1), (p + i - 1) % SectorSize>>
    BY DEF UnitAt, Unit
  <2>. HIDE DEF o, a, f
  <2>. QED BY <1>7, <1>8, <2>3, <2>4, <2>5
<1>14. rd' = [rd EXCEPT !.left = rd.left - take,
                        !.out = rd.out \o [i \in 1 .. take |-> UnitAt(p + i - 1)]]
  <2>. HIDE DEF take, p
  <2>. QED BY <1>4, <1>13
<1>. QED BY <1>1, <1>9, <1>10, <1>11, <1>12, <1>14

\* One sequence behind another.
LEMMA Joined ==
  ASSUME NEW T, NEW s \in Seq(T), NEW t \in Seq(T)
  PROVE  /\ Len(s \o t) = Len(s) + Len(t)
         /\ \A i \in 1 .. Len(s) : (s \o t)[i] = s[i]
         /\ \A i \in 1 .. Len(t) : (s \o t)[Len(s) + i] = t[i]
OBVIOUS

\* The file in use has moved on by the units delivered.
LEMMA Moved ==
  ASSUME BootInv, LoadOK, NEW take \in Nat \ {0}, NEW g \in FileType,
         Goal = "read", rd.ret \in {"entry", "copy"}, take <= rd.left,
         rd' = [rd EXCEPT !.left = rd.left - take,
                          !.out = rd.out \o [i \in 1 .. take |-> UnitAt(file[current].Position + i - 1)]],
         UNCHANGED <<image, path, current, sought, kernel, opening>>,
         file' = [file EXCEPT ![current] = g],
         g.FirstCluster = file[current].FirstCluster, g.IsDirectory = file[current].IsDirectory,
         g.Position = file[current].Position + take,
         \/ g.Size = file[current].Size
         \/ /\ current >= 0 /\ g.IsDirectory
            /\ \E n \in Nat : HasLength(image, g.FirstCluster, n) /\ g.Size = n * SectorSize,
         Goal' \in {"read", rd.ret}, StandOK', BufferOK'
  PROVE  LoadOK'
<1>. DEFINE f == file[current]
            p == f.Position
            n == Len(rd.out)
            more == [i \in 1 .. take |-> UnitAt(p + i - 1)]
<1>0. /\ p \in Nat /\ n \in Nat /\ rd.left \in Nat /\ file'[current'] = g /\ rd.out \in Seq(Units)
      /\ current = ROOT_DIRECTORY_HANDLE <=> ~(current >= 0)
  <2>1. file \in [Handles -> FileType] /\ current \in Handles
    BY Facts
  <2>2. file'[current'] = g
    BY <2>1
  <2>. QED BY <2>2, Facts
<1>1. /\ \A q : UnitAt(q)' = UnitAt(q)
      /\ \A e : Level1(e)' = Level1(e)
      /\ Resolved(opening)' = Resolved(opening)
      /\ \A u : EntryAt(u)' = EntryAt(u)
  BY <1>0, ImageFixed DEF UnitAt, Level1
<1>2. rd' = [rd EXCEPT !.left = rd.left - take, !.out = rd.out \o more]
  OBVIOUS
<1>. HIDE DEF more
<1>3. rd'.ret = rd.ret /\ rd'.left = rd.left - take /\ rd'.out = rd.out \o more
  <2>1. rd \in [h : Handles, left : Nat, out : Seq(Units), ret : {"none", "entry", "copy"}]
    BY DEF BootInv, ReturnsOK
  <2>. QED BY <1>2, <2>1
<1>4. /\ Len(rd'.out) = n + take
      /\ \A i \in 1 .. n : rd'.out[i] = rd.out[i]
      /\ \A i \in 1 .. take : rd'.out[n + i] = UnitAt(p + i - 1)
  <2>. DEFINE S == rd.out
  <2>1. S \in Seq(Units) /\ n = Len(S)
    BY <1>0
  <2>. DEFINE T == {UnitAt(p + i - 1) : i \in 1 .. take} \cup Units
  <2>2. more \in Seq(T) /\ Len(more) = take /\ S \in Seq(T)
    <3>1. \A i \in 1 .. take : more[i] \in T
      BY DEF more
    <3>2. more \in Seq(T) /\ Len(more) = take
      <4>. HIDE DEF T
      <4>. QED BY <3>1 DEF more
    <3>3. \A i \in 1 .. Len(S) : S[i] \in T
      BY <2>1
    <3>4. S \in Seq(T)
      <4>. HIDE DEF T, S
      <4>. QED BY <2>1, <3>3
    <3>. QED BY <3>2, <3>4
  <2>. HIDE DEF S, T, n
  <2>3. /\ Len(S \o more) = n + take
        /\ \A i \in 1 .. n : (S \o more)[i] = S[i]
        /\ \A i \in 1 .. take : (S \o more)[n + i] = more[i]
    <3>1. /\ Len(S \o more) = Len(S) + Len(more)
          /\ \A i \in 1 .. Len(S) : (S \o more)[i] = S[i]
          /\ \A i \in 1 .. Len(more) : (S \o more)[Len(S) + i] = more[i]
      BY <2>2, Joined, Zenon
    <3>. QED BY <2>1, <2>2, <3>1, Zenon
  <2>4. \A i \in 1 .. take : more[i] = UnitAt(p + i - 1)
    BY DEF more
  <2>. QED BY <1>3, <2>3, <2>4 DEF S
<1>5. Searching' = Searching /\ Copying' = Copying /\ Goal' \in Working /\ Goal \in Working
      /\ (Searching => ~Copying) /\ (Searching \/ Copying)
  BY <1>3 DEF Searching, Copying, Working
<1>6. RouteOK'
  <2>1. \A e : Matches(e) => Matches(e)'
    <3>. SUFFICES ASSUME NEW e, Matches(e) PROVE Matches(e)'
      OBVIOUS
    <3>1. /\ e \in {image.entries[u] : u \in DOMAIN image.entries}
          /\ f.FirstCluster = e.first /\ f.IsDirectory = e.dir
          /\ \/ f.Size = e.size
             \/ e.dir /\ \E i \in Nat : HasLength(image, e.first, i) /\ f.Size = i * SectorSize
      BY DEF Matches
    <3>2. \A m, c, i : HasLength(m, c, i)' = HasLength(m, c, i)
      BY DEF HasLength, ClusterOf
    <3>3. e \in {image.entries[u] : u \in DOMAIN image.entries}'
      BY <3>1
    <3>4. CASE g.Size = f.Size
      BY <1>0, <3>1, <3>3, <3>4 DEF Matches
    <3>5. CASE /\ g.IsDirectory
               /\ \E i \in Nat : HasLength(image, g.FirstCluster, i) /\ g.Size = i * SectorSize
      BY <1>0, <3>1, <3>3, <3>5 DEF Matches
    <3>. QED BY <3>4, <3>5
  <2>2. InRoot => InRoot'
    BY <1>0, <1>5 DEF InRoot
  <2>3. InDirectory => InDirectory'
    BY <1>1, <1>5, <2>1 DEF InDirectory
  <2>4. InFile => InFile'
    BY <1>1, <1>5, <2>1 DEF InFile
  <2>. QED BY <1>5, <2>2, <2>3, <2>4 DEF LoadOK, RouteOK
<1>7. OutOK'
  <2>1. /\ n <= p
        /\ \A i \in 1 .. n : rd.out[i] = UnitAt(p - n + i - 1)
        /\ Searching => n + rd.left <= 1
    BY <1>5 DEF LoadOK, OutOK
  <2>. HIDE DEF n, p
  <2>2. /\ n + take <= p + take /\ n + take # 0
        /\ Searching => n + take + (IF Goal' = "read" THEN rd.left - take ELSE 0) <= 1
    BY <1>0, <2>1
  <2>3. \A i \in 1 .. n + take : rd'.out[i] = UnitAt((p + take) - (n + take) + i - 1)
    <3>. SUFFICES ASSUME NEW i \in 1 .. n + take
                  PROVE  rd'.out[i] = UnitAt((p + take) - (n + take) + i - 1)
      OBVIOUS
    <3>1. (p + take) - (n + take) + i - 1 = p - n + i - 1
      BY <1>0
    <3>2. CASE i \in 1 .. n
      BY <1>4, <2>1, <3>1, <3>2
    <3>3. CASE i \notin 1 .. n
      <4>1. i - n \in 1 .. take /\ n + (i - n) = i /\ p + (i - n) - 1 = p - n + i - 1
        BY <1>0, <3>3
      <4>2. rd'.out[n + (i - n)] = UnitAt(p + (i - n) - 1)
        BY <1>4, <4>1
      <4>. QED BY <3>1, <4>1, <4>2
    <3>. QED BY <3>2, <3>3
  <2>4. file'[current'].Position = p + take
    BY <1>0 DEF p
  <2>. QED BY <1>1, <1>3, <1>4, <1>5, <2>2, <2>3, <2>4 DEF OutOK, Working
<1>8. KernelOK'
  <2>1. Copying => Len(kernel) + n = p /\ \A i \in 1 .. Len(kernel) : kernel[i] = UnitAt(i - 1)
    BY DEF LoadOK, KernelOK
  <2>2. Len(kernel) \in Nat
    BY Facts
  <2>3. Copying => Len(kernel) + (n + take) = p + take
    <3>. HIDE DEF n, p
    <3>. QED BY <1>0, <2>1, <2>2
  <2>4. Goal' # "load" /\ file'[current'].Position = p + take
    BY <1>0
  <2>. QED BY <1>1, <1>4, <1>5, <2>1, <2>3, <2>4 DEF KernelOK
<1>9. SearchOK'
  <2>1. Searching => \A q \in Nat : q < p - n => EntryAt(UnitAt(q)).name # sought
    BY DEF LoadOK, SearchOK
  <2>2. (p + take) - (n + take) = p - n /\ file'[current'].Position = p + take
    <3>1. (p + take) - (n + take) = p - n
      <4>. HIDE DEF n, p
      <4>. QED BY <1>0
    <3>. QED BY <1>0, <3>1
  <2>. HIDE DEF n, p
  <2>. QED BY <1>1, <1>4, <1>5, <2>1, <2>2 DEF SearchOK
<1>10. pc' \notin {"jump", "null"} /\ Goal' # "open"
  BY DEF Goal
<1>. QED BY <1>6, <1>7, <1>8, <1>9, <1>10 DEF LoadOK, RootOpen, KernelWhole, NullMeansAbsent

\* The fields of a file that moves on.
LEMMA Fields ==
  ASSUME NEW f \in FileType, NEW take \in Nat
  PROVE  LET taken == Taken(f, take)
             next == Advanced(taken)
         IN /\ taken \in FileType /\ taken.Position = f.Position + take /\ taken.Size = f.Size
            /\ taken.IsDirectory = f.IsDirectory /\ taken.FirstCluster = f.FirstCluster
            /\ taken.CurrentCluster = f.CurrentCluster
            /\ FAT_NextCluster(f.CurrentCluster) \in Nat =>
                 /\ next \in FileType /\ next.Position = f.Position + take /\ next.Size = f.Size
                 /\ next.IsDirectory = f.IsDirectory /\ next.FirstCluster = f.FirstCluster
                 /\ next.CurrentCluster = FAT_NextCluster(f.CurrentCluster)
                 /\ next.CurrentSectorInCluster = 0
<1>. DEFINE taken == Taken(f, take)
            next == Advanced(taken)
            c == FAT_NextCluster(taken.CurrentCluster)
            n == f.Position + take
<1>1. n \in Nat /\ SectorsPerCluster = 1
  BY Areas DEF FileType
<1>2. taken = [f EXCEPT !.Position = n]
  BY DEF Taken
<1>. HIDE DEF n
<1>3. /\ taken \in FileType /\ taken.Position = n /\ taken.Size = f.Size
      /\ taken.IsDirectory = f.IsDirectory /\ taken.FirstCluster = f.FirstCluster
      /\ taken.CurrentCluster = f.CurrentCluster /\ taken.CurrentSectorInCluster = 0
  <2>. HIDE DEF taken
  <2>. QED BY <1>1, <1>2 DEF FileType
<1>. HIDE DEF taken
<1>4. ASSUME c \in Nat
      PROVE  /\ next \in FileType /\ next.Position = n /\ next.Size = f.Size
             /\ next.IsDirectory = f.IsDirectory /\ next.FirstCluster = f.FirstCluster
             /\ next.CurrentCluster = c /\ next.CurrentSectorInCluster = 0
  <2>1. next = [taken EXCEPT !.CurrentSectorInCluster = 0, !.CurrentCluster = c]
    BY <1>1, <1>3 DEF Advanced
  <2>. HIDE DEF next, c
  <2>. QED BY <1>1, <1>3, <1>4, <2>1 DEF FileType
<1>. QED BY <1>3, <1>4 DEF n, taken

\* A chain ends where the size of its file says; a directory's end gives it a size.
LEMMA EndOfFile ==
  ASSUME BootInv, RouteOK, Goal \in Working, current >= 0, NEW a \in Nat, NEW p \in Nat,
         LET f == file[current]
         IN /\ Cluster(f.FirstCluster, a) \in Clusters
            /\ Cluster(f.FirstCluster, a + 1) >= EndOfChain
            /\ p = (a + 1) * SectorSize
            /\ Limited(f) => p <= f.Size
            /\ f.Position < p
  PROVE  LET f == file[current]
         IN p = f.Size \/ /\ f.IsDirectory
                          /\ \E n \in Nat : HasLength(image, f.FirstCluster, n) /\ p = n * SectorSize
<1>. DEFINE f == file[current]
<1>1. PICK u \in DOMAIN image.entries : Matches(image.entries[u])
  BY InUse
<1>. DEFINE e == image.entries[u]
<1>2. /\ image \in Images /\ f.Size \in Nat /\ f.Position \in Nat /\ SectorSize \in Nat \ {0}
  BY Facts, Areas
<1>3. /\ e.first \in Clusters /\ e.size \in Nat /\ e.dir \in BOOLEAN
      /\ ~e.dir /\ e.size > 0 => HasLength(image, e.first, (e.size + SectorSize - 1) \div SectorSize)
      /\ e.dir => e.size = 0 /\ \E n \in Clusters : /\ 0 .. n \subseteq Clusters
                                                    /\ HasLength(image, e.first, n)
  BY <1>2, EntryFacts
<1>4. /\ f.FirstCluster = e.first /\ f.IsDirectory = e.dir
      /\ ~e.dir => f.Size = e.size
  BY <1>1 DEF Matches
<1>5. CASE e.dir
  <2>1. PICK n \in Clusters : HasLength(image, e.first, n)
    BY <1>3, <1>5
  <2>2. n \in Nat
    BY <1>2, Onward
  <2>. HIDE DEF e, f
  <2>3. a + 1 = n
    BY <1>2, <1>3, <1>4, <2>1, <2>2, ChainStops DEF f
  <2>. QED BY <1>4, <1>5, <2>1, <2>2, <2>3 DEF f
<1>6. CASE ~e.dir
  <2>. DEFINE n == (e.size + SectorSize - 1) \div SectorSize
  <2>1. p <= e.size /\ e.size > 0 /\ f.Size = e.size
    <3>1. p <= f.Size /\ f.Position < p
      BY <1>4, <1>6 DEF Limited
    <3>. HIDE DEF f, e
    <3>. QED BY <1>2, <1>4, <1>6, <3>1
  <2>2. n \in Nat /\ HasLength(image, e.first, n)
    <3>1. HasLength(image, e.first, n)
      BY <1>3, <1>6, <2>1
    <3>2. n \in Nat
      <4>. HIDE DEF e
      <4>. QED BY <1>2, <1>3
    <3>. QED BY <3>1, <3>2
  <2>3. a + 1 = n
    <3>. HIDE DEF e, f, n
    <3>. QED BY <1>2, <1>3, <1>4, <2>2, ChainStops DEF f
  <2>4. e.size <= (a + 1) * SectorSize
    <3>. DEFINE z == e.size
                s == SectorSize
                x == z + s - 1
    <3>1. z \in Nat /\ s \in Nat \ {0} /\ x \in Nat /\ n = x \div s
      BY <1>2, <1>3
    <3>. HIDE DEF z, s, n
    <3>2. x = (x \div s) * s + (x % s) /\ x % s \in 0 .. s - 1
      <4>. HIDE DEF x
      <4>. QED BY <3>1
    <3>3. n * s \in Nat
      <4>1. n \in Nat
        BY <2>2
      <4>. QED BY <3>1, <4>1
    <3>4. z <= n * s
      BY <3>1, <3>2, <3>3
    <3>. QED BY <2>3, <3>4 DEF z, s
  <2>. HIDE DEF e
  <2>5. (a + 1) * SectorSize \in Nat
    BY <1>2
  <2>. QED BY <1>2, <1>3, <2>1, <2>4, <2>5
<1>. QED BY <1>3, <1>5, <1>6

\* FAT_Read goes on: in the sector, to the next one, or to the end of the chain.
LEMMA ReadMoreLoads == BootInv /\ BootInv' /\ LoadOK /\ ReadMore => LoadOK'
<1>. SUFFICES ASSUME BootInv, BootInv', LoadOK, ReadMore PROVE LoadOK'
  OBVIOUS
<1>. DEFINE f == file[current]
            p == f.Position
            first == f.FirstCluster
            o == p % SectorSize
            a == p \div SectorSize
            take == Least(rd.left, SectorSize - o)
            taken == Taken(f, take)
            next == Advanced(taken)
<1>1. /\ pc = "read" /\ Goal = "read" /\ rd.h = current /\ rd.ret \in {"entry", "copy"}
      /\ take \in Nat \ {0} /\ take <= rd.left /\ o + take <= SectorSize
      /\ rd' = [rd EXCEPT !.left = rd.left - take,
                          !.out = rd.out \o [i \in 1 .. take |-> UnitAt(p + i - 1)]]
      /\ Limited(f) => p + take <= f.Size
      /\ current >= 0 => /\ first \in Clusters /\ f.CurrentCluster \in Clusters
                         /\ f.CurrentCluster = Cluster(first, a)
      /\ current = ROOT_DIRECTORY_HANDLE => f.CurrentCluster = RootLba + a
  BY Delivered
<1>2. /\ image \in Images /\ current \in Handles /\ file \in [Handles -> FileType] /\ f \in FileType
      /\ p \in Nat /\ SectorSize \in Nat \ {0} /\ RootLba \in Nat /\ f.Size \in Nat
      /\ current = ROOT_DIRECTORY_HANDLE <=> ~(current >= 0)
  BY Facts, Areas
<1>3. UNCHANGED <<path, current, sought, kernel, opening>>
  BY DEF ReadMore
<1>4. /\ RouteOK /\ StandOK /\ BufferOK
  BY DEF LoadOK
<1>5. /\ a \in Nat /\ o \in 0 .. SectorSize - 1
      /\ o + take < SectorSize => (p + take) \div SectorSize = a
      /\ o + take = SectorSize => /\ (p + take) \div SectorSize = a + 1
                                  /\ p + take = (a + 1) * SectorSize
  BY <1>1, <1>2, InSector
<1>6. \A x : x = p + take => (x - 1) \div SectorSize = a
  <2>. SUFFICES ASSUME NEW x, x = p + take PROVE (x - 1) \div SectorSize = a
    OBVIOUS
  <2>1. take - 1 \in Nat /\ o + (take - 1) < SectorSize /\ p + (take - 1) = x - 1
    <3>. HIDE DEF take, o, p
    <3>. QED BY <1>1, <1>2, <1>5
  <2>2. (p + (take - 1)) \div SectorSize = a
    BY <1>2, <2>1, InSector
  <2>. HIDE DEF a, take, p
  <2>. QED BY <2>1, <2>2
<1>7. /\ taken \in FileType /\ taken.Position = p + take /\ taken.Size = f.Size
      /\ taken.IsDirectory = f.IsDirectory /\ taken.FirstCluster = first
      /\ taken.CurrentCluster = f.CurrentCluster
      /\ FAT_NextCluster(f.CurrentCluster) \in Nat =>
           /\ next \in FileType /\ next.Position = p + take /\ next.Size = f.Size
           /\ next.IsDirectory = f.IsDirectory /\ next.FirstCluster = first
           /\ next.CurrentCluster = FAT_NextCluster(f.CurrentCluster)
           /\ next.CurrentSectorInCluster = 0
  <2>. HIDE DEF take, f
  <2>. QED BY <1>1, <1>2, Fields
<1>8. current >= 0 => /\ FAT_NextCluster(f.CurrentCluster) \in Nat
                      /\ Cluster(first, a + 1) = FAT_NextCluster(f.CurrentCluster)
                      /\ FAT_NextCluster(f.CurrentCluster) < EndOfChain =>
                           FAT_NextCluster(f.CurrentCluster) \in Clusters
  <2>1. current >= 0 => /\ FAT_NextCluster(f.CurrentCluster) \in Nat
                        /\ FAT_NextCluster(f.CurrentCluster) < EndOfChain =>
                             FAT_NextCluster(f.CurrentCluster) \in Clusters
    BY <1>1, <1>2, Onward
  <2>2. current >= 0 => Cluster(first, a + 1) = FAT_NextCluster(f.CurrentCluster)
    <3>. HIDE DEF a, first
    <3>. QED BY <1>1, <1>2, <1>5, ChainGoesOn
  <2>. QED BY <2>1, <2>2
<1>. DEFINE c == (p + take) \div SectorSize
<1>9. c \in Nat /\ p + take \in Nat
  <2>. HIDE DEF take, p
  <2>. QED BY <1>1, <1>2
<1>. HIDE DEF take, taken, next, f, a, o, p, first, c
<1>10. ASSUME NEW g \in FileType, file' = [file EXCEPT ![current] = g], image' = image,
              g.FirstCluster = first, g.IsDirectory = f.IsDirectory, g.Position = p + take,
              \/ g.Size = f.Size
              \/ /\ current >= 0 /\ g.IsDirectory
                 /\ \E n \in Nat : HasLength(image, g.FirstCluster, n) /\ g.Size = n * SectorSize,
              Goal' \in {"read", rd.ret},
              current = ROOT_DIRECTORY_HANDLE => g.CurrentCluster = RootLba + c,
              current >= 0 => \/ Limited(g) /\ g.Position = g.Size
                              \/ g.CurrentCluster = Cluster(first, c),
              BufferOK'
       PROVE  LoadOK'
  <2>1. file'[current'] = g /\ current' = current
    BY <1>2, <1>3, <1>10
  <2>2. StandOK'
    <3>1. \A x, n : Cluster(x, n)' = Cluster(x, n)
      BY <1>10, ImageFixed
    <3>2. Clusters' = Clusters
      BY <1>10, ImageFixed
    <3>3. Goal' \notin {"find", "opened"}
      BY <1>1, <1>10
    <3>4. IF current' = ROOT_DIRECTORY_HANDLE
          THEN g.CurrentCluster = RootLba + (g.Position \div SectorSize)
          ELSE \/ Limited(g) /\ g.Position = g.Size
               \/ g.CurrentCluster = Cluster(g.FirstCluster, g.Position \div SectorSize)'
      BY <1>2, <1>10, <2>1, <3>1 DEF c
    <3>5. current' >= 0 => Cluster(g.FirstCluster, (g.Position - 1) \div SectorSize)' \in Clusters'
      <4>1. g.FirstCluster = first /\ (g.Position - 1) \div SectorSize = a
        BY <1>6, <1>10
      <4>2. current' >= 0 => Cluster(first, a) \in Clusters
        BY <1>1, <2>1
      <4>3. current' >= 0 => Cluster(g.FirstCluster, (g.Position - 1) \div SectorSize) \in Clusters
        BY <4>1, <4>2
      <4>. QED BY <3>1, <3>2, <4>3
    <3>. QED BY <2>1, <3>1, <3>2, <3>3, <3>4, <3>5 DEF StandOK, Limited
  <2>. QED BY <1>1, <1>2, <1>3, <1>10, <2>2, Moved DEF f, first, p
<1>11. CASE /\ o + take < SectorSize
            /\ file' = [file EXCEPT ![current] = taken]
            /\ pc' = "read" /\ UNCHANGED <<image, buf, io, faults, failed>>
  <2>1. Goal' = "read" /\ c = a /\ file'[current'] = taken
    BY <1>2, <1>3, <1>5, <1>11 DEF Goal, c
  <2>2. Standing' = Standing
    <3>1. \A h, x, q : Unit(h, x, q)' = Unit(h, x, q)
      BY <1>11, ImageFixed
    <3>2. Standing' = Unit(current, first, p + take)[1]
      BY <1>3, <1>7, <2>1, <3>1 DEF Standing, UnitAt
    <3>3. Standing = Unit(current, first, p)[1]
      BY DEF Standing, UnitAt, f, first, p
    <3>4. Here(current, first, p + take) = Here(current, first, p)
      BY <2>1 DEF Here, c, a
    <3>. QED BY <3>2, <3>3, <3>4 DEF Unit
  <2>3. BufferOK'
    <3>1. ~(Limited(f) /\ f.Position = f.Size)
      BY <1>1, <1>2 DEF p
    <3>2. buf[current] = Standing
      BY <1>1, <1>4, <3>1 DEF BufferOK, Working, f
    <3>. QED BY <1>3, <1>11, <2>2, <3>2 DEF BufferOK
  <2>. QED BY <1>1, <1>7, <1>10, <1>11, <2>1, <2>3
<1>12. ASSUME NEW g \in FileType, NEW lba, file' = [file EXCEPT ![current] = g],
              Read(lba, current, "read", rd.ret), o + take = SectorSize,
              g.FirstCluster = first, g.IsDirectory = f.IsDirectory, g.Position = p + take,
              g.Size = f.Size,
              current = ROOT_DIRECTORY_HANDLE => g.CurrentCluster = RootLba + (a + 1),
              current >= 0 => g.CurrentCluster = Cluster(first, a + 1),
              lba = Here(current, first, p + take)
       PROVE  LoadOK'
  <2>1. pc' = "disk" /\ io'.ok = "read" /\ io'.buf = current /\ io'.lba = lba /\ image' = image
        /\ Goal' = "read"
    BY <1>12 DEF Read, Goal
  <2>2. file'[current'] = g /\ c = a + 1
    BY <1>2, <1>3, <1>5, <1>12 DEF c
  <2>3. BufferOK'
    <3>1. \A h, x, q : Unit(h, x, q)' = Unit(h, x, q)
      BY <2>1, ImageFixed
    <3>2. Standing' = Unit(current, first, p + take)[1]
      BY <1>3, <1>12, <2>2, <3>1 DEF Standing, UnitAt
    <3>. QED BY <1>3, <1>12, <2>1, <3>2 DEF BufferOK, Unit, Working
  <2>. QED BY <1>10, <1>12, <2>1, <2>2, <2>3
<1>13. CASE /\ o + take = SectorSize /\ current = ROOT_DIRECTORY_HANDLE
            /\ file' = [file EXCEPT ![current] = [taken EXCEPT !.CurrentCluster = taken.CurrentCluster + 1]]
            /\ Read(file'[current].CurrentCluster, current, "read", rd.ret)
  <2>. DEFINE n == taken.CurrentCluster + 1
              g == [taken EXCEPT !.CurrentCluster = n]
  <2>1. n = RootLba + (a + 1) /\ n \in Nat
    <3>1. taken.CurrentCluster = RootLba + a
      BY <1>1, <1>7, <1>13
    <3>. QED BY <1>2, <1>5, <3>1
  <2>. HIDE DEF n
  <2>2. /\ g \in FileType /\ g.CurrentCluster = n /\ g.FirstCluster = taken.FirstCluster
        /\ g.IsDirectory = taken.IsDirectory /\ g.Position = taken.Position /\ g.Size = taken.Size
    BY <1>7, <2>1 DEF FileType
  <2>3. file' = [file EXCEPT ![current] = g] /\ file'[current] = g
    BY <1>2, <1>13 DEF n
  <2>. HIDE DEF g
  <2>4. Here(current, first, p + take) = n
    BY <1>5, <1>13, <2>1 DEF Here
  <2>5. Read(n, current, "read", rd.ret)
    BY <1>13, <2>2, <2>3
  <2>6. current = ROOT_DIRECTORY_HANDLE /\ ~(current >= 0)
    BY <1>2, <1>13
  <2>7. /\ g.FirstCluster = first /\ g.IsDirectory = f.IsDirectory /\ g.Position = p + take
        /\ g.Size = f.Size /\ g.CurrentCluster = RootLba + (a + 1)
    BY <1>7, <2>1, <2>2
  <2>. QED BY <1>12, <1>13, <2>2, <2>3, <2>4, <2>5, <2>6, <2>7
<1>14. CASE /\ o + take = SectorSize /\ current # ROOT_DIRECTORY_HANDLE
            /\ next.CurrentCluster < EndOfChain
            /\ file' = [file EXCEPT ![current] = next]
            /\ Read(FAT_ClusterToLba(next.CurrentCluster) + next.CurrentSectorInCluster,
                    current, "read", rd.ret)
  <2>. DEFINE x == next.CurrentCluster
  <2>1. current >= 0 /\ x = Cluster(first, a + 1) /\ next.CurrentSectorInCluster = 0
        /\ x \in Clusters /\ x \in Nat
    BY <1>2, <1>7, <1>8, <1>14
  <2>2. Here(current, first, p + take) = x + DataBias
    BY <1>2, <1>5, <1>14, <2>1 DEF Here
  <2>3. FAT_ClusterToLba(x) \in Nat /\ FAT_ClusterToLba(x) = x + DataBias
    BY <2>1, ClusterLba
  <2>4. FAT_ClusterToLba(x) + next.CurrentSectorInCluster = FAT_ClusterToLba(x)
    BY <2>1, <2>3
  <2>. HIDE DEF x
  <2>5. Read(FAT_ClusterToLba(x), current, "read", rd.ret)
    BY <1>14, <2>4 DEF x
  <2>6. next.CurrentCluster = Cluster(first, a + 1)
    BY <2>1 DEF x
  <2>. QED BY <1>2, <1>7, <1>8, <1>12, <1>14, <2>1, <2>2, <2>3, <2>5, <2>6
<1>15. CASE /\ o + take = SectorSize /\ current # ROOT_DIRECTORY_HANDLE
            /\ next.CurrentCluster >= EndOfChain
            /\ file' = [file EXCEPT ![current] = [next EXCEPT !.Size = next.Position]]
            /\ pc' = rd.ret /\ UNCHANGED <<image, buf, io, faults, failed>>
  <2>. DEFINE g == [next EXCEPT !.Size = next.Position]
  <2>1. current >= 0
    BY <1>2, <1>15
  <2>2. /\ next \in FileType /\ next.Position = p + take /\ next.IsDirectory = f.IsDirectory
        /\ next.FirstCluster = first
    BY <1>7, <1>8, <2>1
  <2>3. /\ g \in FileType /\ g.Position = p + take /\ g.Size = p + take
        /\ g.IsDirectory = f.IsDirectory /\ g.FirstCluster = first
    BY <2>2 DEF FileType
  <2>4. file' = [file EXCEPT ![current] = g] /\ file'[current'] = g
    BY <1>2, <1>3, <1>15
  <2>. HIDE DEF g
  <2>5. Goal' = rd.ret /\ pc' \in {"entry", "copy"}
    BY <1>1, <1>15 DEF Goal
  <2>6. \/ p + take = f.Size
        \/ /\ f.IsDirectory
           /\ \E n \in Nat : HasLength(image, first, n) /\ p + take = n * SectorSize
    <3>1. Cluster(first, a) \in Clusters /\ Cluster(first, a + 1) >= EndOfChain
      BY <1>1, <1>7, <1>8, <1>15, <2>1
    <3>2. p < p + take /\ p + take = (a + 1) * SectorSize
      BY <1>1, <1>2, <1>5, <1>15
    <3>3. Goal \in Working
      BY <1>1 DEF Working
    <3>4. /\ Cluster(file[current].FirstCluster, a) \in Clusters
          /\ Cluster(file[current].FirstCluster, a + 1) >= EndOfChain
          /\ Limited(file[current]) => p + take <= file[current].Size
          /\ file[current].Position < p + take
      BY <1>1, <3>1, <3>2 DEF f, first, p
    <3>5. \/ p + take = file[current].Size
          \/ /\ file[current].IsDirectory
             /\ \E n \in Nat : /\ HasLength(image, file[current].FirstCluster, n)
                               /\ p + take = n * SectorSize
      BY <1>4, <1>5, <1>9, <2>1, <3>2, <3>3, <3>4, EndOfFile
    <3>. QED BY <3>5 DEF f, first
  <2>7. Limited(g)
    <3>1. p + take # 0
      BY <1>1, <1>2
    <3>. QED BY <2>3, <3>1 DEF Limited
  <2>8. BufferOK'
    BY <2>3, <2>4, <2>5, <2>7 DEF BufferOK, Limited
  <2>9. current = ROOT_DIRECTORY_HANDLE => g.CurrentCluster = RootLba + c
    BY <1>15
  <2>10. Limited(g) /\ g.Position = g.Size
    BY <2>3, <2>7
  <2>11. \/ g.Size = f.Size
         \/ /\ current >= 0 /\ g.IsDirectory
            /\ \E n \in Nat : HasLength(image, g.FirstCluster, n) /\ g.Size = n * SectorSize
    BY <2>1, <2>3, <2>6
  <2>. QED BY <1>10, <1>15, <2>3, <2>4, <2>5, <2>8, <2>9, <2>10, <2>11
<1>. QED BY <1>1, <1>11, <1>13, <1>14, <1>15 DEF ReadMore, f, o, p, take, taken, next, Taken

-----------------------------------------------------------------------------
(* Directories and the entries that a path names.                          *)

\* The units of the root directory are those at its positions.
LEMMA RootPlaces ==
  ASSUME NEW first
  PROVE  /\ \A q \in Nat : q < DirEntryCount => Unit(ROOT_DIRECTORY_HANDLE, first, q) \in RootUnits
         /\ \A u \in RootUnits : \E q \in Nat : /\ q < DirEntryCount
                                                /\ u = Unit(ROOT_DIRECTORY_HANDLE, first, q)
<1>. DEFINE s == SectorSize
            m == RootSectors
            b == RootLba
<1>1. /\ s \in Nat \ {0} /\ m \in Nat /\ b \in Nat /\ m * s = DirEntryCount
      /\ g_DataSectionLba = b + m
  BY Areas DEF g_DataSectionLba
<1>2. \A q : Unit(ROOT_DIRECTORY_HANDLE, first, q) = <<b + (q \div s), q % s>>
  BY DEF Unit, Here
<1>3. RootUnits = (b .. b + m - 1) \X (0 .. s - 1)
  BY <1>1 DEF RootUnits
<1>. HIDE DEF s, m, b
<1>4. ASSUME NEW q \in Nat, q < DirEntryCount
      PROVE  Unit(ROOT_DIRECTORY_HANDLE, first, q) \in RootUnits
  <2>. DEFINE x == q \div s
              y == q % s
  <2>1. x \in Nat /\ y \in 0 .. s - 1 /\ q = x * s + y
    BY <1>1
  <2>. HIDE DEF x, y
  <2>2. x < m
    <3>. SUFFICES ASSUME ~(x < m) PROVE FALSE
      OBVIOUS
    <3>1. m <= x /\ x * s \in Nat /\ m * s \in Nat
      BY <1>1, <2>1
    <3>2. m * s <= x * s
      BY <1>1, <2>1, <3>1
    <3>. QED BY <1>1, <1>4, <2>1, <3>1, <3>2
  <2>3. b + x \in b .. b + m - 1
    BY <1>1, <2>1, <2>2
  <2>4. <<b + x, y>> \in RootUnits
    BY <1>3, <2>1, <2>3
  <2>. QED BY <1>2, <2>4 DEF x, y
<1>5. ASSUME NEW u \in RootUnits
      PROVE  \E q \in Nat : q < DirEntryCount /\ u = Unit(ROOT_DIRECTORY_HANDLE, first, q)
  <2>1. PICK l \in b .. b + m - 1, o \in 0 .. s - 1 : u = <<l, o>>
    BY <1>3
  <2>. DEFINE x == l - b
              q == x * s + o
  <2>2. x \in Nat /\ x <= m - 1 /\ b + x = l
    BY <1>1, <2>1
  <2>. HIDE DEF x
  <2>3. q \in Nat /\ q \div s = x /\ q % s = o
    <3>1. x * s \in Nat
      BY <1>1, <2>2
    <3>2. q \in Nat
      BY <1>1, <2>1, <3>1
    <3>. QED BY <1>1, <2>2, <3>2, Quotient
  <2>4. q < DirEntryCount
    <3>1. x * s <= (m - 1) * s /\ x * s \in Nat
      BY <1>1, <2>2
    <3>2. (m - 1) * s = m * s - s
      BY <1>1
    <3>3. m * s \in Nat
      BY <1>1
    <3>. QED BY <1>1, <3>1, <3>2, <3>3
  <2>. HIDE DEF q
  <2>. QED BY <1>2, <2>1, <2>2, <2>3, <2>4
<1>. QED BY <1>4, <1>5

\* The sector of a cluster, as the directories are defined by it.
LEMMA DataUnits ==
  ASSUME image \in Images, NEW first \in Clusters
  PROVE  UnitsOf(first) = {<<c + DataBias, o>> :
                             c \in {Cluster(first, n) : n \in Clusters} \ EndOfChain .. 4095,
                             o \in 0 .. SectorSize - 1}
<1>. DEFINE D == {Cluster(first, n) : n \in Clusters} \ EndOfChain .. 4095
            b == RootLba + RootSectors
<1>1. /\ SectorsPerCluster = 1 /\ b \in Nat /\ DataBias = b - 2
  BY Areas
<1>2. \A c \in D : c \in Nat
  <2>1. \A n \in Clusters : n \in Nat
    BY Onward
  <2>. QED BY <2>1, ChainNumbers
<1>3. UnitsOf(first) = {<<b + 1 * (c - 2) + s, o>> : c \in D, s \in 0 .. 1 - 1, o \in 0 .. SectorSize - 1}
  BY <1>1 DEF UnitsOf
<1>. HIDE DEF D, b
<1>4. \A c \in D : b + 1 * (c - 2) + 0 = c + DataBias
  BY <1>1, <1>2
<1>5. 0 .. 1 - 1 = {0}
  OBVIOUS
<1>6. UnitsOf(first) = {<<b + 1 * (c - 2) + 0, o>> : c \in D, o \in 0 .. SectorSize - 1}
  BY <1>3, <1>5
<1>7. UnitsOf(first) = {<<c + DataBias, o>> : c \in D, o \in 0 .. SectorSize - 1}
  BY <1>4, <1>6
<1>. QED BY <1>7 DEF D

\* The units of another directory are those at its positions.
LEMMA DirectoryPlaces ==
  ASSUME image \in Images, NEW first \in Clusters, NEW N \in Nat, HasLength(image, first, N),
         0 .. N \subseteq Clusters, NEW h \in Handles, h # ROOT_DIRECTORY_HANDLE
  PROVE  /\ \A q \in Nat : Cluster(first, q \div SectorSize) \in Clusters =>
                             Unit(h, first, q) \in UnitsOf(first)
         /\ \A u \in UnitsOf(first) : \E q \in Nat : q < N * SectorSize /\ u = Unit(h, first, q)
<1>. DEFINE s == SectorSize
<1>1. s \in Nat \ {0} /\ Clusters \subseteq 0 .. 4087
  BY Areas, Chains
<1>2. \A q : Unit(h, first, q) = <<Cluster(first, q \div s) + DataBias, q % s>>
  BY DEF Unit, Here
<1>3. UnitsOf(first) = {<<c + DataBias, o>> :
                          c \in {Cluster(first, n) : n \in Clusters} \ EndOfChain .. 4095, o \in 0 .. s - 1}
  BY DataUnits
<1>. HIDE DEF s
<1>4. ASSUME NEW q \in Nat, Cluster(first, q \div s) \in Clusters
      PROVE  Unit(h, first, q) \in UnitsOf(first)
  <2>. DEFINE n == q \div s
              o == q % s
              c == Cluster(first, n)
  <2>1. n \in Nat /\ o \in 0 .. s - 1
    BY <1>1
  <2>. HIDE DEF n, o
  <2>2. c \in Clusters /\ c < EndOfChain /\ c \in Nat
    <3>1. c \in Clusters
      BY <1>4 DEF n
    <3>. QED BY <3>1, Onward
  <2>3. n < N
    BY <2>1, <2>2, ChainEnds
  <2>4. n \in Clusters
    BY <2>1, <2>3
  <2>5. c \notin EndOfChain .. 4095
    <3>. HIDE DEF c
    <3>. QED BY <2>2 DEF EndOfChain
  <2>6. <<c + DataBias, o>> \in UnitsOf(first)
    BY <1>3, <2>1, <2>4, <2>5
  <2>. QED BY <1>2, <2>6 DEF c, n, o
<1>5. ASSUME NEW u \in UnitsOf(first)
      PROVE  \E q \in Nat : q < N * s /\ u = Unit(h, first, q)
  <2>1. PICK n \in Clusters, o \in 0 .. s - 1 :
          u = <<Cluster(first, n) + DataBias, o>> /\ Cluster(first, n) \notin EndOfChain .. 4095
    BY <1>3
  <2>2. n \in Nat /\ o \in Nat
    BY <1>1, <2>1
  <2>3. Cluster(first, n) < EndOfChain
    <3>. DEFINE c == Cluster(first, n)
    <3>1. c \in Clusters \cup 4088 .. 4095
      BY <2>2, ChainRange
    <3>2. c \notin 4088 .. 4095
      BY <2>1 DEF EndOfChain
    <3>3. c \in Clusters
      <4>. HIDE DEF c
      <4>. QED BY <3>1, <3>2
    <3>. HIDE DEF c
    <3>4. c < EndOfChain
      BY <3>3, Onward
    <3>. QED BY <3>4 DEF c
  <2>4. n < N
    BY <2>2, <2>3, ChainEnds
  <2>. DEFINE q == n * s + o
  <2>5. n * s \in Nat /\ n * s <= (N - 1) * s /\ (N - 1) * s = N * s - s /\ N * s \in Nat
    BY <1>1, <2>2, <2>4
  <2>6. q \in Nat /\ q < N * s
    <3>. DEFINE x == n * s
                y == N * s
    <3>1. x \in Nat /\ y \in Nat /\ x <= y - s
      BY <1>1, <2>5
    <3>. HIDE DEF x, y
    <3>2. x + o \in Nat /\ x + o < y
      BY <1>1, <2>1, <2>2, <3>1
    <3>. QED BY <3>2 DEF x, y
  <2>7. q \div s = n /\ q % s = o
    <3>1. o \in 0 .. s - 1 /\ n \in Nat /\ s \in Nat \ {0}
      BY <1>1, <2>1, <2>2
    <3>. QED BY <3>1, Quotient
  <2>. HIDE DEF q
  <2>. QED BY <1>2, <2>1, <2>6, <2>7
<1>. QED BY <1>4, <1>5 DEF s

\* Clusters are numbers.
LEMMA ClusterNumbers == image \in Images => \A c \in Clusters : c \in Nat
BY Onward

\* A unit that holds a name is that of an entry of the image.
LEMMA NamedUnit ==
  ASSUME image \in Images, NEW u, EntryAt(u).name # NoEntry.name
  PROVE  /\ u \in DOMAIN image.entries /\ EntryAt(u) = image.entries[u]
         /\ EntryAt(u).name \notin {"garbled", NoEntry.name}
<1>1. u \in DOMAIN image.entries /\ EntryAt(u) = image.entries[u]
  BY DEF EntryAt
<1>2. EntryAt(u).name # "garbled"
  BY <1>1, EntryFacts
<1>. QED BY <1>1, <1>2

\* What a path may be.
LEMMA PathFacts ==
  ASSUME BootInv, OpeningOK, Goal \in Working
  PROVE  /\ opening \in Seq(STRING) /\ Len(opening) \in 1 .. 2
         /\ \A i \in 1 .. Len(opening) : opening[i] \notin {"garbled", NoEntry.name}
         /\ \A u \in DOMAIN image.entries :
              /\ EntryAt(u).name = opening[Len(opening)] => ~EntryAt(u).dir
              /\ Len(opening) = 2 /\ EntryAt(u).name = opening[1] => EntryAt(u).dir
<1>1. opening \in Paths /\ image \in Images
  BY Facts DEF OpeningOK
<1>2. /\ opening \in Seq(STRING) /\ Len(opening) \in 1 .. 2
      /\ \A i \in 1 .. Len(opening) : opening[i] \notin {"garbled", NoEntry.name}
      /\ \A u \in DOMAIN image.entries :
           /\ image.entries[u].name = opening[Len(opening)] => ~image.entries[u].dir
           /\ Len(opening) = 2 /\ image.entries[u].name = opening[1] => image.entries[u].dir
  BY <1>1, FatAssumption DEF FatAssumption
<1>. QED BY <1>2 DEF EntryAt

\* The directory that is searched is a directory, and its chain has an end.
LEMMA Searched ==
  ASSUME BootInv, OpeningOK, Goal \in Working, current >= 0, Len(opening) = 2,
         NEW e, Level1(e), Matches(e)
  PROVE  /\ e.dir /\ e.size = 0 /\ e.first \in Clusters
         /\ \E v \in RootUnits : v \in DOMAIN image.entries /\ e = EntryAt(v) /\ e.name = opening[1]
         /\ \E N \in Clusters : 0 .. N \subseteq Clusters /\ HasLength(image, e.first, N)
<1>1. PICK v \in RootUnits : e = EntryAt(v) /\ e.name = opening[1]
  BY DEF Level1, Named
<1>2. opening[1] \notin {"garbled", NoEntry.name} /\ image \in Images
  BY PathFacts, Facts
<1>3. v \in DOMAIN image.entries /\ e = image.entries[v]
  BY <1>1, <1>2, NamedUnit
<1>4. e.dir
  BY <1>1, <1>3, PathFacts
<1>5. /\ e.first \in Clusters
      /\ e.dir => e.size = 0 /\ \E N \in Clusters : /\ 0 .. N \subseteq Clusters
                                                    /\ HasLength(image, e.first, N)
  BY <1>2, <1>3, EntryFacts
<1>. QED BY <1>1, <1>3, <1>4, <1>5

\* The entry found is one that the path names, at its place in the path.
LEMMA FoundEntry ==
  ASSUME BootInv, OpeningOK, LoadOK, pc = "entry", rd.out # <<>>,
         EntryAt(rd.out[1]).name = sought
  PROVE  LET e == EntryAt(rd.out[1])
         IN /\ rd.out[1] \in DOMAIN image.entries /\ e = image.entries[rd.out[1]]
            /\ e.first \in Clusters
            /\ \/ path = <<>> /\ e \in Resolved(opening)
               \/ path = Tail(opening) /\ Len(opening) = 2 /\ Level1(e)
<1>. DEFINE f == file[current]
            p == f.Position
            u == rd.out[1]
            e == EntryAt(u)
<1>1. Goal = "entry" /\ Searching /\ ~Copying /\ Goal \in Working
  BY DEF Goal, Searching, Copying, Working
<1>2. /\ image \in Images /\ p \in Nat /\ f.Size \in Nat /\ rd.out \in Seq(Units)
      /\ current \in Handles /\ (Limited(f) => p <= f.Size)
      /\ current = ROOT_DIRECTORY_HANDLE <=> ~(current >= 0)
  BY Facts
<1>3. /\ opening \in Seq(STRING) /\ Len(opening) \in 1 .. 2
      /\ \A i \in 1 .. Len(opening) : opening[i] \notin {"garbled", NoEntry.name}
  BY <1>1, PathFacts
<1>4. p - 1 \in Nat /\ p > 0 /\ u = UnitAt(p - 1)
  <2>. DEFINE n == Len(rd.out)
  <2>1. /\ n <= p /\ n + (IF Goal = "read" THEN rd.left ELSE 0) <= 1
        /\ \A i \in 1 .. n : rd.out[i] = UnitAt(p - n + i - 1)
    BY <1>1 DEF LoadOK, OutOK
  <2>2. n \in Nat /\ n >= 1
    <3>1. \A s \in Seq(Units) : s # <<>> => Len(s) \in Nat /\ Len(s) >= 1
      OBVIOUS
    <3>. QED BY <1>2, <3>1
  <2>. HIDE DEF n, p
  <2>3. n = 1
    BY <1>1, <2>1, <2>2
  <2>4. 1 \in 1 .. n /\ p - n + 1 - 1 = p - 1
    BY <1>2, <2>3
  <2>5. rd.out[1] = UnitAt(p - 1)
    BY <2>1, <2>4
  <2>. QED BY <1>2, <2>1, <2>3, <2>5
<1>. HIDE DEF u, p
<1>5. e.name # NoEntry.name => /\ u \in DOMAIN image.entries /\ e = image.entries[u]
                               /\ e.first \in Clusters
                               /\ e.name # "garbled"
  <2>. SUFFICES ASSUME e.name # NoEntry.name
                PROVE  /\ u \in DOMAIN image.entries /\ e = image.entries[u]
                       /\ e.first \in Clusters /\ e.name # "garbled"
    OBVIOUS
  <2>1. u \in DOMAIN image.entries /\ e = image.entries[u] /\ e.name # "garbled"
    BY <1>2, NamedUnit
  <2>2. image.entries[u].first \in Clusters
    BY <1>2, <2>1, EntryFacts
  <2>. QED BY <2>1, <2>2
<1>6. e.name = sought /\ NoEntry.name # "garbled"
  BY DEF u, NoEntry
<1>7. CASE InRoot
  <2>1. /\ current = ROOT_DIRECTORY_HANDLE /\ f.Size = DirEntryCount /\ f.IsDirectory
        /\ path = Tail(opening) /\ sought \in {opening[1], "garbled"}
    BY <1>1, <1>7 DEF InRoot
  <2>2. opening[1] \notin {"garbled", NoEntry.name}
    BY <1>3
  <2>3. /\ u \in DOMAIN image.entries /\ e = image.entries[u] /\ e.first \in Clusters
        /\ e.name = opening[1]
    BY <1>5, <1>6, <2>1, <2>2
  <2>4. p - 1 < DirEntryCount
    <3>1. DirEntryCount \in Nat \ {0}
      BY Areas
    <3>2. Limited(f)
      BY <2>1, <3>1 DEF Limited
    <3>. QED BY <1>2, <1>4, <2>1, <3>1, <3>2 DEF p
  <2>5. u \in RootUnits
    BY <1>4, <2>1, <2>4, RootPlaces DEF UnitAt
  <2>6. Level1(e)
    BY <2>3, <2>5 DEF Level1, Named
  <2>7. CASE Len(opening) = 1
    <3>1. \A s \in Seq(STRING) : Len(s) = 1 => Tail(s) \in Seq(STRING) /\ Len(Tail(s)) = 0
      OBVIOUS
    <3>2. \A s \in Seq(STRING) : Len(s) = 0 => s = <<>>
      OBVIOUS
    <3>3. path = <<>>
      BY <1>3, <2>1, <2>7, <3>1, <3>2
    <3>4. e \in Resolved(opening)
      BY <2>6, <2>7 DEF Resolved, Level1
    <3>. QED BY <2>3, <3>3, <3>4 DEF u
  <2>8. CASE Len(opening) = 2
    BY <2>1, <2>3, <2>6, <2>8 DEF u
  <2>. QED BY <1>3, <2>7, <2>8
<1>8. CASE InDirectory
  <2>1. /\ current >= 0 /\ Len(opening) = 2 /\ path = <<>> /\ sought \in {opening[2], "garbled"}
    BY <1>1, <1>8 DEF InDirectory
  <2>2. opening[2] \notin {"garbled", NoEntry.name}
    BY <1>3, <2>1
  <2>3. /\ u \in DOMAIN image.entries /\ e = image.entries[u] /\ e.first \in Clusters
        /\ e.name = opening[2]
    BY <1>5, <1>6, <2>1, <2>2
  <2>4. PICK d : Level1(d) /\ Matches(d)
    BY <1>8 DEF InDirectory
  <2>5. PICK N \in Clusters : /\ 0 .. N \subseteq Clusters /\ HasLength(image, d.first, N)
                              /\ d.first \in Clusters
    BY <1>1, <2>1, <2>4, Searched
  <2>6. N \in Nat
    <3>1. image \in Images
      BY <1>2
    <3>. QED BY <3>1, ClusterNumbers, Zenon
  <2>7. f.FirstCluster = d.first
    BY <2>4 DEF Matches
  <2>8. Cluster(d.first, (p - 1) \div SectorSize) \in Clusters
    BY <1>1, <1>4, <2>1, <2>7 DEF LoadOK, StandOK, p
  <2>9. u \in UnitsOf(d.first)
    <3>1. u = Unit(current, d.first, p - 1)
      BY <1>4, <2>7 DEF UnitAt
    <3>. HIDE DEF f
    <3>2. current # ROOT_DIRECTORY_HANDLE
      BY <1>2, <2>1
    <3>. QED BY <1>2, <1>4, <2>5, <2>6, <2>8, <3>1, <3>2, DirectoryPlaces
  <2>10. e \in Named(opening[2], UnitsOf(d.first))
    BY <2>3, <2>9 DEF Named
  <2>11. e \in Resolved(opening)
    BY <2>1, <2>4, <2>10 DEF Resolved, Level1
  <2>. QED BY <2>1, <2>3, <2>11 DEF u
<1>9. ~InFile
  BY <1>1 DEF InFile
<1>. QED BY <1>1, <1>7, <1>8, <1>9 DEF LoadOK, RouteOK

\* The file found is opened, and its first sector read.
LEMMA FoundLoads == BootInv /\ OpeningOK /\ LoadOK /\ Found => LoadOK'
<1>. SUFFICES ASSUME BootInv, OpeningOK, LoadOK, Found PROVE LoadOK'
  OBVIOUS
<1>0. PICK u, e : u = rd.out[1] /\ e = EntryAt(u)
  OBVIOUS
<1>. DEFINE t == ClosedFile(current)
<1>1. /\ pc = "entry" /\ rd.out # <<>> /\ e.name = sought /\ rd' = NoRead
      /\ FAT_OpenEntry(t, e) /\ UNCHANGED <<path, opening>>
  BY <1>0 DEF Found
<1>2. /\ u \in DOMAIN image.entries /\ e = image.entries[u] /\ e.first \in Clusters
      /\ \/ path = <<>> /\ e \in Resolved(opening)
         \/ path = Tail(opening) /\ Len(opening) = 2 /\ Level1(e)
  BY <1>0, <1>1, FoundEntry
<1>3. /\ t \in [Handles -> FileType]
      /\ \A h \in Handles : h >= 0 => ~t[h].Opened
  BY Closing1
<1>4. image \in Images
  BY Facts
<1>5. e.first \in Nat /\ FAT_ClusterToLba(e.first) = e.first + DataBias
  <2>1. e.first \in Nat
    BY <1>2, <1>4, ClusterNumbers, Zenon
  <2>. QED BY <2>1, ClusterLba
<1>. HIDE DEF t
<1>. DEFINE G(d, z, c) == [Closed EXCEPT !.IsDirectory = d, !.Size = z,
                                         !.FirstCluster = c, !.CurrentCluster = c]
            g == G(e.dir, e.size, e.first)
<1>6. PICK h \in Handles : /\ h >= 0 /\ file' = [t EXCEPT ![h] = g] /\ current' = h
                           /\ Read(FAT_ClusterToLba(e.first), h, "opened", "null")
  <2>1. 0 \in Handles
    <3>1. MAX_FILE_HANDLES \in Nat \ {0}
      BY DiskAssumption DEF DiskAssumption
    <3>. QED BY <3>1 DEF Handles, ROOT_DIRECTORY_HANDLE
  <2>2. {h \in Handles : h >= 0 /\ ~t[h].Opened} # {}
    BY <1>3, <2>1
  <2>. QED BY <1>1, <2>2 DEF FAT_OpenEntry
<1>7. /\ g.Position = 0 /\ g.Size = e.size /\ g.IsDirectory = e.dir
      /\ g.FirstCluster = e.first /\ g.CurrentCluster = e.first
  <2>1. \A d, z, c : /\ G(d, z, c).Position = 0 /\ G(d, z, c).Size = z /\ G(d, z, c).IsDirectory = d
                     /\ G(d, z, c).FirstCluster = c /\ G(d, z, c).CurrentCluster = c
    BY DEF Closed
  <2>. HIDE DEF G
  <2>. QED BY <2>1
<1>. HIDE DEF g
<1>8. file'[current'] = g /\ current' >= 0 /\ current' # ROOT_DIRECTORY_HANDLE
  BY <1>3, <1>6 DEF ROOT_DIRECTORY_HANDLE
<1>9. /\ pc' = "disk" /\ io'.ok = "opened" /\ io'.buf = current' /\ io'.lba = e.first + DataBias
      /\ image' = image /\ Goal' = "opened"
  BY <1>5, <1>6 DEF Read, Goal
<1>10. Matches(e)'
  <2>1. e \in {image'.entries[v] : v \in DOMAIN image'.entries}
    BY <1>2, <1>9
  <2>. QED BY <1>7, <1>8, <2>1 DEF Matches
<1>11. RouteOK'
  <2>1. Level1(e)' = Level1(e) /\ Resolved(opening)' = Resolved(opening)
    BY <1>1, <1>9, ImageFixed DEF Level1
  <2>2. CASE path = <<>> /\ e \in Resolved(opening)
    <3>1. e \in Resolved(opening)'
      BY <2>1, <2>2
    <3>. QED BY <1>1, <1>8, <1>9, <1>10, <2>2, <3>1 DEF RouteOK, InFile
  <2>3. CASE path = Tail(opening) /\ Len(opening) = 2 /\ Level1(e)
    <3>1. Level1(e)'
      BY <2>1, <2>3
    <3>. QED BY <1>1, <1>8, <1>9, <1>10, <2>3, <3>1 DEF RouteOK, InDirectory
  <2>. QED BY <1>2, <2>2, <2>3
<1>12. 0 \div SectorSize = 0
  <2>1. SectorSize \in Nat \ {0} /\ 0 = 0 * SectorSize + 0 /\ 0 \in 0 .. SectorSize - 1
    BY Areas
  <2>2. (0 * SectorSize + 0) \div SectorSize = 0
    BY <2>1, Quotient
  <2>. QED BY <2>1, <2>2
<1>13. Cluster(e.first, 0)' = e.first
  <2>1. Cluster(e.first, 0) = e.first
    BY ClusterSteps DEF Cluster
  <2>2. \A c, n : Cluster(c, n)' = Cluster(c, n)
    BY <1>9, ImageFixed
  <2>. QED BY <2>1, <2>2
<1>14. StandOK'
  BY <1>7, <1>8, <1>9, <1>12, <1>13 DEF StandOK
<1>15. BufferOK'
  <2>1. Standing' = e.first + DataBias
    BY <1>7, <1>8, <1>12, <1>13 DEF Standing, UnitAt, Unit, Here
  <2>. QED BY <1>9, <2>1 DEF BufferOK, Working
<1>16. rd'.out = <<>>
  BY <1>1 DEF NoRead
<1>. QED BY <1>9, <1>11, <1>14, <1>15, <1>16
         DEF LoadOK, RootOpen, OutOK, KernelOK, SearchOK, Working, Searching, Copying,
             KernelWhole, NullMeansAbsent

\* A search that comes to its end has compared every entry of the directory.
LEMMA NotFoundLoads == BootInv /\ OpeningOK /\ LoadOK /\ NotFound => LoadOK'
<1>. SUFFICES ASSUME BootInv, OpeningOK, LoadOK, NotFound PROVE LoadOK'
  OBVIOUS
<1>. DEFINE f == file[current]
            p == f.Position
<1>1. /\ pc = "entry" /\ rd.out = <<>> /\ pc' = "null" /\ UNCHANGED <<image, sought, opening>>
  BY DEF NotFound, KeepDisk
<1>2. Goal = "entry" /\ Searching /\ ~Copying /\ Goal' = "null" /\ Goal \in Working
  BY <1>1 DEF Goal, Searching, Copying, Working
<1>3. /\ image \in Images /\ p \in Nat /\ f.Size \in Nat /\ current \in Handles
      /\ current = ROOT_DIRECTORY_HANDLE <=> ~(current >= 0)
  BY Facts
<1>4. /\ Limited(f) /\ p = f.Size
      /\ \A q \in Nat : q < p => EntryAt(UnitAt(q)).name # sought
  <2>1. Len(rd.out) = 0 /\ p - 0 = p
    BY <1>1, <1>3
  <2>2. Limited(f) /\ p = f.Size
    BY <1>2, <2>1 DEF LoadOK, OutOK
  <2>3. \A q \in Nat : q < p - Len(rd.out) => EntryAt(UnitAt(q)).name # sought
    BY <1>2 DEF LoadOK, SearchOK
  <2>. QED BY <2>1, <2>2, <2>3
<1>5. Len(opening) \in 1 .. 2 /\ opening[1] # NoEntry.name
  BY <1>2, PathFacts
<1>. HIDE DEF p
<1>6. ASSUME sought # "garbled"
      PROVE  Resolved(opening) = {}
  <2>1. CASE InRoot
    <3>1. current = ROOT_DIRECTORY_HANDLE /\ f.Size = DirEntryCount /\ sought = opening[1]
      BY <1>2, <1>6, <2>1 DEF InRoot
    <3>2. \A v \in RootUnits : EntryAt(v).name # opening[1]
      <4>. SUFFICES ASSUME NEW v \in RootUnits PROVE EntryAt(v).name # opening[1]
        OBVIOUS
      <4>1. PICK q \in Nat : q < DirEntryCount /\ v = Unit(ROOT_DIRECTORY_HANDLE, f.FirstCluster, q)
        BY RootPlaces
      <4>2. v = UnitAt(q) /\ q < p
        BY <1>4, <3>1, <4>1 DEF UnitAt
      <4>. QED BY <1>4, <3>1, <4>2
    <3>3. Named(opening[1], RootUnits) = {}
      BY <3>2 DEF Named
    <3>. QED BY <3>3 DEF Resolved
  <2>2. CASE InDirectory
    <3>1. current >= 0 /\ Len(opening) = 2 /\ sought = opening[2]
      BY <1>2, <1>6, <2>2 DEF InDirectory
    <3>2. PICK d : Level1(d) /\ Matches(d)
      BY <2>2 DEF InDirectory
    <3>3. /\ d.dir /\ d.size = 0 /\ d.first \in Clusters
          /\ \E v \in RootUnits : v \in DOMAIN image.entries /\ d = EntryAt(v) /\ d.name = opening[1]
          /\ \E N \in Clusters : 0 .. N \subseteq Clusters /\ HasLength(image, d.first, N)
      BY <1>2, <3>1, <3>2, Searched
    <3>4. /\ f.FirstCluster = d.first /\ f.IsDirectory = d.dir
          /\ \/ f.Size = d.size
             \/ \E n \in Nat : HasLength(image, d.first, n) /\ f.Size = n * SectorSize
      BY <3>2 DEF Matches
    <3>5. PICK n \in Nat : HasLength(image, d.first, n) /\ f.Size = n * SectorSize
      <4>1. f.Size # 0
        BY <1>4, <3>3, <3>4 DEF Limited
      <4>. QED BY <3>3, <3>4, <4>1
    <3>6. PICK N \in Clusters : 0 .. N \subseteq Clusters /\ HasLength(image, d.first, N)
      BY <3>3
    <3>7. N \in Nat /\ current # ROOT_DIRECTORY_HANDLE /\ image \in Images
      <4>1. image \in Images
        BY <1>3
      <4>2. N \in Nat
        BY <4>1, <3>6, ClusterNumbers, Zenon
      <4>. QED BY <1>3, <3>1, <4>1, <4>2
    <3>8. n = N
      <4>1. ~(n < N)
        <5>. SUFFICES ASSUME n < N PROVE FALSE
          OBVIOUS
        <5>1. n \in 0 .. N /\ n \in 0 .. n /\ ~(n < n)
          BY <3>7
        <5>2. Cluster(d.first, n) < EndOfChain
          BY <3>6, <5>1 DEF HasLength, Cluster
        <5>. QED BY <3>5, <5>1, <5>2 DEF HasLength, Cluster
      <4>2. ~(N < n)
        <5>. SUFFICES ASSUME N < n PROVE FALSE
          OBVIOUS
        <5>1. N \in 0 .. n /\ N \in 0 .. N /\ ~(N < N)
          BY <3>7
        <5>2. Cluster(d.first, N) < EndOfChain
          BY <3>5, <5>1 DEF HasLength, Cluster
        <5>. QED BY <3>6, <5>1, <5>2 DEF HasLength, Cluster
      <4>. QED BY <3>7, <4>1, <4>2
    <3>9. \A v \in UnitsOf(d.first) : EntryAt(v).name # opening[2]
      <4>. SUFFICES ASSUME NEW v \in UnitsOf(d.first) PROVE EntryAt(v).name # opening[2]
        OBVIOUS
      <4>1. PICK q \in Nat : q < N * SectorSize /\ v = Unit(current, d.first, q)
        <5>. HIDE DEF f
        <5>. QED BY <1>3, <3>3, <3>6, <3>7, DirectoryPlaces
      <4>2. v = UnitAt(q) /\ q < p
        BY <1>4, <3>4, <3>5, <3>8, <4>1 DEF UnitAt
      <4>. QED BY <1>4, <3>1, <4>2
    <3>10. Named(opening[2], UnitsOf(d.first)) = {}
      BY <3>9 DEF Named
    <3>11. \A x \in Named(opening[1], RootUnits) : x = d
      <4>. SUFFICES ASSUME NEW x \in Named(opening[1], RootUnits) PROVE x = d
        OBVIOUS
      <4>1. PICK v \in RootUnits : v \in DOMAIN image.entries /\ d = EntryAt(v) /\ d.name = opening[1]
        BY <3>3
      <4>2. PICK w \in RootUnits : x = EntryAt(w) /\ x.name = opening[1]
        BY DEF Named
      <4>3. w \in DOMAIN image.entries /\ EntryAt(w) = image.entries[w]
        BY <1>5, <3>7, <4>2, NamedUnit
      <4>4. EntryAt(v) = image.entries[v]
        BY <4>1 DEF EntryAt
      <4>5. \A y, z \in RootUnits \cap DOMAIN image.entries :
              image.entries[y].name = image.entries[z].name => y = z
        BY <3>7, ImageAssumption DEF ImageAssumption
      <4>6. v = w
        BY <4>1, <4>2, <4>3, <4>4, <4>5
      <4>. QED BY <4>1, <4>2, <4>6
    <3>. QED BY <3>1, <3>10, <3>11 DEF Resolved
  <2>3. ~InFile
    BY <1>2 DEF InFile
  <2>. QED BY <1>2, <2>1, <2>2, <2>3 DEF LoadOK, RouteOK
<1>7. NullMeansAbsent'
  <2>1. Resolved(opening)' = Resolved(opening)
    BY <1>1, ImageFixed
  <2>. QED BY <1>1, <1>6, <2>1 DEF NullMeansAbsent
<1>. QED BY <1>1, <1>2, <1>7
         DEF LoadOK, RootOpen, RouteOK, StandOK, BufferOK, OutOK, KernelOK, SearchOK, Working,
             Searching, Copying, KernelWhole

\* What has been opened is searched, or loaded.
LEMMA OpenedLoads == BootInv /\ OpeningOK /\ FreshOK /\ LoadOK /\ Opened => LoadOK'
<1>. SUFFICES ASSUME BootInv, OpeningOK, FreshOK, LoadOK, Opened PROVE LoadOK'
  OBVIOUS
<1>. DEFINE f == file[current]
            g == [f EXCEPT !.Opened = TRUE]
<1>1. /\ pc = "opened" /\ file' = [file EXCEPT ![current].Opened = TRUE]
      /\ pc' = IF path = <<>> THEN "load" ELSE "find"
      /\ UNCHANGED <<image, buf, path, current, rd, kernel, opening>>
  BY DEF Opened, KeepDisk
<1>2. /\ Goal = "opened" /\ Goal' = pc' /\ ~Searching /\ ~Copying /\ ~Searching' /\ ~Copying'
  BY <1>1 DEF Goal, Searching, Copying
<1>3. /\ file \in [Handles -> FileType] /\ current \in Handles /\ f \in FileType
  BY Facts
<1>4. /\ g.Position = f.Position /\ g.Size = f.Size /\ g.IsDirectory = f.IsDirectory
      /\ g.FirstCluster = f.FirstCluster /\ g.CurrentCluster = f.CurrentCluster
  BY <1>3 DEF FileType
<1>5. file'[current'] = g
  BY <1>1, <1>3
<1>. HIDE DEF g
<1>6. /\ \A q : UnitAt(q)' = UnitAt(q)
      /\ \A e : Matches(e)' = Matches(e) /\ Level1(e)' = Level1(e)
      /\ Resolved(opening)' = Resolved(opening)
  BY <1>1, <1>4, <1>5, SameFile
<1>7. RouteOK'
  <2>1. CASE InDirectory
    <3>1. /\ current >= 0 /\ Len(opening) = 2 /\ path = Tail(opening)
          /\ \E e : Level1(e) /\ Matches(e)
      BY <1>2, <2>1 DEF InDirectory
    <3>2. path # <<>>
      <4>1. opening \in Seq(STRING)
        BY <1>2, PathFacts DEF Working
      <4>2. \A s \in Seq(STRING) : Len(s) = 2 => Len(Tail(s)) = 1
        OBVIOUS
      <4>3. Len(path) = 1
        BY <3>1, <4>1, <4>2
      <4>4. Len(<<>>) = 0
        OBVIOUS
      <4>. QED BY <4>3, <4>4
    <3>3. InDirectory'
      BY <1>1, <1>2, <1>6, <3>1, <3>2 DEF InDirectory
    <3>. QED BY <3>3 DEF RouteOK
  <2>2. CASE InFile
    <3>1. InFile'
      BY <1>1, <1>2, <1>6, <2>2 DEF InFile
    <3>. QED BY <3>1 DEF RouteOK
  <2>3. ~InRoot
    BY <1>2 DEF InRoot
  <2>. QED BY <1>2, <2>1, <2>2, <2>3 DEF LoadOK, RouteOK, Working
<1>8. f.Position = 0 /\ StandOK'
  <2>1. \A c, n : Cluster(c, n)' = Cluster(c, n)
    BY <1>1, ImageFixed
  <2>2. Clusters' = Clusters
    BY <1>1, ImageFixed
  <2>3. f.Position = 0
    BY <1>2 DEF LoadOK, StandOK, Working
  <2>. QED BY <1>1, <1>2, <1>4, <1>5, <2>1, <2>2, <2>3 DEF LoadOK, StandOK, Limited, Working
<1>9. BufferOK'
  <2>1. Standing' = Standing
    BY <1>1, <1>4, <1>5, <1>6 DEF Standing
  <2>. QED BY <1>1, <1>4, <1>5, <2>1 DEF LoadOK, BufferOK, Limited, Working
<1>10. OutOK'
  BY <1>1, <1>2 DEF LoadOK, OutOK
<1>11. KernelOK'
  <2>1. kernel = <<>> /\ rd.out = <<>>
    BY <1>2 DEF FreshOK, Fresh, LoadOK, OutOK
  <2>2. Len(<<>>) = 0 /\ 0 + 0 = 0 /\ \A i \in 1 .. 0 : FALSE
    OBVIOUS
  <2>. QED BY <1>1, <1>2, <1>4, <1>5, <1>8, <2>1, <2>2 DEF KernelOK
<1>12. SearchOK'
  BY <1>2 DEF SearchOK
<1>. QED BY <1>1, <1>2, <1>7, <1>8, <1>9, <1>10, <1>11, <1>12
         DEF LoadOK, RootOpen, KernelWhole, NullMeansAbsent

\* What has been read is appended; at the end of the file all of it is there.
LEMMA CopyLoads == BootInv /\ OpeningOK /\ LoadOK /\ Copy => LoadOK'
<1>. SUFFICES ASSUME BootInv, OpeningOK, LoadOK, Copy PROVE LoadOK'
  OBVIOUS
<1>. DEFINE f == file[current]
            p == f.Position
            n == Len(rd.out)
            z == Len(kernel)
<1>1. pc = "copy" /\ rd' = NoRead /\ UNCHANGED <<image, buf, path, current, opening>>
  BY DEF Copy, KeepDisk
<1>2. Goal = "copy" /\ ~Searching /\ Copying /\ Goal \in Working
  BY <1>1 DEF Goal, Searching, Copying, Working
<1>3. /\ image \in Images /\ file \in [Handles -> FileType] /\ current \in Handles
      /\ p \in Nat /\ f.Size \in Nat /\ n \in Nat /\ z \in Nat
      /\ kernel \in Seq(Units) /\ rd.out \in Seq(Units)
      /\ current = ROOT_DIRECTORY_HANDLE <=> ~(current >= 0)
  BY Facts
<1>4. /\ z + n = p
      /\ \A i \in 1 .. z : kernel[i] = UnitAt(i - 1)
      /\ n <= p
      /\ \A i \in 1 .. n : rd.out[i] = UnitAt(p - n + i - 1)
      /\ n = 0 => Limited(f) /\ p = f.Size
  BY <1>2 DEF LoadOK, KernelOK, OutOK
<1>5. InFile
  BY <1>2 DEF LoadOK, RouteOK, InRoot, InDirectory
<1>6. CASE rd.out = <<>>
  <2>1. pc' = "jump" /\ kernel' = kernel
    BY <1>6 DEF Copy
  <2>2. Goal' = "jump"
    BY <2>1 DEF Goal
  <2>3. n = 0 /\ z = p /\ Limited(f) /\ p = f.Size
    <3>1. n = 0
      BY <1>6
    <3>. HIDE DEF n, z, p
    <3>. QED BY <1>3, <1>4, <3>1
  <2>4. PICK e \in Resolved(opening) : Matches(e)
    BY <1>5 DEF InFile
  <2>5. PICK u \in DOMAIN image.entries : e = image.entries[u] /\ e = EntryAt(u)
    BY <2>4 DEF Matches, EntryAt
  <2>6. e.first \in Clusters
    BY <1>3, <2>5, EntryFacts
  <2>7. ~e.dir
    <3>1. e.name = opening[Len(opening)]
      <4>1. Len(opening) \in 1 .. 2
        BY <1>2, PathFacts
      <4>. QED BY <2>4, <4>1 DEF Resolved, Named
    <3>. QED BY <1>2, <2>5, <3>1, PathFacts
  <2>8. f.FirstCluster = e.first /\ f.Size = e.size
    BY <2>4, <2>7 DEF Matches
  <2>9. z = e.size /\ current # ROOT_DIRECTORY_HANDLE
    BY <1>3, <1>5, <2>3, <2>8 DEF InFile
  <2>10. \A i \in 1 .. z : kernel[i] = <<SectorOf(e.first, i - 1), (i - 1) % SectorSize>>
    <3>. SUFFICES ASSUME NEW i \in 1 .. z
                  PROVE  kernel[i] = <<SectorOf(e.first, i - 1), (i - 1) % SectorSize>>
      OBVIOUS
    <3>1. i - 1 \in Nat
      BY <1>3
    <3>2. SectorOf(e.first, i - 1) = Cluster(e.first, (i - 1) \div SectorSize) + DataBias
      BY <1>3, <2>6, <3>1, SectorOfCluster
    <3>3. kernel[i] = UnitAt(i - 1)
      BY <1>4
    <3>4. UnitAt(i - 1) = <<Cluster(e.first, (i - 1) \div SectorSize) + DataBias, (i - 1) % SectorSize>>
      BY <2>8, <2>9 DEF UnitAt, Unit, Here
    <3>. QED BY <3>2, <3>3, <3>4
  <2>11. kernel = [i \in 1 .. z |-> kernel[i]]
    BY <1>3
  <2>12. kernel = Content(e)
    <3>1. kernel = [i \in 1 .. z |-> <<SectorOf(e.first, i - 1), (i - 1) % SectorSize>>]
      <4>. HIDE DEF z
      <4>. QED BY <2>10, <2>11
    <3>2. Content(e) = [i \in 1 .. z |-> <<SectorOf(e.first, i - 1), (i - 1) % SectorSize>>]
      <4>. HIDE DEF z
      <4>. QED BY <2>9 DEF Content
    <3>. QED BY <3>1, <3>2
  <2>13. KernelWhole'
    <3>1. \A x : Content(x)' = Content(x)
      <4>1. \A c, m : Cluster(c, m)' = Cluster(c, m)
        BY <1>1, ImageFixed
      <4>2. \A c, q : SectorOf(c, q)' = SectorOf(c, q)
        BY <4>1 DEF SectorOf
      <4>. QED BY <4>2 DEF Content
    <3>2. Resolved(opening)' = Resolved(opening)
      BY <1>1, ImageFixed
    <3>. QED BY <2>1, <2>4, <2>12, <3>1, <3>2 DEF KernelWhole
  <2>. QED BY <2>1, <2>2, <2>13
           DEF LoadOK, RootOpen, RouteOK, StandOK, BufferOK, OutOK, KernelOK, SearchOK, Working,
               Searching, Copying, NullMeansAbsent
<1>7. CASE rd.out # <<>>
  <2>1. pc' = "load" /\ file' = file /\ kernel' = kernel \o rd.out
    BY <1>7 DEF Copy
  <2>2. Goal' = "load" /\ ~Searching' /\ ~Copying'
    BY <2>1 DEF Goal, Searching, Copying
  <2>3. /\ \A q : UnitAt(q)' = UnitAt(q)
        /\ \A e : Matches(e)' = Matches(e)
        /\ Resolved(opening)' = Resolved(opening)
    BY <1>1, <2>1, SameFile
  <2>4. RouteOK'
    <3>1. InFile'
      BY <1>1, <1>5, <2>2, <2>3 DEF InFile
    <3>. QED BY <3>1 DEF RouteOK
  <2>5. StandOK'
    <3>1. \A c, m : Cluster(c, m)' = Cluster(c, m)
      BY <1>1, ImageFixed
    <3>2. Clusters' = Clusters
      BY <1>1, ImageFixed
    <3>. QED BY <1>1, <1>2, <2>1, <2>2, <3>1, <3>2 DEF LoadOK, StandOK
  <2>6. BufferOK'
    <3>1. Standing' = Standing
      BY <1>1, <2>1, <2>3 DEF Standing
    <3>. QED BY <1>1, <1>2, <2>1, <3>1 DEF LoadOK, BufferOK, Limited, Working
  <2>7. rd'.out = <<>> /\ Len(rd'.out) = 0
    BY <1>1 DEF NoRead
  <2>8. OutOK'
    BY <2>2, <2>7 DEF OutOK
  <2>9. KernelOK'
    <3>1. \A s, t \in Seq(Units) :
            /\ Len(s \o t) = Len(s) + Len(t)
            /\ \A i \in 1 .. Len(s) : (s \o t)[i] = s[i]
            /\ \A i \in 1 .. Len(t) : (s \o t)[Len(s) + i] = t[i]
      <4>. HIDE DEF z, n, p
      <4>1. SUFFICES ASSUME NEW s \in Seq(Units), NEW t \in Seq(Units)
                     PROVE  /\ Len(s \o t) = Len(s) + Len(t)
                            /\ \A i \in 1 .. Len(s) : (s \o t)[i] = s[i]
                            /\ \A i \in 1 .. Len(t) : (s \o t)[Len(s) + i] = t[i]
        OBVIOUS
      <4>. HIDE DEF f
      <4>. QED OBVIOUS
    <3>2. kernel' = kernel \o rd.out
      BY <2>1
    <3>3. /\ Len(kernel') = z + n
          /\ \A i \in 1 .. z : kernel'[i] = kernel[i]
          /\ \A i \in 1 .. n : kernel'[z + i] = rd.out[i]
      BY <1>3, <3>1, <3>2, Zenon
    <3>. HIDE DEF z, n, p
    <3>4. Len(kernel') + 0 = p
      BY <1>3, <1>4, <3>3
    <3>5. \A i \in 1 .. Len(kernel') : kernel'[i] = UnitAt(i - 1)
      <4>. SUFFICES ASSUME NEW i \in 1 .. z + n PROVE kernel'[i] = UnitAt(i - 1)
        BY <3>3
      <4>1. CASE i \in 1 .. z
        BY <1>4, <3>3, <4>1
      <4>2. CASE i \notin 1 .. z
        <5>1. i - z \in 1 .. n /\ z + (i - z) = i /\ p - n + (i - z) - 1 = i - 1
          BY <1>3, <1>4, <4>2
        <5>2. kernel'[z + (i - z)] = rd.out[i - z]
          BY <3>3, <5>1
        <5>3. rd.out[i - z] = UnitAt(p - n + (i - z) - 1)
          BY <1>4, <5>1
        <5>. QED BY <5>1, <5>2, <5>3
      <4>. QED BY <4>1, <4>2
    <3>6. file'[current'].Position = p
      BY <1>1, <2>1 DEF p
    <3>. QED BY <2>3, <2>7, <3>4, <3>5, <3>6 DEF KernelOK
  <2>10. SearchOK'
    BY <2>2 DEF SearchOK
  <2>. QED BY <2>1, <2>2, <2>4, <2>5, <2>6, <2>8, <2>9, <2>10
           DEF LoadOK, RootOpen, KernelWhole, NullMeansAbsent
<1>. QED BY <1>6, <1>7

-----------------------------------------------------------------------------
(* Every step.                                                             *)

\* The steps of the kernel leave what has been loaded as it is.
LEMMA RestLoads ==
  BootInv /\ LoadOK /\ UNCHANGED bootVars => LoadOK'
<1>. SUFFICES ASSUME BootInv, LoadOK, UNCHANGED bootVars PROVE LoadOK'
  OBVIOUS
<1>1. /\ UNCHANGED <<image, pc, geom, buf, io, failed>> /\ UNCHANGED fatVars
      /\ UNCHANGED <<file, path, current, sought, rd, kernel, opening>>
  BY DEF bootVars, diskVars, fatVars
<1>2. Goal' = Goal
  BY <1>1 DEF Goal
<1>3. CASE Goal \in Working \cup {"open"}
  <2>1. RootOpen'
    BY <1>1, <1>2 DEF LoadOK, RootOpen
  <2>2. Standing' = Standing
    BY <1>1, SameFile DEF Standing
  <2>3. BufferOK'
    BY <1>1, <2>2 DEF LoadOK, BufferOK, Limited
  <2>. QED BY <1>1, <1>2, <1>3, <2>1, <2>3, Unmoved
<1>4. CASE Goal \notin Working \cup {"open", "jump", "null"}
  BY <1>2, <1>4, Elsewhere
<1>5. CASE Goal \in {"jump", "null"}
  <2>0. BootTypeOK /\ ReturnsOK
    BY DEF BootInv
  <2>1. pc \in {"jump", "null"} /\ pc' = pc
    BY <1>1, <1>5, <2>0 DEF Goal, ReturnsOK
  <2>2. \A x : Content(x)' = Content(x)
    <3>1. \A c, m : Cluster(c, m)' = Cluster(c, m)
      BY <1>1, ImageFixed
    <3>2. \A c, q : SectorOf(c, q)' = SectorOf(c, q)
      BY <3>1 DEF SectorOf
    <3>. QED BY <3>2 DEF Content
  <2>3. Resolved(opening)' = Resolved(opening)
    BY <1>1, ImageFixed
  <2>4. Healthy' = Healthy
    BY <1>1 DEF Healthy
  <2>5. KernelWhole'
    BY <1>1, <2>2, <2>3, <2>4 DEF LoadOK, KernelWhole
  <2>6. NullMeansAbsent'
    BY <1>1, <2>3, <2>4 DEF LoadOK, NullMeansAbsent
  <2>. QED BY <1>2, <1>5, <2>1, <2>5, <2>6
           DEF LoadOK, RootOpen, RouteOK, StandOK, BufferOK, OutOK, KernelOK, SearchOK, Working,
               Searching, Copying
<1>. QED BY <1>3, <1>4, <1>5

\* The steps of stage 1, the beginning of stage 2, a reboot and the jump into the
\* kernel leave no file in use.
LEMMA EarlyLoads ==
  BootInv /\ ((Stage1 /\ UNCHANGED fatVars) \/ DISK_Initialize \/ FAT_ReadFat
              \/ (wait_key_and_reboot /\ UNCHANGED fatVars) \/ EnterKernel) => LoadOK'
<1>. SUFFICES ASSUME BootInv,
                     \/ Stage1 /\ UNCHANGED fatVars
                     \/ DISK_Initialize \/ FAT_ReadFat
                     \/ wait_key_and_reboot /\ UNCHANGED fatVars
                     \/ EnterKernel
              PROVE  LoadOK'
  OBVIOUS
<1>1. CASE Stage1 /\ UNCHANGED fatVars
  <2>1. Goal' \in {"power", "wait", "search", "next", "got", "start"}
    <3>1. CASE GetDriveParams
      BY <3>1 DEF GetDriveParams, Read, Goal
    <3>2. CASE search_kernel
      <4>1. pc = "search" /\ (pc' = "wait" \/ Read(FatLba, FatBuffer, "next", "wait"))
        BY <3>2 DEF search_kernel
      <4>. QED BY <4>1 DEF Read, Goal
    <3>3. CASE load_kernel_loop
      BY <3>3 DEF load_kernel_loop, Read, Goal
    <3>4. CASE next_cluster_after
      <4>1. pc = "got" /\ pc' \in {"start", "next"}
        BY <3>4 DEF next_cluster_after
      <4>. QED BY <4>1 DEF Goal
    <3>5. CASE ResetFails
      BY <3>5 DEF ResetFails, Goal
    <3>. QED BY <1>1, <3>1, <3>2, <3>3, <3>4, <3>5 DEF Stage1
  <2>. QED BY <2>1, Elsewhere DEF Working
<1>2. CASE DISK_Initialize \/ FAT_ReadFat
  <2>1. Goal' \in {"hang", "fat", "root"}
    BY <1>2 DEF DISK_Initialize, FAT_ReadFat, Read, Goal
  <2>. QED BY <2>1, Elsewhere DEF Working
<1>3. CASE wait_key_and_reboot /\ UNCHANGED fatVars
  <2>1. Goal' = "power"
    BY <1>3 DEF wait_key_and_reboot, Goal
  <2>. QED BY <2>1, Elsewhere DEF Working
<1>4. CASE EnterKernel
  <2>1. Goal' = "kernel"
    BY <1>4 DEF EnterKernel, Goal
  <2>. QED BY <2>1, Elsewhere DEF Working
<1>. QED BY <1>1, <1>2, <1>3, <1>4

\* The invariant is kept by every step.
LEMMA LoadStep == BootInv /\ BootInv' /\ LoadInv /\ [PowerNext]_powerVars => LoadInv'
<1>. SUFFICES ASSUME BootInv, BootInv', LoadInv, [PowerNext]_powerVars PROVE LoadInv'
  OBVIOUS
<1>1. OpeningOK /\ FreshOK /\ OpeningOK' /\ FreshOK'
  BY FreshStep DEF LoadInv
<1>2. ASSUME Healthy' PROVE LoadOK'
  <2>1. CASE DISK_ReadSectors /\ UNCHANGED fatVars
    BY <1>2, <2>1, ArriveLoads, RetryLoads DEF DISK_ReadSectors
  <2>2. CASE \/ Stage1 /\ UNCHANGED fatVars
             \/ DISK_Initialize \/ FAT_ReadFat
             \/ wait_key_and_reboot /\ UNCHANGED fatVars
             \/ EnterKernel
    BY <2>2, EarlyLoads
  <2>3. CASE OpenRoot
    BY <2>3, OpenRootLoads
  <2>4. CASE ReadDone
    BY <1>2, <2>4, ReadDoneLoads
  <2>5. CASE \/ ReadMore \/ FAT_Open \/ FAT_FindFile \/ FindNext \/ NotFound \/ Found \/ Opened
             \/ Load \/ Copy
    <3>1. UNCHANGED <<geom, failed>>
      <4>1. CASE ReadMore
        BY <4>1 DEF ReadMore, Read
      <4>2. CASE Found
        BY <4>2 DEF Found, FAT_OpenEntry, Read
      <4>3. CASE FAT_Open \/ FAT_FindFile \/ FindNext \/ NotFound \/ Opened \/ Load \/ Copy
        BY <4>3 DEF FAT_Open, FAT_FindFile, FindNext, NotFound, Opened, Load, Copy, KeepDisk
      <4>. QED BY <2>5, <4>1, <4>2, <4>3
    <3>2. LoadOK
      BY <1>2, <3>1 DEF LoadInv, Healthy
    <3>. QED BY <1>1, <2>5, <3>2, ReadMoreLoads, OpenLoads, FindLoads, NotFoundLoads, FoundLoads,
                OpenedLoads, LoadLoads, CopyLoads
  <2>6. CASE UNCHANGED bootVars
    <3>1. UNCHANGED <<geom, failed>>
      BY <2>6 DEF bootVars, diskVars
    <3>2. LoadOK
      BY <1>2, <3>1 DEF LoadInv, Healthy
    <3>. QED BY <2>6, <3>2, RestLoads
  <2>. QED BY <2>1, <2>2, <2>3, <2>4, <2>5, <2>6
           DEF PowerNext, Loading, Kernel, powerVars, Next, Processor, Stage2
<1>. QED BY <1>1, <1>2 DEF LoadInv

\* It holds when the machine is switched on.
LEMMA LoadInvInit == Init => LoadInv
<1>. SUFFICES ASSUME Init PROVE LoadInv
  OBVIOUS
<1>1. pc = "power" /\ Goal = "power" /\ kernel = <<>>
  BY DEF Init, Goal
<1>. QED BY <1>1
         DEF LoadInv, OpeningOK, FreshOK, LoadOK, RootOpen, RouteOK, StandOK, BufferOK, OutOK,
             KernelOK, SearchOK, Working, Searching, Copying, KernelWhole, NullMeansAbsent

\* Both invariants hold at every time.
LEMMA LoadInvariant == PowerSpec => [](BootInv /\ LoadInv)
<1>1. PowerInit => BootInv /\ LoadInv
  BY BootInvInit, LoadInvInit DEF PowerInit
<1>. QED BY <1>1, BootInvStep, LoadStep, PTL DEF PowerSpec

\* KernelWhole: whatever has been retried on the way, what start() jumps into is
\* the file that was asked for, every unit once and in order, unless a read has
\* failed for good.
THEOREM KernelComplete == PowerSpec => []KernelWhole
<1>1. BootInv /\ LoadInv => KernelWhole
  BY DEF LoadInv, LoadOK, KernelWhole
<1>. QED BY <1>1, LoadInvariant, PTL

\* NullMeansAbsent: FAT_Open returns NULL only for a path that names nothing,
\* unless a read has failed for good or the name compared with ends in garbage.
THEOREM NullHonest == PowerSpec => []NullMeansAbsent
<1>1. BootInv /\ LoadInv => NullMeansAbsent
  BY DEF LoadInv, LoadOK, NullMeansAbsent
<1>. QED BY <1>1, LoadInvariant, PTL

\* BufferCurrent: between two calls of FAT_Read the buffer of the file in use
\* holds the sector of its position.
THEOREM BufferKept == PowerSpec => []BufferCurrent
<1>1. ASSUME BootInv, LoadInv PROVE BufferCurrent
  <2>. DEFINE f == file[current]
  <2>. SUFFICES ASSUME pc \in {"find", "entry", "load", "copy"}, Healthy,
                       (f.IsDirectory /\ f.Size = 0) \/ f.Position < f.Size
                PROVE  buf[current] = IF current = ROOT_DIRECTORY_HANDLE
                                      THEN RootLba + f.Position \div SectorSize
                                      ELSE SectorOf(f.FirstCluster, f.Position)
    BY DEF BufferCurrent
  <2>1. LoadOK /\ RouteOK /\ BufferOK
    BY <1>1 DEF LoadInv, LoadOK
  <2>2. pc \in Working /\ Goal \in Working
    BY DEF Working, Goal
  <2>3. /\ image \in Images /\ f.Position \in Nat /\ f.Size \in Nat
        /\ current = ROOT_DIRECTORY_HANDLE <=> ~(current >= 0)
    BY <1>1, Facts
  <2>4. ~(Limited(f) /\ f.Position = f.Size)
    BY <2>3 DEF Limited
  <2>5. buf[current] = Standing
    BY <2>1, <2>2, <2>4 DEF BufferOK
  <2>6. Standing = Here(current, f.FirstCluster, f.Position)
    BY DEF Standing, UnitAt, Unit
  <2>7. CASE current = ROOT_DIRECTORY_HANDLE
    BY <2>5, <2>6, <2>7 DEF Here
  <2>8. CASE current # ROOT_DIRECTORY_HANDLE
    <3>1. f.FirstCluster \in Clusters
      BY <1>1, <2>1, <2>2, <2>3, <2>8, InUse
    <3>2. SectorOf(f.FirstCluster, f.Position)
            = Cluster(f.FirstCluster, f.Position \div SectorSize) + DataBias
      BY <2>3, <3>1, SectorOfCluster
    <3>. QED BY <2>5, <2>6, <2>8, <3>2 DEF Here
  <2>. QED BY <2>7, <2>8
<1>. QED BY <1>1, LoadInvariant, PTL
=============================================================================
