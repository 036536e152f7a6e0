-------------------------- MODULE MonitorNetProofs --------------------------
(***************************************************************************)
(* Proofs about the monitor's hand-shake and its descriptor table: the     *)
(* monitor and its two threads remember descriptors by number and close    *)
(* numbers, over any number of boot cycles.                                *)
(*                                                                         *)
(* The argument has three layers.  The control layer says in which phase   *)
(* of the monitor a thread, the intermediate and init can be where.  The   *)
(* table layer says that an open descriptor of a kind is at the number its *)
(* owner remembers, so that the owner's close removes the kind, and how    *)
(* the lowest free numbers fall out; it holds even after a foreign close.  *)
(* The third layer says that an owner's number still holds the owner's     *)
(* descriptor, as long as nobody was harmed.                               *)
(***************************************************************************)
EXTENDS MonitorNet, FiniteSetTheorems, TLAPS

(* The monitor's phases up to the start of the DHCP server. *)
BeforeDhcp == {"pipes", "fork", "pid", "ready", "veth", "dhcp"}
Wiring == {"pid", "ready", "veth", "dhcp", "listen", "reap", "create", "rewire", "done"}
EndOf == {"readyR", "readyW", "doneR", "doneW", "midR", "midW"}

(* Control: the intermediate and init between two cycles and during one.   *)
(* No byte releases init before the monitor has written it.                *)
HandShake ==
  /\ mid = "none" => init = "none"
  /\ mid = "start" => init = "none"
  /\ mid = "dead" => init \in {"dead", "reboot"}
  /\ mpc \in {"stopdhcp", "loop", "pipes", "fork"} => mid \in {"none", "dead"}
  /\ mpc = "stopdhcp" => init = "reboot"
  /\ init = "reboot" => \/ cycle < MaxCycle
                        \/ mpc \in {"loop", "pipes", "fork", "gone", "killed"}
  /\ mpc \in Wiring \cup {"fork"} => "done" \notin bytes
  /\ mpc \in Wiring => init \notin {"run", "reboot"}

(* Control: the DHCP thread is gone until the server is started, the route *)
(* monitor's thread is one that can still be joined and is told to stop    *)
(* only on the way out.                                                    *)
Threads ==
  /\ mpc \in BeforeDhcp \cup {"loop"} => dhcp.pc = "none"
  /\ dhcp.pc # "none" => dhcp.efd # 0
  /\ mpc = "create" => android /\ rt.pc = "none"
  /\ rt.pc # "none" => android /\ rt.join
  /\ rt.stop => mpc \in {"joinroute", "lastdhcp", "exit", "gone", "killed"}

(* An open descriptor is at the number where its owner will close it. *)
Owned ==
  \A n \in Fd :
    /\ fd[n] \in EndOf \cup {"signalfd"} => num[fd[n]] = n
    /\ fd[n] = "eventfd" => dhcp.efd = n
    /\ fd[n] = "packet" => dhcp.sock = n /\ dhcp.pc \in {"poll", "close"}
    /\ fd[n] = "netlink" => rt.sock = n /\ (rt.pc = "loop" \/ (rt.pc = "close" /\ rt.stop))

(* What is closed for certain in a phase of the monitor. *)
Closed ==
  \A n \in Fd :
    /\ fd[n] = "midW" => mpc = "fork"
    /\ fd[n] = "midR" => mpc \in {"fork", "pid"}
    /\ fd[n] = "signalfd" => mpc = "watch"
    /\ mpc \in {"ready", "veth", "dhcp"} => fd[n] \notin {"readyW", "doneR"}
    /\ mpc \in {"veth", "dhcp"} => fd[n] # "readyR"
    /\ mpc = "pipes" => fd[n] \notin NetEnds
    /\ mpc \in BeforeDhcp => fd[n] # "eventfd"

(* An eventfd whose thread was never made is at a number that reboot_loop  *)
(* closes: until the server starts, the numbers below doneW are taken or   *)
(* are those of the hand-shake's pipes.                                    *)
Compact ==
  /\ dhcp.pc = "none" =>
       \A n \in Fd : fd[n] = "eventfd" => \E e \in NetEnds : n = num[e]
  /\ mpc \in BeforeDhcp \ {"pipes"} =>
       /\ num["doneW"] \in Fd /\ num["readyR"] \in Fd /\ num["readyW"] \in Fd
       /\ num["readyR"] < num["doneW"] /\ num["readyW"] < num["doneW"]
       /\ num["readyR"] # num["readyW"]
       /\ num["doneW"] < num["midR"] /\ num["doneW"] < num["midW"]
       /\ \A n \in Fd : n < num["doneW"] => fd[n] # Free \/ \E e \in NetEnds : n = num[e]

TableInv == HandShake /\ Threads /\ Owned /\ Closed /\ Compact

(* The owner's number holds the owner's descriptor: what a foreign close   *)
(* would break.                                                            *)
Held ==
  /\ \A e \in EndOf :
       \/ mpc = "fork"
       \/ mpc = "pid" /\ e # "midW"
       \/ mpc = "ready" /\ e = "readyR"
       \/ mpc \in Wiring \ {"pid"} /\ e = "doneW"
       => num[e] \in Fd /\ fd[num[e]] = e
  /\ mpc = "watch" => num["signalfd"] \in Fd /\ fd[num["signalfd"]] = "signalfd"
  /\ dhcp.pc # "none" => dhcp.efd \in Fd /\ fd[dhcp.efd] = "eventfd"
  /\ dhcp.pc = "start" => dhcp.sock = 0
  /\ dhcp.pc \in {"poll", "close"} /\ dhcp.sock # 0 => fd[dhcp.sock] = "packet"
  /\ rt.pc \in {"loop", "close"} => rt.sock \in Fd /\ fd[rt.sock] = "netlink"

UnharmedHeld == harmed = {} => Held

-----------------------------------------------------------------------------
(***************************************************************************)
(* The descriptor table.                                                   *)
(***************************************************************************)
Kinds == EndOf \cup {"eventfd", "packet", "netlink", "signalfd"}

(* The pipe ends, without their order. *)
LEMMA EndsAre == Range(Ends) = EndOf
<1>1. Ends = [i \in 1..6 |-> Ends[i]] /\ DOMAIN Ends = 1..6
  BY DEF Ends
<1>2. \A i \in 1..6 : i = 1 \/ i = 2 \/ i = 3 \/ i = 4 \/ i = 5 \/ i = 6
  OBVIOUS
<1>3. \A i \in 1..6 : Ends[i] \in EndOf
  BY <1>2 DEF Ends, EndOf
<1>4. \A e \in EndOf : \E i \in 1..6 : Ends[i] = e
  BY DEF Ends, EndOf
<1>q. QED BY <1>1, <1>3, <1>4 DEF Range

(* The numbers up to n are n numbers. *)
LEMMA IntervalCount ==
  ASSUME NEW n \in Nat PROVE IsFiniteSet(1..n) /\ Cardinality(1..n) = n
<1>1. /\ IsFiniteSet(1..n)
      /\ Cardinality(1..n) = IF 1 > n THEN 0 ELSE n - 1 + 1
  <2>1. n \in Int /\ 1 \in Int
    OBVIOUS
  <2>q. QED BY ONLY <2>1, FS_Interval
<1>q. QED BY <1>1

(* A table with a free number has a lowest free number. *)
LEMMA LeastFree ==
  ASSUME \E n \in Fd : fd[n] = Free
  PROVE  \E n \in Fd : fd[n] = Free /\ \A k \in Fd : k < n => fd[k] # Free
<1> SUFFICES ASSUME \A n \in Fd : fd[n] = Free => \E k \in Fd : k < n /\ fd[k] = Free
             PROVE  \A n \in Fd : fd[n] # Free
  OBVIOUS
<1> USE DEF Fd
<1>1. \A n \in 1..3 : fd[n] # Free
  OBVIOUS
<1>2. \A n \in 1..6 : fd[n] # Free
  BY <1>1
<1>3. \A n \in 1..8 : fd[n] # Free
  BY <1>2
<1>q. QED BY <1>3

(* open() returns the lowest free number if there is a free one. *)
LEMMA NextFdIs ==
  ASSUME \E n \in Fd : fd[n] = Free
  PROVE  /\ NextFd \in Fd /\ fd[NextFd] = Free
         /\ \A k \in Fd : k < NextFd => fd[k] # Free
<1> DEFINE F(n) == {k \in 1..n : fd[k] = Free}
<1>1. PICK w \in Fd : fd[w] = Free /\ \A k \in Fd : k < w => fd[k] # Free
  BY LeastFree
<1>2. F(w) = {w}
  BY <1>1 DEF Fd
<1>3. Cardinality(F(w)) = 1
  BY <1>2, FS_Singleton
<1>4. NextFd \in Fd /\ fd[NextFd] = Free /\ Cardinality(F(NextFd)) = 1
  BY <1>1, <1>3 DEF NextFd, FreeNumber
<1>5. NextFd \in 1..NextFd /\ NextFd \in Int
  BY <1>4 DEF Fd
<1>6. IsFiniteSet(F(NextFd))
  <2>1. IsFiniteSet(1..NextFd)
    BY <1>5, FS_Interval
  <2>q. QED BY <2>1, FS_Subset
<1>7. PICK x : F(NextFd) = {x}
  BY <1>4, <1>6, FS_Singleton
<1>8. ASSUME NEW k \in Fd, k < NextFd, fd[k] = Free PROVE FALSE
  <2>1. k \in F(NextFd) /\ NextFd \in F(NextFd)
    BY <1>4, <1>5, <1>8 DEF Fd
  <2>q. QED BY ONLY <1>7, <1>8, <1>5, <2>1 DEF Fd
<1>q. QED BY <1>4, <1>8

(* The table has room for a descriptor of a kind that is not open yet.     *)
LEMMA RoomFor ==
  ASSUME TypeOK, Owned, NEW what \in Kinds, \A n \in Fd : fd[n] # what
  PROVE  /\ NextFd \in Fd /\ fd[NextFd] = Free
         /\ \A k \in Fd : k < NextFd => fd[k] # Free
<1> DEFINE L == <<"readyR", "readyW", "doneR", "doneW", "midR", "midW", "eventfd", "packet",
                  "netlink", "signalfd">>
           T == Kinds \ {what}
<1>1. IsFiniteSet(Kinds) /\ Cardinality(Kinds) <= 10
  <2>1. L \in [1..10 -> Kinds]
    BY DEF Kinds, EndOf
  <2>2. \A t \in Kinds : \E i \in 1..10 : L[i] = t
    BY DEF Kinds, EndOf
  <2>3. L \in Surjection(1..10, Kinds)
    BY <2>1, <2>2 DEF Surjection
  <2>4. IsFiniteSet(1..10) /\ Cardinality(1..10) = 10
    BY IntervalCount
  <2>q. QED BY ONLY <2>3, <2>4, FS_Surjection
<1>2. IsFiniteSet(T) /\ Cardinality(T) < 10
  <2>1. Cardinality(Kinds) \in Nat
    BY <1>1, FS_CardinalityType
  <2>q. QED BY <1>1, <2>1, FS_RemoveElement
<1>3. IsFiniteSet(Fd) /\ Cardinality(Fd) = 10
  BY IntervalCount DEF Fd
<1>4. ASSUME \A n \in Fd : fd[n] # Free PROVE FALSE
  <2>1. \A n \in Fd : fd[n] \in T
    BY <1>4, EndsAre DEF TypeOK, Kinds
  <2>2. fd \in [Fd -> T]
    BY <2>1 DEF TypeOK
  <2>3. PICK x \in Fd, y \in Fd : x # y /\ fd[x] = fd[y]
    BY ONLY <1>2, <1>3, <2>2, FS_PigeonHole
  <2>4. fd[x] \in Kinds
    BY <2>1
  <2>q. QED BY <2>3, <2>4 DEF Owned, Kinds
<1>q. QED BY <1>4, NextFdIs

(* With one number taken at most, the lowest free numbers are consecutive  *)
(* but for that one.                                                       *)
LEMMA FreeNumberIs ==
  ASSUME NEW m \in 1..11, \A n \in Fd : fd[n] = Free <=> n # m, NEW i \in 1..6
  PROVE  FreeNumber(i) = IF i < m THEN i ELSE i + 1
<1> DEFINE F(n) == {k \in 1..n : fd[k] = Free}
           w == IF i < m THEN i ELSE i + 1
<1>1. ASSUME NEW n \in Fd PROVE Cardinality(F(n)) = IF m <= n THEN n - 1 ELSE n
  <2>1. F(n) = (1..n) \ {m}
    BY DEF Fd
  <2>2. IsFiniteSet(1..n) /\ Cardinality(1..n) = n
    BY IntervalCount DEF Fd
  <2>3. Cardinality((1..n) \ {m}) = IF m \in 1..n THEN Cardinality(1..n) - 1
                                    ELSE Cardinality(1..n)
    BY ONLY <2>2, FS_RemoveElement
  <2>4. m \in 1..n <=> m <= n
    BY DEF Fd
  <2>q. QED BY ONLY <2>1, <2>2, <2>3, <2>4
<1>2. w \in Fd /\ fd[w] = Free /\ Cardinality(F(w)) = i
  <2>1. w \in Fd /\ w # m
    BY DEF Fd
  <2>2. Cardinality(F(w)) = IF m <= w THEN w - 1 ELSE w
    BY <1>1, <2>1
  <2>3. (IF m <= w THEN w - 1 ELSE w) = i
    OBVIOUS
  <2>q. QED BY <2>1, <2>2, <2>3
<1>3. ASSUME NEW n \in Fd, fd[n] = Free, Cardinality(F(n)) = i PROVE n = w
  <2>1. i = IF m <= n THEN n - 1 ELSE n
    BY <1>1, <1>3
  <2>2. n # m
    BY <1>3
  <2>q. QED BY ONLY <2>1, <2>2, m \in 1..11, n \in Fd DEF Fd
<1> HIDE DEF w
<1>4. FreeNumber(i) = CHOOSE n \in Fd : fd[n] = Free /\ Cardinality(F(n)) = i
  BY DEF FreeNumber
<1>5. FreeNumber(i) = w
  BY <1>2, <1>3, <1>4
<1>q. QED BY <1>5 DEF w

(* The three pipes after pipe() made them: each end at its own number, in  *)
(* ascending order, nothing else moved and no free number left in between. *)
Laid ==
  /\ fd' \in [Fd -> Kinds \cup {Free}] /\ num' \in [EndOf \cup {"signalfd"} -> Fd \cup {0}]
  /\ \A e \in EndOf : num'[e] \in Fd /\ fd'[num'[e]] = e
  /\ \A n \in Fd : fd'[n] \in EndOf => num'[fd'[n]] = n
  /\ \A n \in Fd : fd[n] \in {Free, "netlink"} /\ fd'[n] \in EndOf \cup {fd[n]}
  /\ \A n \in Fd : fd[n] # Free => fd'[n] = fd[n]
  /\ num'["readyR"] < num'["readyW"] /\ num'["readyW"] < num'["doneR"]
  /\ num'["doneR"] < num'["doneW"] /\ num'["doneW"] < num'["midR"]
  /\ num'["doneW"] < num'["midW"]
  /\ \A n \in Fd : n < num'["doneW"] => fd[n] # Free \/ \E e \in NetEnds : n = num'[e]

(* MakePipes lays the six ends out as Laid says. *)
LEMMA PipesEffect == ASSUME TypeOK, TableInv, MakePipes PROVE Laid
<1>1. \A n \in Fd : fd[n] \in {Free, "netlink"}
  <2>1. \A n \in Fd : fd[n] \in Kinds \cup {Free}
    BY EndsAre DEF TypeOK, Kinds
  <2>2. mpc = "pipes" /\ dhcp.pc = "none"
    BY DEF MakePipes, At, TableInv, Threads, BeforeDhcp
  <2>q. QED BY <2>1, <2>2 DEF TableInv, Closed, Owned, Kinds, EndOf, NetEnds, BeforeDhcp
<1>2. PICK m \in 1..11 : \A n \in Fd : fd[n] = Free <=> n # m
  <2>1. CASE \E n \in Fd : fd[n] = "netlink"
    <3>1. PICK m \in Fd : fd[m] = "netlink"
      BY <2>1
    <3>2. \A n \in Fd : fd[n] = "netlink" => n = m
      BY <3>1 DEF TableInv, Owned
    <3>3. \A n \in Fd : fd[n] = Free <=> n # m
      BY <1>1, <3>1, <3>2 DEF Free
    <3>4. m \in 1..11
      BY DEF Fd
    <3>q. QED BY <3>3, <3>4
  <2>2. CASE \A n \in Fd : fd[n] # "netlink"
    <3>1. \A n \in Fd : fd[n] = Free /\ n # 11
      BY <2>2, <1>1 DEF Fd
    <3>2. 11 \in 1..11
      OBVIOUS
    <3>q. QED BY <3>1, <3>2
  <2>q. QED BY <2>1, <2>2
<1> DEFINE P(i) == IF i < m THEN i ELSE i + 1
           end == [i \in 1..6 |-> FreeNumber(i)]
<1>3. \A i \in 1..6 : end[i] = P(i)
  BY <1>2, FreeNumberIs
<1>4. /\ \A i \in 1..6 : end[i] \in Fd /\ fd[end[i]] = Free
      /\ \A i, j \in 1..6 : i < j => end[i] < end[j]
      /\ \A n \in Fd : n < end[4] /\ fd[n] = Free => \E i \in 1..3 : end[i] = n
  <2>1. \A i \in 1..6 : P(i) \in Fd /\ P(i) # m
    BY <1>2 DEF Fd
  <2>2. \A i, j \in 1..6 : i < j => P(i) < P(j)
    BY <1>2
  <2>3. ASSUME NEW n \in Fd, n < P(4), n # m PROVE \E i \in 1..3 : P(i) = n
    <3>1. CASE n < m
      <4>1. n \in 1..3 /\ P(n) = n
        BY <2>3, <3>1 DEF Fd
      <4>q. QED BY <4>1
    <3>2. CASE n > m
      <4>1. n - 1 \in 1..3 /\ P(n - 1) = n
        BY <2>3, <3>2 DEF Fd
      <4>q. QED BY <4>1
    <3>q. QED BY <2>3, <3>1, <3>2 DEF Fd
  <2> HIDE DEF P, end
  <2>4. 4 \in 1..6 /\ \A i \in 1..3 : i \in 1..6
    OBVIOUS
  <2>q. QED BY <1>2, <1>3, <2>1, <2>2, <2>3, <2>4
<1>5. /\ fd' = [n \in Fd |-> IF \E i \in 1..6 : end[i] = n
                              THEN Ends[CHOOSE i \in 1..6 : end[i] = n] ELSE fd[n]]
      /\ num' = [e \in DOMAIN num |-> IF \E i \in 1..6 : Ends[i] = e
                              THEN end[CHOOSE i \in 1..6 : Ends[i] = e] ELSE num[e]]
  BY DEF MakePipes
<1> HIDE DEF P, end
<1>6. /\ \A i, j \in 1..6 : Ends[i] = Ends[j] => i = j
      /\ \A i \in 1..6 : Ends[i] \in EndOf
      /\ \A e \in EndOf : \E i \in 1..6 : Ends[i] = e
  <2>1. \A i \in 1..6 : i = 1 \/ i = 2 \/ i = 3 \/ i = 4 \/ i = 5 \/ i = 6
    OBVIOUS
  <2>q. QED BY <2>1 DEF Ends, EndOf
<1>7. ASSUME NEW i \in 1..6 PROVE fd'[end[i]] = Ends[i] /\ num'[Ends[i]] = end[i]
  <2>1. \A j \in 1..6 : end[j] = end[i] => j = i
    <3>1. ASSUME NEW j \in 1..6, end[j] = end[i], j # i PROVE FALSE
      <4>1. j < i \/ i < j
        BY <3>1
      <4>2. end[i] \in Int /\ end[j] \in Int
        BY <1>4 DEF Fd
      <4>q. QED BY <1>4, <3>1, <4>1, <4>2
    <3>q. QED BY <3>1
  <2>2. (CHOOSE j \in 1..6 : end[j] = end[i]) = i
    BY <2>1
  <2>3. (CHOOSE j \in 1..6 : Ends[j] = Ends[i]) = i
    BY <1>6
  <2>4. end[i] \in Fd /\ Ends[i] \in DOMAIN num
    BY <1>4, <1>6, EndsAre DEF TypeOK
  <2>q. QED BY <1>5, <2>2, <2>3, <2>4
<1>8. ASSUME NEW n \in Fd, \A i \in 1..6 : end[i] # n PROVE fd'[n] = fd[n]
  BY <1>5, <1>8
<1>9. \A e \in EndOf : num'[e] \in Fd /\ fd'[num'[e]] = e
  BY <1>4, <1>6, <1>7
<1>10. \A n \in Fd : fd'[n] \in EndOf => num'[fd'[n]] = n
  BY <1>1, <1>7, <1>8 DEF EndOf, Free
<1>11. \A n \in Fd : fd'[n] \in EndOf \cup {fd[n]}
  BY <1>6, <1>7, <1>8
<1>12. \A n \in Fd : fd[n] # Free => fd'[n] = fd[n]
  BY <1>4, <1>8
<1>13. /\ num'["readyR"] = end[1] /\ num'["readyW"] = end[2] /\ num'["doneR"] = end[3]
       /\ num'["doneW"] = end[4] /\ num'["midR"] = end[5] /\ num'["midW"] = end[6]
  BY <1>7 DEF Ends
<1>14. \A n \in Fd : n < num'["doneW"] => fd[n] # Free \/ \E e \in NetEnds : n = num'[e]
  <2>1. \A i \in 1..3 : i = 1 \/ i = 2 \/ i = 3
    OBVIOUS
  <2>q. QED BY <1>4, <1>13, <2>1 DEF NetEnds
<1>15. /\ end[1] < end[2] /\ end[2] < end[3] /\ end[3] < end[4] /\ end[4] < end[5]
       /\ end[4] < end[6]
  BY <1>4
<1>16. fd' \in [Fd -> Kinds \cup {Free}]
  BY <1>1, <1>5, <1>11 DEF Kinds
<1>17. num' \in [EndOf \cup {"signalfd"} -> Fd \cup {0}]
  <2>1. num \in [EndOf \cup {"signalfd"} -> Fd \cup {0}]
    BY EndsAre DEF TypeOK
  <2>2. "signalfd" \notin EndOf
    BY DEF EndOf
  <2>3. num'["signalfd"] = num["signalfd"]
    BY <1>5, <1>6, <2>1, <2>2
  <2>4. \A e \in EndOf \cup {"signalfd"} : num'[e] \in Fd \cup {0}
    BY <1>9, <2>1, <2>3
  <2>5. DOMAIN num = EndOf \cup {"signalfd"}
    BY <2>1
  <2>6. num' = [e \in EndOf \cup {"signalfd"} |-> num'[e]]
    BY <1>5, <2>5
  <2>q. QED BY ONLY <2>4, <2>6
<1>q. QED
  BY <1>1, <1>9, <1>10, <1>11, <1>12, <1>13, <1>14, <1>15, <1>16, <1>17 DEF Laid

(* The monitor finds a free number whenever it or a thread opens one. *)
Room ==
  /\ NextFd \in Fd /\ fd[NextFd] = Free
  /\ \A k \in Fd : k < NextFd => fd[k] # Free

(* Whoever is about to open a descriptor has none of the kind open. *)
LEMMA RoomNow ==
  ASSUME TypeOK, TableInv,
         mpc \in {"dhcp", "signalfd"} \/ dhcp.pc = "start" \/ rt.pc = "start"
  PROVE  Room
<1> USE DEF TableInv, Room, Kinds
<1>1. CASE mpc = "dhcp"
  <2>1. \A n \in Fd : fd[n] # "eventfd"
    BY <1>1 DEF Closed, BeforeDhcp
  <2>q. QED BY <2>1, RoomFor
<1>2. CASE mpc = "signalfd"
  <2>1. \A n \in Fd : fd[n] # "signalfd"
    BY <1>2 DEF Closed
  <2>q. QED BY <2>1, RoomFor
<1>3. CASE dhcp.pc = "start"
  <2>1. \A n \in Fd : fd[n] # "packet"
    BY <1>3 DEF Owned
  <2>q. QED BY <2>1, RoomFor
<1>4. CASE rt.pc = "start"
  <2>1. \A n \in Fd : fd[n] # "netlink"
    BY <1>4 DEF Owned
  <2>q. QED BY <2>1, RoomFor
<1>q. QED BY <1>1, <1>2, <1>3, <1>4

-----------------------------------------------------------------------------
(***************************************************************************)
(* The steps, one lemma for each part of the invariant.                    *)
(***************************************************************************)
(* No step lets init go on before the monitor has written the hand-shake. *)
LEMMA HandShakeKept == TypeOK /\ TableInv /\ [Next]_vars => HandShake'
<1> SUFFICES ASSUME TypeOK, TableInv, [Next]_vars PROVE HandShake'
  OBVIOUS
<1> USE DEF TypeOK, TableInv, HandShake, Wiring
<1>1. CASE UNCHANGED vars
  BY <1>1 DEF vars
<1>2. CASE Monitor
  <2>1. CASE CloseStale
    BY <2>1 DEF CloseStale, At, Close
  <2>2. CASE MakePipes
    BY <2>2 DEF MakePipes, At
  <2>3. CASE ForkMid
    BY <2>3 DEF ForkMid, At, Close
  <2>4. CASE ReadPid
    BY <2>4 DEF ReadPid, Close
  <2>5. CASE ReadReady
    BY <2>5 DEF ReadReady, At, Close
  <2>6. CASE SetupVeth
    BY <2>6 DEF SetupVeth
  <2>7. CASE DhcpStart
    BY <2>7 DEF DhcpStart, Opened
  <2>8. CASE DhcpListens
    BY <2>8 DEF DhcpListens, At
  <2>9. CASE RouteReap
    BY <2>9 DEF RouteReap
  <2>10. CASE RouteCreate
    BY <2>10 DEF RouteCreate, At
  <2>11. CASE Rewire
    BY <2>11 DEF Rewire, At
  <2>12. CASE SendDone
    BY <2>12 DEF SendDone, At, Close
  <2>13. CASE OpenSignalfd
    BY <2>13 DEF OpenSignalfd, At, Opened
  <2>14. CASE Reaped
    BY <2>14 DEF Reaped, Close
  <2>15. CASE Reboot
    BY <2>15 DEF Reboot, DhcpStop, DhcpJoin, Close
  <2>16. CASE StopRouteMonitor
    BY <2>16 DEF StopRouteMonitor, At
  <2>17. CASE JoinRouteMonitor
    BY <2>17 DEF JoinRouteMonitor
  <2>18. CASE LastDhcpStop
    BY <2>18 DEF LastDhcpStop, DhcpStop, DhcpJoin, Close
  <2>19. CASE Exit
    BY <2>19 DEF Exit, Gone
  <2>q. QED BY <1>2, <2>1, <2>2, <2>3, <2>4, <2>5, <2>6, <2>7, <2>8, <2>9, <2>10, <2>11,
         <2>12, <2>13, <2>14, <2>15, <2>16, <2>17, <2>18, <2>19 DEF Monitor
<1>3. CASE Killed
  BY <1>3 DEF Killed, Gone
<1>4. CASE Mid
  <2>1. CASE MidForks
    BY <2>1 DEF MidForks
  <2>2. CASE MidSends
    BY <2>2 DEF MidSends
  <2>3. CASE MidExits
    BY <2>3 DEF MidExits
  <2>q. QED BY <1>4, <2>1, <2>2, <2>3 DEF Mid
<1>5. CASE InitBoots
  <2>1. CASE InitReady
    BY <2>1 DEF InitReady
  <2>2. CASE InitDone
    BY <2>2 DEF InitDone
  <2>q. QED BY <1>5, <2>1, <2>2 DEF InitBoots
<1>6. CASE InitReboots
  BY <1>6 DEF InitReboots
<1>7. CASE InitDies
  BY <1>7 DEF InitDies
<1>8. CASE DhcpThread
  <2>1. CASE DhcpBind
    BY <2>1 DEF DhcpBind, Opened
  <2>2. CASE DhcpEnds
    BY <2>2 DEF DhcpEnds
  <2>3. CASE DhcpCloses
    BY <2>3 DEF DhcpCloses, Close
  <2>q. QED BY <1>8, <2>1, <2>2, <2>3 DEF DhcpThread
<1>9. CASE DhcpRecvFails
  BY <1>9 DEF DhcpRecvFails
<1>10. CASE RouteThread
  <2>1. CASE RouteBinds
    BY <2>1 DEF RouteBinds, Opened
  <2>2. CASE RouteEnds
    BY <2>2 DEF RouteEnds
  <2>3. CASE RouteCloses
    BY <2>3 DEF RouteCloses, Close
  <2>q. QED BY <1>10, <2>1, <2>2, <2>3 DEF RouteThread
<1>q. QED
  BY <1>1, <1>2, <1>3, <1>4, <1>5, <1>6, <1>7, <1>8, <1>9, <1>10 DEF Next

(* No step starts a thread over one that runs, and none but the cleanup   *)
(* tells the route monitor to stop.                                        *)
LEMMA ThreadsKept == TypeOK /\ TableInv /\ [Next]_vars => Threads'
<1> SUFFICES ASSUME TypeOK, TableInv, [Next]_vars PROVE Threads'
  OBVIOUS
<1>r. mpc = "dhcp" => NextFd \in Fd
  BY RoomNow DEF Room
<1>0. 0 \notin Fd
  BY DEF Fd
<1> USE DEF TypeOK, TableInv, Threads, BeforeDhcp
<1>1. CASE UNCHANGED vars
  BY <1>1 DEF vars
<1>2. CASE Monitor
  <2>1. CASE CloseStale
    BY <2>1 DEF CloseStale, At, Close
  <2>2. CASE MakePipes
    BY <2>2 DEF MakePipes, At
  <2>3. CASE ForkMid
    BY <2>3 DEF ForkMid, At, Close
  <2>4. CASE ReadPid
    BY <2>4 DEF ReadPid, Close
  <2>5. CASE ReadReady
    BY <2>5 DEF ReadReady, At, Close
  <2>6. CASE SetupVeth
    BY <2>6 DEF SetupVeth
  <2>7. CASE DhcpStart
    BY <2>7, <1>r, <1>0 DEF DhcpStart
  <2>8. CASE DhcpListens
    BY <2>8 DEF DhcpListens, At
  <2>9. CASE RouteReap
    BY <2>9 DEF RouteReap
  <2>10. CASE RouteCreate
    BY <2>10 DEF RouteCreate, At
  <2>11. CASE Rewire
    BY <2>11 DEF Rewire, At
  <2>12. CASE SendDone
    BY <2>12 DEF SendDone, At, Close
  <2>13. CASE OpenSignalfd
    BY <2>13 DEF OpenSignalfd, At, Opened
  <2>14. CASE Reaped
    BY <2>14 DEF Reaped, Close
  <2>15. CASE Reboot
    BY <2>15 DEF Reboot, DhcpStop, DhcpJoin, Close
  <2>16. CASE StopRouteMonitor
    BY <2>16 DEF StopRouteMonitor, At
  <2>17. CASE JoinRouteMonitor
    BY <2>17 DEF JoinRouteMonitor
  <2>18. CASE LastDhcpStop
    BY <2>18 DEF LastDhcpStop, DhcpStop, DhcpJoin, Close
  <2>19. CASE Exit
    BY <2>19 DEF Exit, Gone
  <2>q. QED BY <1>2, <2>1, <2>2, <2>3, <2>4, <2>5, <2>6, <2>7, <2>8, <2>9, <2>10, <2>11,
         <2>12, <2>13, <2>14, <2>15, <2>16, <2>17, <2>18, <2>19 DEF Monitor
<1>3. CASE Killed
  BY <1>3 DEF Killed, Gone
<1>4. CASE Mid
  <2>1. CASE MidForks
    BY <2>1 DEF MidForks
  <2>2. CASE MidSends
    BY <2>2 DEF MidSends
  <2>3. CASE MidExits
    BY <2>3 DEF MidExits
  <2>q. QED BY <1>4, <2>1, <2>2, <2>3 DEF Mid
<1>5. CASE InitBoots
  <2>1. CASE InitReady
    BY <2>1 DEF InitReady
  <2>2. CASE InitDone
    BY <2>2 DEF InitDone
  <2>q. QED BY <1>5, <2>1, <2>2 DEF InitBoots
<1>6. CASE InitReboots
  BY <1>6 DEF InitReboots
<1>7. CASE InitDies
  BY <1>7 DEF InitDies
<1>8. CASE DhcpThread
  <2>1. CASE DhcpBind
    BY <2>1 DEF DhcpBind, Opened
  <2>2. CASE DhcpEnds
    BY <2>2 DEF DhcpEnds
  <2>3. CASE DhcpCloses
    BY <2>3 DEF DhcpCloses, Close
  <2>q. QED BY <1>8, <2>1, <2>2, <2>3 DEF DhcpThread
<1>9. CASE DhcpRecvFails
  BY <1>9 DEF DhcpRecvFails
<1>10. CASE RouteThread
  <2>1. CASE RouteBinds
    BY <2>1 DEF RouteBinds, Opened
  <2>2. CASE RouteEnds
    BY <2>2 DEF RouteEnds
  <2>3. CASE RouteCloses
    BY <2>3 DEF RouteCloses, Close
  <2>q. QED BY <1>10, <2>1, <2>2, <2>3 DEF RouteThread
<1>q. QED
  BY <1>1, <1>2, <1>3, <1>4, <1>5, <1>6, <1>7, <1>8, <1>9, <1>10 DEF Next

(* A step that opens a kind leaves no older one of it behind, and an       *)
(* owner forgets a number only with the descriptor.                        *)
LEMMA OwnedKept == TypeOK /\ TableInv /\ [Next]_vars => Owned'
<1> SUFFICES ASSUME TypeOK, TableInv, [Next]_vars PROVE Owned'
  OBVIOUS
<1>p. MakePipes => Laid
  BY PipesEffect
<1>r. mpc \in {"dhcp", "signalfd"} \/ dhcp.pc = "start" \/ rt.pc = "start" => Room
  BY RoomNow
<1> USE DEF TypeOK, TableInv, Owned
<1> USE EndsAre DEF EndOf, NetEnds, Free
<1>1. CASE UNCHANGED vars
  BY <1>1 DEF vars
<1>2. CASE Monitor
  <2>1. CASE CloseStale
    BY <2>1 DEF CloseStale, At, Close
  <2>2. CASE MakePipes
    <3>1. Laid /\ UNCHANGED <<dhcp, rt>>
      BY <2>2, <1>p DEF MakePipes
    <3>q. QED BY <3>1 DEF Laid
  <2>3. CASE ForkMid
    BY <2>3 DEF ForkMid, At, Close
  <2>4. CASE ReadPid
    BY <2>4 DEF ReadPid, Close
  <2>5. CASE ReadReady
    BY <2>5 DEF ReadReady, At, Close
  <2>6. CASE SetupVeth
    BY <2>6 DEF SetupVeth
  <2>7. CASE DhcpStart
    <3>1. Room /\ \A n \in Fd : fd[n] \notin {"eventfd", "packet"}
      BY <2>7, <1>r DEF DhcpStart, Closed, Threads, BeforeDhcp
    <3>q. QED BY <2>7, <3>1 DEF DhcpStart, Opened, Room
  <2>8. CASE DhcpListens
    BY <2>8 DEF DhcpListens, At
  <2>9. CASE RouteReap
    BY <2>9 DEF RouteReap, Threads
  <2>10. CASE RouteCreate
    BY <2>10 DEF RouteCreate, At, Threads
  <2>11. CASE Rewire
    BY <2>11 DEF Rewire, At
  <2>12. CASE SendDone
    BY <2>12 DEF SendDone, At, Close
  <2>13. CASE OpenSignalfd
    <3>1. Room /\ \A n \in Fd : fd[n] # "signalfd"
      BY <2>13, <1>r DEF OpenSignalfd, At, Closed
    <3>q. QED BY <2>13, <3>1 DEF OpenSignalfd, At, Opened, Room
  <2>14. CASE Reaped
    BY <2>14 DEF Reaped, Close
  <2>15. CASE Reboot
    BY <2>15 DEF Reboot, DhcpStop, DhcpJoin, Close
  <2>16. CASE StopRouteMonitor
    BY <2>16 DEF StopRouteMonitor, At
  <2>17. CASE JoinRouteMonitor
    BY <2>17 DEF JoinRouteMonitor, Threads
  <2>18. CASE LastDhcpStop
    BY <2>18 DEF LastDhcpStop, DhcpStop, DhcpJoin, Close
  <2>19. CASE Exit
    BY <2>19 DEF Exit, Gone
  <2>q. QED BY <1>2, <2>1, <2>2, <2>3, <2>4, <2>5, <2>6, <2>7, <2>8, <2>9, <2>10, <2>11,
         <2>12, <2>13, <2>14, <2>15, <2>16, <2>17, <2>18, <2>19 DEF Monitor
<1>3. CASE Killed
  BY <1>3 DEF Killed, Gone
<1>4. CASE Mid
  <2>1. CASE MidForks
    BY <2>1 DEF MidForks
  <2>2. CASE MidSends
    BY <2>2 DEF MidSends
  <2>3. CASE MidExits
    BY <2>3 DEF MidExits
  <2>q. QED BY <1>4, <2>1, <2>2, <2>3 DEF Mid
<1>5. CASE InitBoots
  <2>1. CASE InitReady
    BY <2>1 DEF InitReady
  <2>2. CASE InitDone
    BY <2>2 DEF InitDone
  <2>q. QED BY <1>5, <2>1, <2>2 DEF InitBoots
<1>6. CASE InitReboots
  BY <1>6 DEF InitReboots
<1>7. CASE InitDies
  BY <1>7 DEF InitDies
<1>8. CASE DhcpThread
  <2>1. CASE DhcpBind
    <3>1. Room /\ \A n \in Fd : fd[n] # "packet"
      BY <2>1, <1>r DEF DhcpBind
    <3>2. CASE UNCHANGED fd
      BY ZenonT(60), <2>1, <3>1, <3>2 DEF DhcpBind
    <3>3. CASE /\ \E s \in {"poll", "close"} : dhcp' = [dhcp EXCEPT !.pc = s, !.sock = NextFd]
               /\ fd' = Opened("packet")
      <4>1. dhcp'.sock = NextFd /\ dhcp'.efd = dhcp.efd /\ dhcp'.pc \in {"poll", "close"}
        BY <3>3
      <4>2. num' = num /\ rt' = rt
        BY <2>1 DEF DhcpBind
      <4>q. QED BY <3>1, <3>3, <4>1, <4>2 DEF Opened, Room
    <3>q. QED BY <2>1, <3>2, <3>3 DEF DhcpBind
  <2>2. CASE DhcpEnds
    BY <2>2 DEF DhcpEnds
  <2>3. CASE DhcpCloses
    BY <2>3 DEF DhcpCloses, Close
  <2>q. QED BY <1>8, <2>1, <2>2, <2>3 DEF DhcpThread
<1>9. CASE DhcpRecvFails
  BY <1>9 DEF DhcpRecvFails
<1>10. CASE RouteThread
  <2>1. CASE RouteBinds
    <3>1. Room /\ \A n \in Fd : fd[n] # "netlink"
      BY <2>1, <1>r DEF RouteBinds
    <3>2. CASE UNCHANGED fd
      BY <2>1, <3>1, <3>2 DEF RouteBinds
    <3>3. CASE rt' = [rt EXCEPT !.pc = "loop", !.sock = NextFd] /\ fd' = Opened("netlink")
      <4>1. rt'.sock = NextFd /\ rt'.pc = "loop"
        BY <3>3
      <4>2. num' = num /\ dhcp' = dhcp
        BY <2>1 DEF RouteBinds
      <4>q. QED BY <3>1, <3>3, <4>1, <4>2 DEF Opened, Room
    <3>q. QED BY <2>1, <3>2, <3>3 DEF RouteBinds
  <2>2. CASE RouteEnds
    BY <2>2 DEF RouteEnds
  <2>3. CASE RouteCloses
    BY <2>3 DEF RouteCloses, Close
  <2>q. QED BY <1>10, <2>1, <2>2, <2>3 DEF RouteThread
<1>q. QED
  BY <1>1, <1>2, <1>3, <1>4, <1>5, <1>6, <1>7, <1>8, <1>9, <1>10 DEF Next

(* A phase of the monitor ends with the close of what belongs to it.      *)
LEMMA ClosedKept == TypeOK /\ TableInv /\ [Next]_vars => Closed'
<1> SUFFICES ASSUME TypeOK, TableInv, [Next]_vars PROVE Closed'
  OBVIOUS
<1>p. MakePipes => Laid
  BY PipesEffect
<1> USE DEF TypeOK, TableInv, Owned, Closed, BeforeDhcp
<1> USE EndsAre DEF EndOf, NetEnds, Free
<1>1. CASE UNCHANGED vars
  BY <1>1 DEF vars
<1>2. CASE Monitor
  <2>1. CASE CloseStale
    BY <2>1 DEF CloseStale, At, Close, Compact, Threads
  <2>2. CASE MakePipes
    BY ZenonT(60), <2>2, <1>p DEF MakePipes, At, Laid
  <2>3. CASE ForkMid
    BY <2>3 DEF ForkMid, At, Close
  <2>4. CASE ReadPid
    BY <2>4 DEF ReadPid, Close
  <2>5. CASE ReadReady
    BY <2>5 DEF ReadReady, At, Close
  <2>6. CASE SetupVeth
    BY <2>6 DEF SetupVeth
  <2>7. CASE DhcpStart
    BY <2>7 DEF DhcpStart, Opened
  <2>8. CASE DhcpListens
    BY <2>8 DEF DhcpListens, At
  <2>9. CASE RouteReap
    BY <2>9 DEF RouteReap
  <2>10. CASE RouteCreate
    BY <2>10 DEF RouteCreate, At
  <2>11. CASE Rewire
    BY <2>11 DEF Rewire, At
  <2>12. CASE SendDone
    BY <2>12 DEF SendDone, At, Close
  <2>13. CASE OpenSignalfd
    BY <2>13 DEF OpenSignalfd, At, Opened
  <2>14. CASE Reaped
    BY <2>14 DEF Reaped, Close
  <2>15. CASE Reboot
    BY <2>15 DEF Reboot, DhcpStop, DhcpJoin, Close
  <2>16. CASE StopRouteMonitor
    BY <2>16 DEF StopRouteMonitor, At
  <2>17. CASE JoinRouteMonitor
    BY <2>17 DEF JoinRouteMonitor
  <2>18. CASE LastDhcpStop
    BY <2>18 DEF LastDhcpStop, DhcpStop, DhcpJoin, Close
  <2>19. CASE Exit
    BY <2>19 DEF Exit, Gone
  <2>q. QED BY <1>2, <2>1, <2>2, <2>3, <2>4, <2>5, <2>6, <2>7, <2>8, <2>9, <2>10, <2>11,
         <2>12, <2>13, <2>14, <2>15, <2>16, <2>17, <2>18, <2>19 DEF Monitor
<1>3. CASE Killed
  BY <1>3 DEF Killed, Gone
<1>4. CASE Mid
  <2>1. CASE MidForks
    BY <2>1 DEF MidForks
  <2>2. CASE MidSends
    BY <2>2 DEF MidSends
  <2>3. CASE MidExits
    BY <2>3 DEF MidExits
  <2>q. QED BY <1>4, <2>1, <2>2, <2>3 DEF Mid
<1>5. CASE InitBoots
  <2>1. CASE InitReady
    BY <2>1 DEF InitReady
  <2>2. CASE InitDone
    BY <2>2 DEF InitDone
  <2>q. QED BY <1>5, <2>1, <2>2 DEF InitBoots
<1>6. CASE InitReboots
  BY <1>6 DEF InitReboots
<1>7. CASE InitDies
  BY <1>7 DEF InitDies
<1>8. CASE DhcpThread
  <2>1. CASE DhcpBind
    BY <2>1 DEF DhcpBind, Opened
  <2>2. CASE DhcpEnds
    BY <2>2 DEF DhcpEnds
  <2>3. CASE DhcpCloses
    BY <2>3 DEF DhcpCloses, Close
  <2>q. QED BY <1>8, <2>1, <2>2, <2>3 DEF DhcpThread
<1>9. CASE DhcpRecvFails
  BY <1>9 DEF DhcpRecvFails
<1>10. CASE RouteThread
  <2>1. CASE RouteBinds
    BY <2>1 DEF RouteBinds, Opened
  <2>2. CASE RouteEnds
    BY <2>2 DEF RouteEnds
  <2>3. CASE RouteCloses
    BY <2>3 DEF RouteCloses, Close
  <2>q. QED BY <1>10, <2>1, <2>2, <2>3 DEF RouteThread
<1>q. QED
  BY <1>1, <1>2, <1>3, <1>4, <1>5, <1>6, <1>7, <1>8, <1>9, <1>10 DEF Next

(* Every step keeps the types; a descriptor is opened at a free number.   *)
LEMMA TypesKept == TypeOK /\ TableInv /\ [Next]_vars => TypeOK'
<1> SUFFICES ASSUME TypeOK, TableInv, [Next]_vars PROVE TypeOK'
  OBVIOUS
<1>p. MakePipes => Laid
  BY PipesEffect
<1>r. mpc \in {"dhcp", "signalfd"} \/ dhcp.pc = "start" \/ rt.pc = "start" => Room
  BY RoomNow
<1>c. mpc = "stopdhcp" => cycle < MaxCycle
  BY DEF TableInv, HandShake
<1>e. dhcp.pc # "none" => dhcp.efd # 0
  BY DEF TableInv, Threads
<1> USE MonitorNetAssumption DEF TypeOK, TableInv
<1> USE EndsAre DEF EndOf, NetEnds, Free
<1> DEFINE DhcpT == [pc : {"none", "start", "poll", "close", "dead"}, efd : Fd \cup {0},
                     sock : Fd \cup {0}, stop : BOOLEAN]
           RtT == [pc : {"none", "start", "loop", "close", "dead"}, sock : Fd \cup {0},
                   started : BOOLEAN, join : BOOLEAN, stop : BOOLEAN]
<1>0. 0 \notin Fd
  BY DEF Fd
<1>1. CASE UNCHANGED vars
  BY <1>1 DEF vars
<1>2. CASE Monitor
  <2>1. CASE CloseStale
    BY <2>1 DEF CloseStale, At, Close
  <2>2. CASE MakePipes
    <3>1. /\ Laid /\ UNCHANGED <<android, cycle, mid, init, dhcp, rt, harmed>>
          /\ mpc' = "fork" /\ bytes' = {}
      BY <2>2, <1>p DEF MakePipes, At
    <3>q. QED BY <3>1 DEF Laid, Kinds
  <2>3. CASE ForkMid
    BY <2>3 DEF ForkMid, At, Close
  <2>4. CASE ReadPid
    BY <2>4 DEF ReadPid, Close
  <2>5. CASE ReadReady
    BY <2>5 DEF ReadReady, At, Close
  <2>6. CASE SetupVeth
    BY <2>6 DEF SetupVeth
  <2>7. CASE DhcpStart
    <3>1. Room /\ mpc' \in {"listen", "reap"}
      BY <2>7, <1>r DEF DhcpStart
    <3>2. dhcp' \in DhcpT /\ (dhcp'.pc = "poll" => dhcp'.sock # 0 /\ dhcp'.efd # 0)
      <4>1. [pc |-> "start", efd |-> NextFd, sock |-> 0, stop |-> FALSE] \in DhcpT
        BY <3>1 DEF Room
      <4>2. [pc |-> "none", efd |-> NextFd, sock |-> 0, stop |-> FALSE] \in DhcpT
        BY <3>1 DEF Room
      <4>3. [pc |-> "none", efd |-> 0, sock |-> 0, stop |-> FALSE] \in DhcpT
        BY <3>1 DEF Room
      <4>4. \/ dhcp' = dhcp
            \/ dhcp' = [pc |-> "start", efd |-> NextFd, sock |-> 0, stop |-> FALSE]
            \/ dhcp' = [pc |-> "none", efd |-> NextFd, sock |-> 0, stop |-> FALSE]
            \/ dhcp' = [pc |-> "none", efd |-> 0, sock |-> 0, stop |-> FALSE]
        BY <2>7 DEF DhcpStart
      <4>q. QED BY ZenonT(60), <4>1, <4>2, <4>3, <4>4, <3>1 DEF Room
    <3>3. fd' \in {fd, [fd EXCEPT ![NextFd] = "eventfd"]}
      BY <2>7 DEF DhcpStart, Opened
    <3>q. QED BY <2>7, <3>1, <3>2, <3>3 DEF DhcpStart
  <2>8. CASE DhcpListens
    BY <2>8 DEF DhcpListens, At
  <2>9. CASE RouteReap
    <3>1. rt' \in RtT /\ (rt'.pc = "loop" => rt'.sock # 0)
      <4>1. [rt EXCEPT !.join = FALSE, !.pc = "none"] \in RtT
        OBVIOUS
      <4>2. \/ rt' = rt
            \/ rt' = [rt EXCEPT !.join = FALSE, !.pc = "none"]
        BY <2>9 DEF RouteReap
      <4>q. QED BY <4>1, <4>2
    <3>q. QED BY <2>9, <3>1 DEF RouteReap
  <2>10. CASE RouteCreate
    <3>1. rt' \in RtT /\ (rt'.pc = "loop" => rt'.sock # 0)
      <4>1. [rt EXCEPT !.stop = FALSE] \in RtT
        OBVIOUS
      <4>2. [pc |-> "start", sock |-> 0, started |-> TRUE, join |-> TRUE, stop |-> FALSE] \in RtT
        OBVIOUS
      <4>3. \/ rt' = rt
            \/ rt' = [rt EXCEPT !.stop = FALSE]
            \/ rt' = [pc |-> "start", sock |-> 0, started |-> TRUE, join |-> TRUE, stop |-> FALSE]
        BY <2>10 DEF RouteCreate
      <4>q. QED BY <4>1, <4>2, <4>3
    <3>q. QED BY <2>10, <3>1 DEF RouteCreate, At
  <2>11. CASE Rewire
    BY <2>11 DEF Rewire, At
  <2>12. CASE SendDone
    BY <2>12 DEF SendDone, At, Close
  <2>13. CASE OpenSignalfd
    <3>1. Room
      BY <2>13, <1>r DEF OpenSignalfd, At
    <3>q. QED BY <2>13, <3>1 DEF OpenSignalfd, At, Opened, Room
  <2>14. CASE Reaped
    BY <2>14 DEF Reaped, Close
  <2>15. CASE Reboot
    <3>1. dhcp' \in DhcpT /\ (dhcp'.pc = "poll" => dhcp'.sock # 0 /\ dhcp'.efd # 0)
      <4>1. [dhcp EXCEPT !.stop = TRUE] \in DhcpT
        OBVIOUS
      <4>2. [dhcp EXCEPT !.pc = "none", !.efd = 0] \in DhcpT
        OBVIOUS
      <4>3. \/ dhcp' = dhcp
            \/ dhcp' = [dhcp EXCEPT !.stop = TRUE]
            \/ dhcp' = [dhcp EXCEPT !.pc = "none", !.efd = 0]
        BY <2>15 DEF Reboot, DhcpStop, DhcpJoin
      <4>q. QED BY ZenonT(60), <4>1, <4>2, <4>3
    <3>2. cycle' \in 1..MaxCycle
      BY <2>15, <1>c DEF Reboot
    <3>q. QED BY <2>15, <3>1, <3>2 DEF Reboot, DhcpStop, DhcpJoin, Close
  <2>16. CASE StopRouteMonitor
    <3>1. rt' \in RtT /\ (rt'.pc = "loop" => rt'.sock # 0)
      BY <2>16 DEF StopRouteMonitor, At
    <3>q. QED BY <2>16, <3>1 DEF StopRouteMonitor, At
  <2>17. CASE JoinRouteMonitor
    <3>1. rt' \in RtT /\ (rt'.pc = "loop" => rt'.sock # 0)
      BY <2>17 DEF JoinRouteMonitor
    <3>q. QED BY <2>17, <3>1 DEF JoinRouteMonitor
  <2>18. CASE LastDhcpStop
    <3>1. dhcp' \in DhcpT /\ (dhcp'.pc = "poll" => dhcp'.sock # 0 /\ dhcp'.efd # 0)
      <4>1. [dhcp EXCEPT !.stop = TRUE] \in DhcpT
        OBVIOUS
      <4>2. [dhcp EXCEPT !.pc = "none", !.efd = 0] \in DhcpT
        OBVIOUS
      <4>3. \/ dhcp' = dhcp
            \/ dhcp' = [dhcp EXCEPT !.stop = TRUE]
            \/ dhcp' = [dhcp EXCEPT !.pc = "none", !.efd = 0]
        BY <2>18 DEF LastDhcpStop, DhcpStop, DhcpJoin
      <4>q. QED BY ZenonT(60), <4>1, <4>2, <4>3
    <3>q. QED BY <2>18, <3>1 DEF LastDhcpStop, DhcpStop, DhcpJoin, Close
  <2>19. CASE Exit
    BY <2>19 DEF Exit, Gone
  <2>q. QED BY <1>2, <2>1, <2>2, <2>3, <2>4, <2>5, <2>6, <2>7, <2>8, <2>9, <2>10, <2>11,
         <2>12, <2>13, <2>14, <2>15, <2>16, <2>17, <2>18, <2>19 DEF Monitor
<1>3. CASE Killed
  BY <1>3 DEF Killed, Gone
<1>4. CASE Mid
  <2>1. CASE MidForks
    BY <2>1 DEF MidForks
  <2>2. CASE MidSends
    BY <2>2 DEF MidSends
  <2>3. CASE MidExits
    BY <2>3 DEF MidExits
  <2>q. QED BY <1>4, <2>1, <2>2, <2>3 DEF Mid
<1>5. CASE InitBoots
  <2>1. CASE InitReady
    BY <2>1 DEF InitReady
  <2>2. CASE InitDone
    BY <2>2 DEF InitDone
  <2>q. QED BY <1>5, <2>1, <2>2 DEF InitBoots
<1>6. CASE InitReboots
  BY <1>6 DEF InitReboots
<1>7. CASE InitDies
  BY <1>7 DEF InitDies
<1>8. CASE DhcpThread
  <2>1. CASE DhcpBind
    <3>1. Room
      BY <2>1, <1>r DEF DhcpBind
    <3>2. dhcp' \in DhcpT
      <4>1. [dhcp EXCEPT !.pc = "close"] \in DhcpT
        BY <3>1 DEF Room
      <4>2. [dhcp EXCEPT !.pc = "poll", !.sock = NextFd] \in DhcpT
        BY <3>1 DEF Room
      <4>3. [dhcp EXCEPT !.pc = "close", !.sock = NextFd] \in DhcpT
        BY <3>1 DEF Room
      <4>4. \/ dhcp' = dhcp
            \/ dhcp' = [dhcp EXCEPT !.pc = "close"]
            \/ dhcp' = [dhcp EXCEPT !.pc = "poll", !.sock = NextFd]
            \/ dhcp' = [dhcp EXCEPT !.pc = "close", !.sock = NextFd]
        BY <2>1 DEF DhcpBind
      <4>q. QED BY <4>1, <4>2, <4>3, <4>4, <3>1 DEF Room
    <3>3. dhcp'.pc = "poll" => dhcp'.sock # 0 /\ dhcp'.efd # 0
      <4>1. dhcp'.pc = "poll" => dhcp'.sock # 0
        <5>1. NextFd # 0
          BY <3>1, <1>0 DEF Room
        <5>2. \/ dhcp' = [dhcp EXCEPT !.pc = "close"]
              \/ dhcp' = [dhcp EXCEPT !.pc = "poll", !.sock = NextFd]
              \/ dhcp' = [dhcp EXCEPT !.pc = "close", !.sock = NextFd]
          BY <2>1 DEF DhcpBind
        <5>3. dhcp \in DhcpT
          OBVIOUS
        <5>q. QED BY ONLY <5>1, <5>2, <5>3 DEF DhcpT
      <4>2. dhcp'.efd = dhcp.efd /\ dhcp.efd # 0
        BY ZenonT(60), <2>1, <1>e DEF DhcpBind
      <4>q. QED BY <4>1, <4>2
    <3>4. fd' \in {fd, [fd EXCEPT ![NextFd] = "packet"]}
      BY <2>1 DEF DhcpBind, Opened
    <3>q. QED BY <2>1, <3>2, <3>3, <3>4 DEF DhcpBind
  <2>2. CASE DhcpEnds
    BY <2>2 DEF DhcpEnds
  <2>3. CASE DhcpCloses
    <3>1. dhcp' \in DhcpT /\ (dhcp'.pc = "poll" => dhcp'.sock # 0 /\ dhcp'.efd # 0)
      BY <2>3 DEF DhcpCloses
    <3>q. QED BY <2>3, <3>1 DEF DhcpCloses, Close
  <2>q. QED BY <1>8, <2>1, <2>2, <2>3 DEF DhcpThread
<1>9. CASE DhcpRecvFails
  BY <1>9 DEF DhcpRecvFails
<1>10. CASE RouteThread
  <2>1. CASE RouteBinds
    <3>1. Room
      BY <2>1, <1>r DEF RouteBinds
    <3>2. rt' \in RtT
      <4>1. [rt EXCEPT !.pc = "loop", !.sock = NextFd] \in RtT
        BY <3>1 DEF Room
      <4>2. [rt EXCEPT !.pc = "dead"] \in RtT
        BY <3>1 DEF Room
      <4>3. \/ rt' = rt
            \/ rt' = [rt EXCEPT !.pc = "loop", !.sock = NextFd]
            \/ rt' = [rt EXCEPT !.pc = "dead"]
        BY <2>1 DEF RouteBinds
      <4>q. QED BY <4>1, <4>2, <4>3, <3>1 DEF Room
    <3>4. rt'.pc = "loop" => rt'.sock # 0
      BY ZenonT(60), <2>1, <3>1, <1>0 DEF RouteBinds, Room
    <3>3. fd' \in {fd, [fd EXCEPT ![NextFd] = "netlink"]}
      BY <2>1 DEF RouteBinds, Opened
    <3>q. QED BY <2>1, <3>2, <3>3, <3>4 DEF RouteBinds
  <2>2. CASE RouteEnds
    BY <2>2 DEF RouteEnds
  <2>3. CASE RouteCloses
    <3>1. rt' \in RtT /\ (rt'.pc = "loop" => rt'.sock # 0)
      BY <2>3 DEF RouteCloses, Close
    <3>q. QED BY <2>3, <3>1 DEF RouteCloses, Close
  <2>q. QED BY <1>10, <2>1, <2>2, <2>3 DEF RouteThread
<1>q. QED
  BY <1>1, <1>2, <1>3, <1>4, <1>5, <1>6, <1>7, <1>8, <1>9, <1>10 DEF Next

(* No step frees a number below the hand-shake's pipes before the DHCP     *)
(* server is started, and none leaves its eventfd where reboot_loop does   *)
(* not close it.                                                           *)
LEMMA CompactKept == TypeOK /\ TableInv /\ [Next]_vars => Compact'
<1> SUFFICES ASSUME TypeOK, TableInv, [Next]_vars PROVE Compact'
  OBVIOUS
<1>p. MakePipes => Laid
  BY PipesEffect
<1>r. mpc = "dhcp" => Room
  BY RoomNow
<1> USE DEF TypeOK, TableInv, Compact, BeforeDhcp
<1> USE EndsAre DEF EndOf, NetEnds, Free
<1>0. \A x \in Fd \cup {0} : x \in Nat
  BY DEF Fd
<1>o. ASSUME mpc \in BeforeDhcp \ {"pipes"}, NEW n \in Fd, n < num["doneW"]
      PROVE  n # num["midR"] /\ n # num["midW"]
  <2>1. num["doneW"] < num["midR"] /\ num["doneW"] < num["midW"]
    BY <1>o
  <2>2. /\ n \in Nat /\ num["doneW"] \in Nat /\ num["midR"] \in Nat
        /\ num["midW"] \in Nat
    BY <1>0
  <2>q. QED BY ONLY <2>1, <2>2, <1>o
<1>k. ASSUME mpc \in BeforeDhcp, NEW n \in Fd
      PROVE  /\ fd[n] \in {Free, "netlink"} \cup EndOf /\ dhcp.pc = "none"
             /\ fd[n] = "netlink" => rt.pc = "loop" /\ rt.sock = n
             /\ fd[n] \in EndOf => num[fd[n]] = n
  BY <1>k DEF Closed, Owned, Threads
<1>1. CASE UNCHANGED vars
  BY <1>1 DEF vars
<1>2. CASE Monitor
  <2>1. CASE CloseStale
    BY <2>1 DEF CloseStale, At, Close
  <2>2. CASE MakePipes
    <3>1. Laid /\ UNCHANGED dhcp /\ mpc' = "fork" /\ mpc = "pipes"
      BY <2>2, <1>p DEF MakePipes, At
    <3>2. /\ num'["readyR"] \in Nat /\ num'["readyW"] \in Nat /\ num'["doneR"] \in Nat
          /\ num'["doneW"] \in Nat
      BY <3>1, <1>0 DEF Laid
    <3>3. num'["readyR"] < num'["doneW"] /\ num'["readyW"] < num'["doneW"]
      BY <3>1, <3>2 DEF Laid
    <3>4. num'["readyR"] # num'["readyW"]
      BY <3>1, <3>2 DEF Laid
    <3>5. \A n \in Fd : fd'[n] # "eventfd"
      BY <3>1 DEF Laid
    <3>q. QED BY <3>1, <3>3, <3>4, <3>5 DEF Laid
  <2>3. CASE ForkMid
    <3>1. /\ mpc = "fork" /\ num' = num /\ dhcp' = dhcp
          /\ num["midW"] \notin {n \in Fd : n < num["doneW"]}
      <4>1. \A n \in Fd : n < num["doneW"] => n # num["midW"]
        BY <2>3, <1>o DEF ForkMid, At
      <4>q. QED BY <2>3, <4>1 DEF ForkMid, At
    <3>q. QED BY <2>3, <3>1 DEF ForkMid, At, Close
  <2>4. CASE ReadPid
    <3>1. \A n \in Fd : n < num["doneW"] => n # num["midR"]
      BY <2>4, <1>o DEF ReadPid
    <3>2. mpc' = "ready" \/ mpc' = "signalfd"
      BY <2>4 DEF ReadPid
    <3>q. QED BY <2>4, <3>1, <3>2 DEF ReadPid, Close
  <2>5. CASE ReadReady
    BY <2>5 DEF ReadReady, At, Close
  <2>6. CASE SetupVeth
    BY <2>6 DEF SetupVeth
  <2>7. CASE DhcpStart
    <3>1. Room /\ num' = num /\ mpc = "dhcp" /\ mpc' \in {"listen", "reap"}
      BY <2>7, <1>r DEF DhcpStart
    <3>2. PICK e \in {"readyR", "readyW"} : fd[num[e]] = Free
      <4>1. \A n \in {num["readyR"], num["readyW"]} : fd[n] \in {Free, "netlink"}
        BY <3>1, <1>k, <1>0 DEF Closed
      <4>2. ~(fd[num["readyR"]] = "netlink" /\ fd[num["readyW"]] = "netlink")
        BY <3>1, <1>k
      <4>q. QED BY <4>1, <4>2
    <3>3. num[e] \in Fd /\ num[e] < num["doneW"] /\ num["doneW"] \in Fd
      BY <3>1
    <3>4. NextFd \in Fd /\ ~(num[e] < NextFd)
      BY <3>1, <3>2, <3>3 DEF Room
    <3>5. NextFd < num["doneW"]
      <4>1. NextFd \in Nat /\ num[e] \in Nat /\ num["doneW"] \in Nat
        BY <3>3, <3>4, <1>0
      <4>q. QED BY ONLY <3>3, <3>4, <4>1
    <3>6. \E x \in NetEnds : NextFd = num[x]
      BY <3>1, <3>4, <3>5 DEF Room
    <3>7. \A n \in Fd : fd'[n] = "eventfd" => n = NextFd
      BY <2>7, <3>1, <1>k DEF DhcpStart, Opened, Room
    <3>q. QED BY <3>1, <3>6, <3>7
  <2>8. CASE DhcpListens
    BY <2>8 DEF DhcpListens, At
  <2>9. CASE RouteReap
    BY <2>9 DEF RouteReap
  <2>10. CASE RouteCreate
    BY <2>10 DEF RouteCreate, At
  <2>11. CASE Rewire
    BY <2>11 DEF Rewire, At
  <2>12. CASE SendDone
    BY <2>12 DEF SendDone, At, Close
  <2>13. CASE OpenSignalfd
    BY <2>13 DEF OpenSignalfd, At, Opened
  <2>14. CASE Reaped
    BY <2>14 DEF Reaped, Close
  <2>15. CASE Reboot
    BY <2>15 DEF Reboot, DhcpStop, DhcpJoin, Close, Owned
  <2>16. CASE StopRouteMonitor
    BY <2>16 DEF StopRouteMonitor, At
  <2>17. CASE JoinRouteMonitor
    BY <2>17 DEF JoinRouteMonitor
  <2>18. CASE LastDhcpStop
    BY <2>18 DEF LastDhcpStop, DhcpStop, DhcpJoin, Close, Owned
  <2>19. CASE Exit
    BY <2>19 DEF Exit, Gone
  <2>q. QED BY <1>2, <2>1, <2>2, <2>3, <2>4, <2>5, <2>6, <2>7, <2>8, <2>9, <2>10, <2>11,
         <2>12, <2>13, <2>14, <2>15, <2>16, <2>17, <2>18, <2>19 DEF Monitor
<1>3. CASE Killed
  BY <1>3 DEF Killed, Gone
<1>4. CASE Mid
  <2>1. CASE MidForks
    BY <2>1 DEF MidForks
  <2>2. CASE MidSends
    BY <2>2 DEF MidSends
  <2>3. CASE MidExits
    BY <2>3 DEF MidExits
  <2>q. QED BY <1>4, <2>1, <2>2, <2>3 DEF Mid
<1>5. CASE InitBoots
  <2>1. CASE InitReady
    BY <2>1 DEF InitReady
  <2>2. CASE InitDone
    BY <2>2 DEF InitDone
  <2>q. QED BY <1>5, <2>1, <2>2 DEF InitBoots
<1>6. CASE InitReboots
  BY <1>6 DEF InitReboots
<1>7. CASE InitDies
  BY <1>7 DEF InitDies
<1>8. CASE DhcpThread
  <2>1. CASE DhcpBind
    BY ZenonT(60), <2>1 DEF DhcpBind, Threads
  <2>2. CASE DhcpEnds
    BY <2>2 DEF DhcpEnds
  <2>3. CASE DhcpCloses
    BY <2>3 DEF DhcpCloses, Close, Threads
  <2>q. QED BY <1>8, <2>1, <2>2, <2>3 DEF DhcpThread
<1>9. CASE DhcpRecvFails
  BY <1>9 DEF DhcpRecvFails
<1>10. CASE RouteThread
  <2>1. CASE RouteBinds
    BY <2>1 DEF RouteBinds, Opened
  <2>2. CASE RouteEnds
    BY <2>2 DEF RouteEnds
  <2>3. CASE RouteCloses
    <3>1. UNCHANGED <<mpc, num, dhcp>> /\ rt.pc = "close"
      BY <2>3 DEF RouteCloses
    <3>2. \A n \in Fd : fd'[n] = (IF n = rt.sock THEN Free ELSE fd[n])
      BY <2>3 DEF RouteCloses, Close
    <3>3. ASSUME mpc \in BeforeDhcp \ {"pipes"}, NEW n \in Fd, n = rt.sock, n < num["doneW"]
          PROVE  \E e \in NetEnds : n = num[e]
      <4>1. fd[n] # "netlink"
        BY <3>1, <3>3, <1>k
      <4>2. fd[n] \notin {"midR", "midW"}
        <5>1. n # num["midR"] /\ n # num["midW"]
          BY <3>3, <1>o
        <5>q. QED BY <3>3, <5>1, <1>k
      <4>q. QED BY <3>3, <4>1, <4>2, <1>k
    <3>4. dhcp.pc = "none" => \A n \in Fd : fd'[n] = "eventfd" => \E e \in NetEnds : n = num[e]
      BY <3>2
    <3>q. QED BY <3>1, <3>2, <3>3, <3>4
  <2>q. QED BY <1>10, <2>1, <2>2, <2>3 DEF RouteThread
<1>q. QED
  BY <1>1, <1>2, <1>3, <1>4, <1>5, <1>6, <1>7, <1>8, <1>9, <1>10 DEF Next

(* As long as nobody is harmed, whoever remembers a number in use finds    *)
(* his own descriptor there.                                               *)
LEMMA HeldKept == TypeOK /\ TableInv /\ UnharmedHeld /\ [Next]_vars => UnharmedHeld'
<1> SUFFICES ASSUME TypeOK, TableInv, UnharmedHeld, [Next]_vars PROVE UnharmedHeld'
  OBVIOUS
<1>p. MakePipes => Laid
  BY PipesEffect
<1>r. mpc \in {"dhcp", "signalfd"} \/ dhcp.pc = "start" \/ rt.pc = "start" => Room
  BY RoomNow
<1> USE DEF TypeOK, TableInv, UnharmedHeld, Held, Wiring
<1> USE EndsAre DEF EndOf, NetEnds, Free
<1>1. CASE UNCHANGED vars
  BY <1>1 DEF vars
<1>2. CASE Monitor
  <2>1. CASE CloseStale
    BY <2>1 DEF CloseStale, At, Close
  <2>2. CASE MakePipes
    <3>1. /\ Laid /\ UNCHANGED <<dhcp, rt, harmed>> /\ mpc' = "fork" /\ mpc = "pipes"
          /\ dhcp.pc = "none"
      BY <2>2, <1>p DEF MakePipes, At, Threads, BeforeDhcp
    <3>q. QED BY <3>1 DEF Laid
  <2>3. CASE ForkMid
    BY <2>3 DEF ForkMid, At, Close
  <2>4. CASE ReadPid
    BY <2>4 DEF ReadPid, Close
  <2>5. CASE ReadReady
    BY <2>5 DEF ReadReady, At, Close
  <2>6. CASE SetupVeth
    BY <2>6 DEF SetupVeth
  <2>7. CASE DhcpStart
    <3>1. Room /\ harmed' = harmed
      BY <2>7, <1>r DEF DhcpStart
    <3>2. \A n \in Fd : fd[n] # Free => fd'[n] = fd[n]
      BY <2>7, <3>1 DEF DhcpStart, Opened, Room
    <3>q. QED BY <2>7, <3>1, <3>2 DEF DhcpStart, Opened, Room
  <2>8. CASE DhcpListens
    BY <2>8 DEF DhcpListens, At
  <2>9. CASE RouteReap
    BY ZenonT(60), <2>9 DEF RouteReap
  <2>10. CASE RouteCreate
    BY <2>10 DEF RouteCreate, At
  <2>11. CASE Rewire
    BY <2>11 DEF Rewire, At
  <2>12. CASE SendDone
    BY <2>12 DEF SendDone, At, Close
  <2>13. CASE OpenSignalfd
    <3>1. Room /\ harmed' = harmed
      BY <2>13, <1>r DEF OpenSignalfd, At
    <3>2. \A n \in Fd : fd[n] # Free => fd'[n] = fd[n]
      BY <2>13, <3>1 DEF OpenSignalfd, Opened, Room
    <3>q. QED BY <2>13, <3>1, <3>2 DEF OpenSignalfd, At, Opened, Room
  <2>14. CASE Reaped
    BY <2>14 DEF Reaped, Close
  <2>15. CASE Reboot
    BY ZenonT(60), <2>15 DEF Reboot, DhcpStop, DhcpJoin, Close
  <2>16. CASE StopRouteMonitor
    BY <2>16 DEF StopRouteMonitor, At
  <2>17. CASE JoinRouteMonitor
    BY <2>17 DEF JoinRouteMonitor
  <2>18. CASE LastDhcpStop
    BY ZenonT(60), <2>18 DEF LastDhcpStop, DhcpStop, DhcpJoin, Close
  <2>19. CASE Exit
    BY <2>19 DEF Exit, Gone
  <2>q. QED BY <1>2, <2>1, <2>2, <2>3, <2>4, <2>5, <2>6, <2>7, <2>8, <2>9, <2>10, <2>11,
         <2>12, <2>13, <2>14, <2>15, <2>16, <2>17, <2>18, <2>19 DEF Monitor
<1>3. CASE Killed
  BY <1>3 DEF Killed, Gone
<1>4. CASE Mid
  <2>1. CASE MidForks
    BY <2>1 DEF MidForks
  <2>2. CASE MidSends
    BY <2>2 DEF MidSends
  <2>3. CASE MidExits
    BY <2>3 DEF MidExits
  <2>q. QED BY <1>4, <2>1, <2>2, <2>3 DEF Mid
<1>5. CASE InitBoots
  <2>1. CASE InitReady
    BY <2>1 DEF InitReady
  <2>2. CASE InitDone
    BY <2>2 DEF InitDone
  <2>q. QED BY <1>5, <2>1, <2>2 DEF InitBoots
<1>6. CASE InitReboots
  BY <1>6 DEF InitReboots
<1>7. CASE InitDies
  BY <1>7 DEF InitDies
<1>8. CASE DhcpThread
  <2>1. CASE DhcpBind
    <3>1. Room /\ harmed' = harmed
      BY <2>1, <1>r DEF DhcpBind
    <3>2. \A n \in Fd : fd[n] # Free => fd'[n] = fd[n]
      BY <2>1, <3>1 DEF DhcpBind, Opened, Room
    <3>3. CASE dhcp' = [dhcp EXCEPT !.pc = "close"] /\ UNCHANGED fd
      BY <2>1, <3>1, <3>3 DEF DhcpBind
    <3>4. CASE /\ \E s \in {"poll", "close"} : dhcp' = [dhcp EXCEPT !.pc = s, !.sock = NextFd]
               /\ fd' = Opened("packet")
      <4>1. dhcp'.sock = NextFd /\ dhcp'.efd = dhcp.efd /\ dhcp'.pc \in {"poll", "close"}
        BY <3>4
      <4>2. fd'[NextFd] = "packet"
        BY <3>1, <3>4 DEF Opened, Room
      <4>3. mpc' = mpc /\ num' = num /\ rt' = rt /\ dhcp.pc = "start"
        BY <2>1 DEF DhcpBind
      <4>q. QED BY <3>1, <3>2, <4>1, <4>2, <4>3
    <3>q. QED BY <2>1, <3>3, <3>4 DEF DhcpBind
  <2>2. CASE DhcpEnds
    BY <2>2 DEF DhcpEnds
  <2>3. CASE DhcpCloses
    BY <2>3 DEF DhcpCloses, Close
  <2>q. QED BY <1>8, <2>1, <2>2, <2>3 DEF DhcpThread
<1>9. CASE DhcpRecvFails
  BY <1>9 DEF DhcpRecvFails
<1>10. CASE RouteThread
  <2>1. CASE RouteBinds
    <3>1. Room /\ harmed' = harmed
      BY <2>1, <1>r DEF RouteBinds
    <3>2. \A n \in Fd : fd[n] # Free => fd'[n] = fd[n]
      BY <2>1, <3>1 DEF RouteBinds, Opened, Room
    <3>3. CASE rt' = [rt EXCEPT !.pc = "dead"] /\ UNCHANGED fd
      BY <2>1, <3>1, <3>3 DEF RouteBinds
    <3>4. CASE rt' = [rt EXCEPT !.pc = "loop", !.sock = NextFd] /\ fd' = Opened("netlink")
      <4>1. rt'.sock = NextFd /\ NextFd \in Fd /\ fd'[NextFd] = "netlink"
        BY <3>1, <3>4 DEF Opened, Room
      <4>2. mpc' = mpc /\ num' = num /\ dhcp' = dhcp
        BY <2>1 DEF RouteBinds
      <4>q. QED BY <3>1, <3>2, <4>1, <4>2
    <3>q. QED BY <2>1, <3>3, <3>4 DEF RouteBinds
  <2>2. CASE RouteEnds
    BY <2>2 DEF RouteEnds
  <2>3. CASE RouteCloses
    BY <2>3 DEF RouteCloses, Close
  <2>q. QED BY <1>10, <2>1, <2>2, <2>3 DEF RouteThread
<1>q. QED
  BY <1>1, <1>2, <1>3, <1>4, <1>5, <1>6, <1>7, <1>8, <1>9, <1>10 DEF Next

(* The first close that harms somebody is reboot_loop's close of a stale   *)
(* number where the route monitor's socket is by now.                      *)
LEMMA NoForeignCloseKept ==
  TypeOK /\ TableInv /\ UnharmedHeld /\ NoForeignClose /\ [Next]_vars => NoForeignClose'
<1> SUFFICES ASSUME TypeOK, TableInv, UnharmedHeld, NoForeignClose, [Next]_vars
             PROVE  NoForeignClose'
  OBVIOUS
<1> USE DEF TypeOK, TableInv, UnharmedHeld, Held, NoForeignClose, Wiring
<1> USE EndsAre DEF EndOf, NetEnds, Free
<1>1. CASE UNCHANGED vars
  BY <1>1 DEF vars
<1>2. CASE Monitor
  <2>1. CASE CloseStale
    BY <2>1 DEF CloseStale, At, Close, Owned, Closed, Threads, BeforeDhcp
  <2>2. CASE MakePipes
    BY <2>2 DEF MakePipes, At
  <2>3. CASE ForkMid
    BY <2>3 DEF ForkMid, At, Close
  <2>4. CASE ReadPid
    BY <2>4 DEF ReadPid, Close
  <2>5. CASE ReadReady
    BY <2>5 DEF ReadReady, At, Close
  <2>6. CASE SetupVeth
    BY <2>6 DEF SetupVeth
  <2>7. CASE DhcpStart
    BY <2>7 DEF DhcpStart, Opened
  <2>8. CASE DhcpListens
    BY <2>8 DEF DhcpListens, At
  <2>9. CASE RouteReap
    BY <2>9 DEF RouteReap
  <2>10. CASE RouteCreate
    BY <2>10 DEF RouteCreate, At
  <2>11. CASE Rewire
    BY <2>11 DEF Rewire, At
  <2>12. CASE SendDone
    BY <2>12 DEF SendDone, At, Close
  <2>13. CASE OpenSignalfd
    BY <2>13 DEF OpenSignalfd, At, Opened
  <2>14. CASE Reaped
    BY <2>14 DEF Reaped, Close
  <2>15. CASE Reboot
    BY <2>15 DEF Reboot, DhcpStop, DhcpJoin, Close
  <2>16. CASE StopRouteMonitor
    BY <2>16 DEF StopRouteMonitor, At
  <2>17. CASE JoinRouteMonitor
    BY <2>17 DEF JoinRouteMonitor
  <2>18. CASE LastDhcpStop
    BY <2>18 DEF LastDhcpStop, DhcpStop, DhcpJoin, Close
  <2>19. CASE Exit
    BY <2>19 DEF Exit, Gone
  <2>q. QED BY <1>2, <2>1, <2>2, <2>3, <2>4, <2>5, <2>6, <2>7, <2>8, <2>9, <2>10, <2>11,
         <2>12, <2>13, <2>14, <2>15, <2>16, <2>17, <2>18, <2>19 DEF Monitor
<1>3. CASE Killed
  BY <1>3 DEF Killed, Gone
<1>4. CASE Mid
  <2>1. CASE MidForks
    BY <2>1 DEF MidForks
  <2>2. CASE MidSends
    BY <2>2 DEF MidSends
  <2>3. CASE MidExits
    BY <2>3 DEF MidExits
  <2>q. QED BY <1>4, <2>1, <2>2, <2>3 DEF Mid
<1>5. CASE InitBoots
  <2>1. CASE InitReady
    BY <2>1 DEF InitReady
  <2>2. CASE InitDone
    BY <2>2 DEF InitDone
  <2>q. QED BY <1>5, <2>1, <2>2 DEF InitBoots
<1>6. CASE InitReboots
  BY <1>6 DEF InitReboots
<1>7. CASE InitDies
  BY <1>7 DEF InitDies
<1>8. CASE DhcpThread
  <2>1. CASE DhcpBind
    BY <2>1 DEF DhcpBind, Opened
  <2>2. CASE DhcpEnds
    BY <2>2 DEF DhcpEnds
  <2>3. CASE DhcpCloses
    <3>1. 0 \notin Fd
      BY DEF Fd
    <3>q. QED BY <2>3, <3>1 DEF DhcpCloses, Close
  <2>q. QED BY <1>8, <2>1, <2>2, <2>3 DEF DhcpThread
<1>9. CASE DhcpRecvFails
  BY <1>9 DEF DhcpRecvFails
<1>10. CASE RouteThread
  <2>1. CASE RouteBinds
    BY <2>1 DEF RouteBinds, Opened
  <2>2. CASE RouteEnds
    BY <2>2 DEF RouteEnds
  <2>3. CASE RouteCloses
    BY <2>3 DEF RouteCloses, Close
  <2>q. QED BY <1>10, <2>1, <2>2, <2>3 DEF RouteThread
<1>q. QED
  BY <1>1, <1>2, <1>3, <1>4, <1>5, <1>6, <1>7, <1>8, <1>9, <1>10 DEF Next

-----------------------------------------------------------------------------
(* The invariant of the monitor: the hand-shake's control, the layout of   *)
(* the descriptor table and, unless somebody was harmed, its ownership.    *)
THEOREM MonitorInvariant ==
  Spec => [](TypeOK /\ TableInv /\ UnharmedHeld /\ NoForeignClose)
<1> DEFINE IInv == TypeOK /\ TableInv /\ UnharmedHeld /\ NoForeignClose
<1>1. Init => IInv
  <2> SUFFICES ASSUME Init PROVE IInv
    OBVIOUS
  <2> USE EndsAre, MonitorNetAssumption DEF Init, Free
  <2>1. /\ num = [e \in EndOf \cup {"signalfd"} |-> 0]
        /\ \A n \in Fd : fd[n] = "free"
        /\ dhcp.pc = "none" /\ rt.pc = "none" /\ ~rt.stop
    OBVIOUS
  <2>2. TypeOK
    BY <2>1 DEF TypeOK
  <2>3. HandShake /\ Threads
    BY <2>1 DEF HandShake, Threads, BeforeDhcp, Wiring
  <2>4. Owned /\ Closed
    BY <2>1 DEF Owned, Closed, BeforeDhcp, EndOf, NetEnds
  <2>5. Compact
    BY <2>1 DEF Compact, BeforeDhcp
  <2>6. UnharmedHeld
    BY <2>1 DEF UnharmedHeld, Held, Wiring
  <2>q. QED BY <2>2, <2>3, <2>4, <2>5, <2>6 DEF TableInv, NoForeignClose
<1>2. IInv /\ [Next]_vars => IInv'
  <2> SUFFICES ASSUME TypeOK, TableInv, UnharmedHeld, NoForeignClose, [Next]_vars
               PROVE  TypeOK' /\ TableInv' /\ UnharmedHeld' /\ NoForeignClose'
    OBVIOUS
  <2>q. QED
    BY TypesKept, HandShakeKept, ThreadsKept, OwnedKept, ClosedKept, CompactKept, HeldKept,
       NoForeignCloseKept DEF TableInv
<1>q. QED
  BY <1>1, <1>2, PTL DEF Spec

(* Over any number of reboots, every descriptor number of the monitor has  *)
(* one owner at a time who closes it once, unless the stale close of       *)
(* reboot_loop hits the route monitor's socket; no cycle leaks one, not    *)
(* even the eventfd of a DHCP thread that could not be made.               *)
THEOREM DescriptorsOwned == Spec => []DescriptorsOnce
<1>1. ASSUME TypeOK, TableInv PROVE NoLeak
  <2> SUFFICES ASSUME mpc = "fork", NEW n \in Fd
               PROVE  \/ fd[n] \in {Free, "netlink"}
                      \/ (fd[n] \in Range(Ends) /\ n = num[fd[n]])
    BY DEF NoLeak
  <2>1. fd[n] \in Kinds \cup {Free}
    BY <1>1, EndsAre DEF TypeOK, Kinds
  <2>2. dhcp.pc = "none"
    BY <1>1 DEF TableInv, Threads, BeforeDhcp
  <2>q. QED
    BY <1>1, <2>1, <2>2, EndsAre DEF TableInv, Owned, Closed, BeforeDhcp, Kinds, EndOf
<1>q. QED
  BY <1>1, MonitorInvariant, PTL DEF DescriptorsOnce

(* No thread's context or id is reused while the thread may run: a server  *)
(* is started after the join of the last one, and so is a route monitor.   *)
THEOREM ThreadsJoined == Spec => []ThreadOwned
<1>1. TableInv => ThreadOwned
  BY DEF TableInv, Threads, BeforeDhcp, ThreadOwned, ContextIsFree, ThreadReaped
<1>q. QED
  BY <1>1, MonitorInvariant, PTL

(* In every cycle, init is dead or held at the hand-shake while the        *)
(* monitor wires its network namespace.                                    *)
THEOREM WiredFirst == Spec => []WiredBeforeBoot
<1>1. TableInv => WiredBeforeBoot
  BY DEF TableInv, HandShake, Wiring, WiredBeforeBoot
<1>q. QED
  BY <1>1, MonitorInvariant, PTL
=============================================================================
