---------------------- MODULE RegisterAndFiles_proofs ----------------------
(***************************************************************************)
(* The theorems of three parts that share no state.  The register: its      *)
(* windows, for every calendar and every history whoever wrote it.  The     *)
(* file of a branch's configuration: what an import keeps of other          *)
(* branches, what it brings, what it reports and that it is silent the      *)
(* second time, for any servers, tables to begin with, edits, files and     *)
(* choices.  The poller of the HOSTLIB share, for any files, folders,       *)
(* copies and troubles.                                                     *)
(***************************************************************************)
EXTENDS Register, BranchTransfer, HostlibPoller, FiniteSetTheorems, TLAPS

(* ---------------- The register ---------------- *)

\* What the columns of enterprise_device say of a row: a serial id and a stamp.
Stamped ==
  /\ Horizon \in Nat
  /\ \A p \in Points :
       /\ DOMAIN history[p] \subseteq Int
       /\ \A i \in DOMAIN history[p] : history[p][i].from \in Int

\* The order of the installations is total: of two rows one is followed by the
\* other (the sort of resolve_windows).
LEMMA PrecedesTotal ==
  ASSUME NEW h, NEW i \in DOMAIN h, NEW j \in DOMAIN h,
         i \in Int, j \in Int, h[i].from \in Int, h[j].from \in Int, i # j
  PROVE  Precedes(h, i, j) \/ Precedes(h, j, i)
BY DEF Precedes

\* A window ends at the latest where the next device is installed, so a moment is
\* never in the window of a row and of one that follows it.
LEMMA FollowedIsOver ==
  ASSUME NEW h, NEW i \in DOMAIN h, NEW j \in DOMAIN h, NEW t \in Int,
         h[j].from \in Int,
         Precedes(h, i, j), Covers(h, i, t), Covers(h, j, t)
  PROVE  FALSE
<1>1. t < h[j].from  BY DEF Covers, EndsAfter
<1>2. h[j].from <= t  BY DEF Covers
<1> QED  BY <1>1, <1>2

\* A point measures through one corrector at a time, whatever history it was given
\* (device_history: "two devices in force at the same time" cannot be true).
THEOREM OneDevice == Stamped => OneDeviceAtATime
<1> SUFFICES ASSUME Stamped, NEW p \in Points,
                    NEW i \in DOMAIN history[p], NEW j \in DOMAIN history[p],
                    NEW t \in 0 .. Horizon,
                    Covers(history[p], i, t), Covers(history[p], j, t), i # j
             PROVE  FALSE
  BY DEF OneDeviceAtATime
<1>1. /\ i \in Int /\ j \in Int /\ t \in Int
      /\ history[p][i].from \in Int /\ history[p][j].from \in Int
  BY DEF Stamped
<1>2. Precedes(history[p], i, j) \/ Precedes(history[p], j, i)
  BY <1>1, PrecedesTotal
<1>3. CASE Precedes(history[p], i, j)
  BY <1>1, <1>3, FollowedIsOver
<1>4. CASE Precedes(history[p], j, i)
  BY <1>1, <1>4, FollowedIsOver
<1> QED  BY <1>2, <1>3, <1>4

\* A start that is rounded up to the next midnight is passed by the days that open
\* after it, and by no others.
LEMMA RoundedUp ==
  ASSUME NEW a \in Int, NEW length \in Nat \ {0}, NEW k \in Int
  PROVE  (IF a % length = 0 THEN a \div length ELSE (a \div length) + 1) <= k
           <=> a <= k * length
<1> DEFINE q == a \div length
           m == a % length
<1>1. /\ q \in Int /\ m \in 0 .. length - 1
      /\ a = length * q + m
  OBVIOUS
<1>2. CASE m = 0
  <2>1. a = length * q  BY <1>1, <1>2
  <2>2. q <= k => length * q <= length * k  BY <1>1
  <2>3. q > k => length * q >= length * k + length
    <3>1. q >= k + 1 => length * q >= length * (k + 1)  BY <1>1
    <3> QED  BY <3>1, <1>1
  <2> QED  BY <1>1, <1>2, <2>1, <2>2, <2>3
<1>3. CASE m # 0
  <2>1. q + 1 <= k => length * (q + 1) <= length * k  BY <1>1
  <2>2. q >= k => length * q >= length * k  BY <1>1
  <2> QED  BY <1>1, <1>3, <2>1, <2>2
<1> QED  BY <1>2, <1>3

\* A day is read where the moment it opens at was covered, on every calendar, so the
\* day a corrector was changed in is counted once (attribution_stamp against
\* _read_window).
THEOREM DailyRead == Stamped => DailyReadIsAttribution
<1> SUFFICES ASSUME Stamped, NEW p \in Points, NEW i \in DOMAIN history[p], NEW k \in Days
             PROVE  ReadsDay(history[p], i, k) <=> Covers(history[p], i, Opening(k))
  BY DEF DailyReadIsAttribution
<1> DEFINE from == history[p][i].from
           start == from - ContractHour
           first == IF start % DayLength = 0 THEN start \div DayLength ELSE (start \div DayLength) + 1
<1>1. /\ from \in Int /\ k \in Int /\ start \in Int
      /\ DayLength \in Nat \ {0} /\ ContractHour \in Int
  BY CalendarAssumption DEF Stamped, Days
<1>2. first <= k <=> start <= k * DayLength
  BY <1>1, RoundedUp
<1>3. start <= k * DayLength <=> from <= Opening(k)
  BY <1>1 DEF Opening
<1>4. ReadsDay(history[p], i, k) <=> first <= k /\ EndsAfter(history[p], i, Opening(k))
  BY DEF ReadsDay
<1>5. Covers(history[p], i, Opening(k)) <=> from <= Opening(k) /\ EndsAfter(history[p], i, Opening(k))
  BY DEF Covers
<1> QED  BY <1>2, <1>3, <1>4, <1>5

(* ---------------- The file of a branch ---------------- *)

(* ---- Tables ---- *)

LEMMA OverIs ==
  ASSUME NEW f, NEW g
  PROVE  /\ DOMAIN Over(f, g) = DOMAIN f \cup DOMAIN g
         /\ \A x \in DOMAIN f : Over(f, g)[x] = f[x]
         /\ \A x \in DOMAIN g \ DOMAIN f : Over(f, g)[x] = g[x]
BY DEF Over

LEMMA OverTwice ==
  ASSUME NEW f, NEW g, NEW h
  PROVE  /\ \A x \in DOMAIN f : Over(f, Over(g, h))[x] = f[x]
         /\ \A x \in DOMAIN g \ DOMAIN f : Over(f, Over(g, h))[x] = g[x]
         /\ \A x \in DOMAIN h \ (DOMAIN f \cup DOMAIN g) : Over(f, Over(g, h))[x] = h[x]
BY DEF Over

LEMMA OneIs ==
  ASSUME NEW x, NEW v
  PROVE  DOMAIN One(x, v) = {x} /\ One(x, v)[x] = v
BY DEF One

\* The rows of a file over a table: each where its id is, the others as they were.
Laid(new, table, ids, rows) ==
  /\ new = [i \in DOMAIN new |-> new[i]]
  /\ DOMAIN new = DOMAIN table \cup Range(ids)
  /\ \A k \in DOMAIN ids : new[ids[k]] = rows[k]
  /\ \A i \in DOMAIN table \ Range(ids) : new[i] = table[i]

LEMMA LaidOut ==
  ASSUME NEW ids, NEW rows, NEW table, IsInjective(ids)
  PROVE  Laid(Over(Keyed(ids, rows), table), table, ids, rows)
<1> DEFINE keyed == Keyed(ids, rows)
<1>1. DOMAIN keyed = Range(ids)
  BY DEF Keyed
<1>2. ASSUME NEW k \in DOMAIN ids PROVE keyed[ids[k]] = rows[k] /\ ids[k] \in Range(ids)
  <2>1. ids[k] \in Range(ids)
    BY DEF Range
  <2>2. (CHOOSE j \in DOMAIN ids : ids[j] = ids[k]) = k
    BY DEF IsInjective
  <2>3. QED
    BY Zenon, <2>1, <2>2 DEF Keyed
<1>3. PICK laid : laid = Over(keyed, table)
  OBVIOUS
<1>7. laid = [i \in DOMAIN laid |-> laid[i]]
  BY <1>3 DEF Over
<1>4. /\ DOMAIN laid = DOMAIN keyed \cup DOMAIN table
      /\ \A i \in DOMAIN keyed : laid[i] = keyed[i]
      /\ \A i \in DOMAIN table \ DOMAIN keyed : laid[i] = table[i]
  BY <1>3 DEF Over
<1> HIDE DEF keyed
<1>5. Laid(laid, table, ids, rows)
  BY <1>1, <1>2, <1>4, <1>7 DEF Laid
<1>6. QED
  BY <1>3, <1>5 DEF keyed

(* ---- A file ---- *)

DpdRefs(f) == {<<x.name>> : x \in f.dpd}

\* What an export writes: names that refer to names of the same file, each once.
FileOK(f) ==
  /\ f.uid \in Nat /\ f.name \in Nat
  /\ f.lumgs \subseteq Nat
  /\ \A x \in f.codes : x[1] \in f.lumgs
  /\ f.calcs \subseteq f.lumgs \X Nat \X Nat
  /\ f.lines \subseteq f.lumgs \X Nat \X Nat
  /\ f.dpd \subseteq [name : Nat, lumg : {Null} \cup f.lumgs, history : History]
  /\ f.rings \subseteq [name : Nat, members : SUBSET (f.lines \cup DpdRefs(f))]
  /\ f.routes \subseteq [number : Nat, members : SUBSET f.lines]
  /\ f.points \in [DOMAIN f.points -> [name : Nat, ref : {Null} \cup f.lines \cup DpdRefs(f), history : History]]
  /\ IsFiniteSet(DOMAIN f.points)
  /\ \A x, y \in f.calcs : x[1] = y[1] /\ x[2] = y[2] => x = y
  /\ \A x \in f.lines : \E c \in f.calcs : c[1] = x[1] /\ c[2] = x[2]
  /\ \A x, y \in f.dpd : x.name = y.name => x = y
  /\ \A x, y \in f.rings : x.name = y.name => x = y
  /\ \A x, y \in f.routes : x.number = y.number \/ x.members \cap y.members # {} => x = y

\* ---- Ids and names are told apart ----

LEMMA NullIsNone ==
  /\ Null \notin Nat
  /\ \A x \in Nat : Null # <<x>>
  /\ \A x \in Nat \X Nat : Null # x
  /\ \A x \in Nat \X Nat \X Nat : Null # x
  /\ \A x \in Nat \X Nat \X Nat \X Nat : Null # x
<1>1. Null \notin Nat /\ Null \notin Seq(Nat)
  BY TransferAssumption
<1>2. ASSUME NEW x \in Nat PROVE <<x>> \in Seq(Nat)
  OBVIOUS
<1>3. ASSUME NEW x \in Nat \X Nat PROVE x \in Seq(Nat)
  <2>1. x = <<x[1], x[2]>> /\ x[1] \in Nat /\ x[2] \in Nat
    OBVIOUS
  <2>2. <<x[1], x[2]>> \in Seq(Nat)
    BY <2>1
  <2>3. QED
    BY Zenon, <2>1, <2>2
<1>4. ASSUME NEW x \in Nat \X Nat \X Nat PROVE x \in Seq(Nat)
  <2>1. x = <<x[1], x[2], x[3]>> /\ x[1] \in Nat /\ x[2] \in Nat /\ x[3] \in Nat
    OBVIOUS
  <2>2. <<x[1], x[2], x[3]>> \in Seq(Nat)
    BY <2>1
  <2>3. QED
    BY Zenon, <2>1, <2>2
<1>5. ASSUME NEW x \in Nat \X Nat \X Nat \X Nat PROVE x \in Seq(Nat)
  <2>1. x = <<x[1], x[2], x[3], x[4]>> /\ x[1] \in Nat /\ x[2] \in Nat /\ x[3] \in Nat /\ x[4] \in Nat
    OBVIOUS
  <2>2. <<x[1], x[2], x[3], x[4]>> \in Seq(Nat)
    BY <2>1
  <2>3. QED
    BY Zenon, <2>1, <2>2
<1>6. QED
  BY Zenon, <1>1, <1>2, <1>3, <1>4, <1>5

LEMMA LengthsDiffer ==
  /\ \A x \in Nat \X Nat \X Nat, y \in Nat : x # <<y>>
  /\ \A x \in Nat \X Nat \X Nat \X Nat, y \in Nat \X Nat : x # y
<1>1. ASSUME NEW x \in Nat \X Nat \X Nat, NEW y \in Nat PROVE x # <<y>>
  <2>1. x = <<x[1], x[2], x[3]>>
    OBVIOUS
  <2>2. Len(<<x[1], x[2], x[3]>>) = 3 /\ Len(<<y>>) = 1
    OBVIOUS
  <2>3. QED
    BY <2>1, <2>2
<1>2. ASSUME NEW x \in Nat \X Nat \X Nat \X Nat, NEW y \in Nat \X Nat PROVE x # y
  <2>1. x = <<x[1], x[2], x[3], x[4]>> /\ y = <<y[1], y[2]>>
    OBVIOUS
  <2>2. Len(<<x[1], x[2], x[3], x[4]>>) = 4 /\ Len(<<y[1], y[2]>>) = 2
    OBVIOUS
  <2>3. QED
    BY <2>1, <2>2
<1>3. QED
  BY <1>1, <1>2

\* What step n makes was not there before.
LEMMA NewIsNew ==
  ASSUME NEW d, NEW n \in Nat, MadeBefore(d, n)
  PROVE  /\ <<n>> \notin DOMAIN d.branch
         /\ \A x : <<n, x>> \notin DOMAIN d.lumg \cup DOMAIN d.dpd \cup DOMAIN d.ring \cup DOMAIN d.route
         /\ \A x : <<n, x>> \notin DOMAIN d.point
         /\ \A x, y : <<n, x, y>> \notin DOMAIN d.calc
         /\ \A x, y, z : <<n, x, y, z>> \notin DOMAIN d.line
<1>1. n \notin 0 .. n - 1
  OBVIOUS
<1>2. <<n>> \notin DOMAIN d.branch
  BY <1>1 DEF MadeBefore
<1>3. \A x : <<n, x>> \notin (0 .. n - 1) \X Nat
  BY <1>1
<1>4. \A x, y : <<n, x, y>> \notin (0 .. n - 1) \X Nat \X Nat
  BY <1>1
<1>5. \A x, y, z : <<n, x, y, z>> \notin (0 .. n - 1) \X Nat \X Nat \X Nat
  BY <1>1
<1>6. \A x : <<n, x>> \notin DOMAIN d.point
  BY <1>1 DEF MadeBefore
<1>7. QED
  BY <1>2, <1>3, <1>4, <1>5, <1>6 DEF MadeBefore

(* ---- The rows a file's names stand for ---- *)

LumgsStand(d, n, f, b, ids) ==
  /\ DOMAIN ids.lumg = f.lumgs
  /\ \A x \in f.lumgs : ids.lumg[x] \in LumgsOf(d, b) \/ ids.lumg[x] = <<n, x>>
  /\ \A x \in f.lumgs, l \in LumgsOf(d, b) : d.lumg[l].name = x => ids.lumg[x] = l
  /\ IsInjective(ids.lumg)

CalcsStand(d, n, f, ids) ==
  /\ DOMAIN ids.calc = f.calcs
  /\ \A k \in f.calcs :
       \/ ids.calc[k] = <<n, k[1], k[2]>>
       \/ /\ ids.calc[k] \in DOMAIN d.calc
          /\ d.calc[ids.calc[k]].lumg = ids.lumg[k[1]] /\ d.calc[ids.calc[k]].address = k[2]
  /\ \A k \in f.calcs, c \in DOMAIN d.calc :
       d.calc[c].lumg = ids.lumg[k[1]] /\ d.calc[c].address = k[2] => ids.calc[k] = c
  /\ IsInjective(ids.calc)

LinesStand(d, n, f, ids) ==
  /\ \A x \in f.lines : \E c \in f.calcs : c[1] = x[1] /\ c[2] = x[2] /\ ids.of[x] = ids.calc[c]
  /\ DOMAIN ids.line = f.lines
  /\ \A x \in f.lines :
       \/ ids.line[x] = <<n, x[1], x[2], x[3]>>
       \/ /\ ids.line[x] \in DOMAIN d.line
          /\ d.line[ids.line[x]].calc = ids.of[x] /\ d.line[ids.line[x]].no = x[3]
  /\ \A x \in f.lines, i \in DOMAIN d.line :
       d.line[i].calc = ids.of[x] /\ d.line[i].no = x[3] => ids.line[x] = i
  /\ IsInjective(ids.line)

\* The DPD lines and the rings of a file, which are found by their names.
NamedStand(table, n, b, names, found) ==
  /\ DOMAIN found = names
  /\ \A x \in names :
       found[x] = <<n, x.name>> \/ (found[x] \in In(table, b) /\ table[found[x]].name = x.name)
  /\ \A x \in names, i \in In(table, b) : table[i].name = x.name => found[x] = i
  /\ IsInjective(found)

RoutesStand(d, n, f, b, ids) ==
  /\ DOMAIN ids.route = f.routes
  /\ \A x \in f.routes :
       \/ ids.route[x] = <<n, x.number>>
       \/ ids.route[x] \in In(d.route, b) /\ d.route[ids.route[x]].number = x.number
  /\ \A x \in f.routes, i \in In(d.route, b) : d.route[i].number = x.number => ids.route[x] = i
  /\ IsInjective(ids.route)

PointsStand(d, n, f, b, ids) ==
  /\ DOMAIN ids.point = DOMAIN f.points
  /\ \A k \in DOMAIN f.points :
       \/ ids.point[k] = <<n, k>>
       \/ ids.point[k] \in In(d.point, b) /\ d.point[ids.point[k]].name = f.points[k].name
  /\ IsInjective(ids.point)

RowsStand(f, ids) ==
  /\ \A r \in f.lines : ids.row[r] = ids.line[r]
  /\ \A x \in f.dpd : ids.row[<<x.name>>] = ids.dpd[x]
  /\ ids.row[Null] = Null

\* A branch is found or new, and every name of the file stands for a row of it: the one
\* that bears the name, or one of its own.
StandsFor(d, n, f, b, ids) ==
  /\ b \in DOMAIN d.branch \/ b = <<n>>
  /\ ByUid(d, f) \cup ByName(d, f) \subseteq {b}
  /\ LumgsStand(d, n, f, b, ids)
  /\ CalcsStand(d, n, f, ids)
  /\ LinesStand(d, n, f, ids)
  /\ NamedStand(d.dpd, n, b, f.dpd, ids.dpd)
  /\ NamedStand(d.ring, n, b, f.rings, ids.ring)
  /\ RoutesStand(d, n, f, b, ids)
  /\ PointsStand(d, n, f, b, ids)
  /\ RowsStand(f, ids)

LEMMA OnlyIs ==
  ASSUME NEW found, NEW new
  PROVE  IF found = {} THEN Only(found, new) = new ELSE Only(found, new) \in found
BY DEF Only

LEMMA LumgsFound ==
  ASSUME NEW d, NEW n \in Nat, Sound(d, n), NEW f, FileOK(f), NEW b, NEW lumgMap, NEW ids,
         ids.lumg = [name \in f.lumgs |-> LumgId(d, b, n, lumgMap, name)],
         ~LumgsRefused(d, f, b, lumgMap)
  PROVE  LumgsStand(d, n, f, b, ids)
<1> DEFINE rows(x) == LumgsFor(d, b, x, lumgMap)
<1>1. ASSUME NEW x \in f.lumgs
      PROVE  IF rows(x) = {} THEN ids.lumg[x] = <<n, x>> ELSE ids.lumg[x] \in rows(x)
  <2>1. ids.lumg[x] = Only(rows(x), <<n, x>>)
    BY DEF LumgId
  <2>2. QED
    BY <2>1, OnlyIs
<1>2. ASSUME NEW x \in f.lumgs PROVE rows(x) \subseteq LumgsOf(d, b)
  BY DEF LumgsFor, LumgsNamed, LumgsRefused
<1>3. ASSUME NEW x \in f.lumgs, NEW l \in LumgsOf(d, b), d.lumg[l].name = x
      PROVE  rows(x) = {l}
  <2>1. l \in LumgsNamed(d, b, x)
    BY <1>3 DEF LumgsNamed
  <2>2. CASE x \in DOMAIN lumgMap
    <3>1. LumgsNamed(d, b, x) \ {lumgMap[x]} = {}
      BY <2>2 DEF LumgsRefused
    <3>2. QED
      BY <2>1, <2>2, <3>1 DEF LumgsFor
  <2>3. CASE x \notin DOMAIN lumgMap
    <3>1. ASSUME NEW m \in LumgsNamed(d, b, x) PROVE m = l
      BY <1>3, <2>1 DEF LumgsNamed, LumgsOf, Sound, Unique
    <3>2. QED
      BY <2>1, <2>3, <3>1 DEF LumgsFor
  <2>4. QED
    BY <2>2, <2>3
<1>4. ASSUME NEW x \in f.lumgs, NEW y \in f.lumgs, ids.lumg[x] = ids.lumg[y] PROVE x = y
  <2> SUFFICES ASSUME x # y PROVE FALSE
    OBVIOUS
  <2>1. \A z : <<n, z>> \notin LumgsOf(d, b)
    BY Zenon, NewIsNew DEF Sound, LumgsOf
  <2>2. ids.lumg[x] \in rows(x) /\ ids.lumg[y] \in rows(y)
    <3> HIDE DEF rows
    <3>1. <<n, x>> # <<n, y>>
      OBVIOUS
    <3>2. ids.lumg[x] \in rows(x) \/ ids.lumg[x] = <<n, x>>
      BY <1>1
    <3>3. ids.lumg[y] \in rows(y) \/ ids.lumg[y] = <<n, y>>
      BY <1>1
    <3>4. <<n, x>> \notin rows(y) /\ <<n, y>> \notin rows(x)
      BY <1>2, <2>1
    <3>5. QED
      BY <1>4, <3>1, <3>2, <3>3, <3>4
  <2>3. CASE x \in DOMAIN lumgMap
    BY <1>4, <2>2, <2>3 DEF LumgsFor, LumgsRefused
  <2>4. CASE y \in DOMAIN lumgMap
    BY <1>4, <2>2, <2>4 DEF LumgsFor, LumgsRefused
  <2>5. CASE x \notin DOMAIN lumgMap /\ y \notin DOMAIN lumgMap
    BY <1>4, <2>2, <2>5 DEF LumgsFor, LumgsNamed
  <2>6. QED
    BY <2>3, <2>4, <2>5
<1>5. DOMAIN ids.lumg = f.lumgs
  OBVIOUS
<1> HIDE DEF rows
<1>6. ASSUME NEW x \in f.lumgs PROVE ids.lumg[x] \in LumgsOf(d, b) \/ ids.lumg[x] = <<n, x>>
  BY <1>1, <1>2
<1>7. ASSUME NEW x \in f.lumgs, NEW l \in LumgsOf(d, b), d.lumg[l].name = x PROVE ids.lumg[x] = l
  BY <1>1, <1>3, <1>7
<1>8. QED
  BY Zenon, <1>4, <1>5, <1>6, <1>7 DEF LumgsStand, IsInjective

LEMMA CalcsFound ==
  ASSUME NEW d, NEW n \in Nat, Sound(d, n), NEW f, FileOK(f), NEW b, NEW ids,
         LumgsStand(d, n, f, b, ids),
         ids.calc = [c \in f.calcs |-> CalcId(d, ids.lumg[c[1]], n, c)]
  PROVE  CalcsStand(d, n, f, ids)
<1> DEFINE rows(k) == {c \in DOMAIN d.calc : d.calc[c].lumg = ids.lumg[k[1]] /\ d.calc[c].address = k[2]}
<1>1. ASSUME NEW k \in f.calcs
      PROVE  IF rows(k) = {} THEN ids.calc[k] = <<n, k[1], k[2]>> ELSE ids.calc[k] \in rows(k)
  <2>1. ids.calc[k] = Only(rows(k), <<n, k[1], k[2]>>)
    BY DEF CalcId
  <2>2. QED
    BY <2>1, OnlyIs
<1>2. ASSUME NEW k \in f.calcs, NEW c \in rows(k) PROVE rows(k) = {c}
  BY DEF Sound, Unique
<1>3. ASSUME NEW k \in f.calcs
      PROVE  ids.calc[k] = <<n, k[1], k[2]>> \/ ids.calc[k] \in rows(k)
  BY Zenon, <1>1
<1>4. ASSUME NEW k \in f.calcs, NEW c \in rows(k) PROVE ids.calc[k] = c
  <2>1. rows(k) = {c}
    BY <1>2
  <2> HIDE DEF rows
  <2>2. QED
    BY <1>1, <2>1
<1>5. \A x, y : <<n, x, y>> \notin DOMAIN d.calc
  BY Zenon, NewIsNew DEF Sound
<1>9. \A k \in f.calcs : rows(k) \subseteq DOMAIN d.calc
  OBVIOUS
<1>10. ASSUME NEW j \in f.calcs, NEW k \in f.calcs, ids.calc[j] = ids.calc[k],
              ids.calc[j] \in rows(j)
       PROVE  ids.calc[k] \in rows(k)
  <2> HIDE DEF rows
  <2>1. ids.calc[k] = <<n, k[1], k[2]>> \/ ids.calc[k] \in rows(k)
    BY <1>3
  <2>2. ids.calc[k] \in DOMAIN d.calc
    BY <1>9, <1>10
  <2>4. <<n, k[1], k[2]>> \notin DOMAIN d.calc
    BY <1>5
  <2>3. QED
    BY <2>1, <2>2, <2>4
<1>6. ASSUME NEW j \in f.calcs, NEW k \in f.calcs, ids.calc[j] = ids.calc[k] PROVE j = k
  <2>1. j[1] \in f.lumgs /\ k[1] \in f.lumgs
    BY DEF FileOK
  <2>2. ASSUME ids.calc[j] \in rows(j) PROVE j = k
    <3>1. ids.calc[k] \in rows(k)
      BY ZenonT(30), <1>10, <1>6, <2>2
    <3>2. ids.lumg[j[1]] = ids.lumg[k[1]] /\ j[2] = k[2]
      BY <1>6, <2>2, <3>1
    <3>3. j[1] = k[1]
      BY <2>1, <3>2 DEF LumgsStand, IsInjective
    <3>4. QED
      BY <3>2, <3>3 DEF FileOK
  <2>3. CASE ids.calc[j] = <<n, j[1], j[2]>>
    <3>1. CASE ids.calc[k] \in rows(k)
      <4>1. ids.calc[j] \in rows(j)
        BY ZenonT(30), <1>10, <1>6, <3>1
      <4>2. QED
        BY <2>2, <4>1
    <3>2. CASE ids.calc[k] = <<n, k[1], k[2]>>
      <4>1. j[1] = k[1] /\ j[2] = k[2]
        BY <1>6, <2>3, <3>2
      <4>2. QED
        BY <4>1 DEF FileOK
    <3>3. QED
      BY Zenon, <1>3, <3>1, <3>2
  <2>4. QED
    BY Zenon, <1>3, <2>2, <2>3
<1>7. DOMAIN ids.calc = f.calcs
  OBVIOUS
<1>8. QED
  BY Zenon, <1>3, <1>4, <1>6, <1>7 DEF CalcsStand, IsInjective

LEMMA LinesFound ==
  ASSUME NEW d, NEW n \in Nat, Sound(d, n), NEW f, FileOK(f), NEW ids,
         CalcsStand(d, n, f, ids),
         ids.of = [key \in f.lines |-> ids.calc[CHOOSE c \in f.calcs : c[1] = key[1] /\ c[2] = key[2]]],
         ids.line = [key \in f.lines |-> LineId(d, ids.of[key], n, key)]
  PROVE  LinesStand(d, n, f, ids)
<1>1. ASSUME NEW x \in f.lines
      PROVE  \E c \in f.calcs : c[1] = x[1] /\ c[2] = x[2] /\ ids.of[x] = ids.calc[c]
  <2> DEFINE c == CHOOSE c \in f.calcs : c[1] = x[1] /\ c[2] = x[2]
  <2>1. c \in f.calcs /\ c[1] = x[1] /\ c[2] = x[2]
    BY DEF FileOK
  <2>2. ids.of[x] = ids.calc[c]
    OBVIOUS
  <2> HIDE DEF c
  <2>3. QED
    BY Zenon, <2>1, <2>2
<1> DEFINE rows(x) == {i \in DOMAIN d.line : d.line[i].calc = ids.of[x] /\ d.line[i].no = x[3]}
<1>2. ASSUME NEW x \in f.lines
      PROVE  IF rows(x) = {} THEN ids.line[x] = <<n, x[1], x[2], x[3]>> ELSE ids.line[x] \in rows(x)
  <2>1. ids.line[x] = Only(rows(x), <<n, x[1], x[2], x[3]>>)
    BY DEF LineId
  <2> DEFINE new == <<n, x[1], x[2], x[3]>>
  <2> HIDE DEF rows, new
  <2>3. IF rows(x) = {} THEN Only(rows(x), new) = new ELSE Only(rows(x), new) \in rows(x)
    BY OnlyIs
  <2>4. ids.line[x] = Only(rows(x), new)
    BY <2>1 DEF new
  <2>2. QED
    BY Zenon, <2>3, <2>4 DEF new
<1>3. ASSUME NEW x \in f.lines
      PROVE  ids.line[x] = <<n, x[1], x[2], x[3]>> \/ ids.line[x] \in rows(x)
  BY Zenon, <1>2
<1>4. ASSUME NEW x \in f.lines, NEW i \in rows(x) PROVE ids.line[x] = i
  <2>1. ids.line[x] \in rows(x)
    BY Zenon, <1>2
  <2>4. /\ d.line[i] \in [calc : DOMAIN d.calc, no : Nat]
        /\ d.line[ids.line[x]] \in [calc : DOMAIN d.calc, no : Nat]
    BY Zenon, <2>1 DEF Sound, Refers
  <2>5. d.line[ids.line[x]].calc = d.line[i].calc /\ d.line[ids.line[x]].no = d.line[i].no
    BY Zenon, <2>1
  <2>2. d.line[ids.line[x]] = d.line[i]
    <3>1. d.line[i] = [calc |-> d.line[i].calc, no |-> d.line[i].no]
      BY Zenon, <2>4
    <3>2. d.line[ids.line[x]] = [calc |-> d.line[ids.line[x]].calc, no |-> d.line[ids.line[x]].no]
      BY Zenon, <2>4
    <3>3. QED
      BY ONLY <2>5, <3>1, <3>2
  <2>3. QED
    BY Zenon, <2>1, <2>2 DEF Sound, Unique
<1>5. \A x, y, z : <<n, x, y, z>> \notin DOMAIN d.line
  BY Zenon, NewIsNew DEF Sound
<1>9. \A x \in f.lines : rows(x) \subseteq DOMAIN d.line
  OBVIOUS
<1>10. ASSUME NEW x \in f.lines, NEW y \in f.lines, ids.line[x] = ids.line[y],
              ids.line[x] \in rows(x)
       PROVE  ids.line[y] \in rows(y)
  <2> HIDE DEF rows
  <2>1. ids.line[y] = <<n, y[1], y[2], y[3]>> \/ ids.line[y] \in rows(y)
    BY Zenon, <1>3
  <2>2. ids.line[y] \in DOMAIN d.line
    BY SMTT(30), <1>9, <1>10
  <2>4. <<n, y[1], y[2], y[3]>> \notin DOMAIN d.line
    BY <1>5
  <2>3. QED
    BY Zenon, <2>1, <2>2, <2>4
<1>6. ASSUME NEW x \in f.lines, NEW y \in f.lines, ids.line[x] = ids.line[y] PROVE x = y
  <2>1. x = <<x[1], x[2], x[3]>> /\ y = <<y[1], y[2], y[3]>>
    BY DEF FileOK
  <2>2. ASSUME ids.line[x] \in rows(x) PROVE x = y
    <3>1. ids.line[y] \in rows(y)
      BY Zenon, <1>10, <1>6, <2>2
    <3>2. ids.of[x] = ids.of[y] /\ x[3] = y[3]
      BY Zenon, <1>6, <2>2, <3>1
    <3>3. PICK c \in f.calcs : c[1] = x[1] /\ c[2] = x[2] /\ ids.of[x] = ids.calc[c]
      BY Zenon, <1>1
    <3>4. PICK e \in f.calcs : e[1] = y[1] /\ e[2] = y[2] /\ ids.of[y] = ids.calc[e]
      BY Zenon, <1>1
    <3>5. c = e
      BY SMTT(30), <3>2, <3>3, <3>4 DEF CalcsStand, IsInjective
    <3>6. QED
      BY <2>1, <3>2, <3>3, <3>4, <3>5
  <2>3. CASE ids.line[x] = <<n, x[1], x[2], x[3]>>
    <3>1. CASE ids.line[y] \in rows(y)
      <4>1. ids.line[x] \in rows(x)
        BY Zenon, <1>10, <1>6, <3>1
      <4>2. QED
        BY Zenon, <2>2, <4>1
    <3>2. CASE ids.line[y] = <<n, y[1], y[2], y[3]>>
      <4>1. <<n, x[1], x[2], x[3]>> = <<n, y[1], y[2], y[3]>>
        BY ONLY Zenon, <1>6, <2>3, <3>2
      <4>2. x[1] = y[1] /\ x[2] = y[2] /\ x[3] = y[3]
        BY ONLY <4>1
      <4>3. QED
        BY <2>1, <4>2
    <3>3. QED
      BY Zenon, <1>3, <3>1, <3>2
  <2>4. QED
    BY Zenon, <1>3, <2>2, <2>3
<1>7. DOMAIN ids.line = f.lines
  OBVIOUS
<1>8. QED
  BY Zenon, <1>1, <1>3, <1>4, <1>6, <1>7 DEF LinesStand, IsInjective

\* The DPD lines of a file, and its rings.
LEMMA NamedFound ==
  ASSUME NEW table, NEW n \in Nat, NEW b, NEW names, NEW found,
         \A i, j \in DOMAIN table : table[i].branch = table[j].branch /\ table[i].name = table[j].name => i = j,
         \A x : <<n, x>> \notin DOMAIN table,
         \A x, y \in names : x.name = y.name => x = y,
         found = [x \in names |-> RowId(table, b, n, x.name)]
  PROVE  NamedStand(table, n, b, names, found)
<1> DEFINE rows(x) == {i \in In(table, b) : table[i].name = x.name}
<1>1. ASSUME NEW x \in names
      PROVE  IF rows(x) = {} THEN found[x] = <<n, x.name>> ELSE found[x] \in rows(x)
  <2>1. found[x] = Only(rows(x), <<n, x.name>>)
    BY DEF RowId
  <2>2. QED
    BY <2>1, OnlyIs
<1>2. ASSUME NEW x \in names PROVE found[x] = <<n, x.name>> \/ found[x] \in rows(x)
  BY <1>1
<1>3. ASSUME NEW x \in names, NEW i \in rows(x) PROVE found[x] = i
  <2>1. found[x] \in rows(x)
    BY <1>1
  <2>2. QED
    BY <2>1 DEF In
<1>4. \A x \in names : rows(x) \subseteq DOMAIN table
  BY DEF In
<1>5. ASSUME NEW x \in names, NEW y \in names, found[x] = found[y] PROVE x = y
  <2>1. CASE found[x] \in rows(x)
    <3>1. found[y] \in rows(y)
      BY <1>2, <1>4, <1>5, <2>1
    <3>2. x.name = y.name
      BY <1>5, <2>1, <3>1
    <3>3. QED
      BY <3>2
  <2>2. CASE found[x] = <<n, x.name>>
    <3>1. found[y] = <<n, y.name>>
      BY <1>2, <1>4, <1>5, <2>2
    <3>2. x.name = y.name
      BY <1>5, <2>2, <3>1
    <3>3. QED
      BY <3>2
  <2>3. QED
    BY <1>2, <2>1, <2>2
<1>6. DOMAIN found = names
  OBVIOUS
<1>7. QED
  BY <1>2, <1>3, <1>5, <1>6 DEF NamedStand, IsInjective

LEMMA RoutesFound ==
  ASSUME NEW d, NEW n \in Nat, Sound(d, n), NEW f, FileOK(f), NEW b, NEW ids,
         ids.route = [x \in f.routes |-> RouteId(d, b, n, x.number)]
  PROVE  RoutesStand(d, n, f, b, ids)
<1> DEFINE rows(x) == {i \in In(d.route, b) : d.route[i].number = x.number}
<1>1. ASSUME NEW x \in f.routes
      PROVE  IF rows(x) = {} THEN ids.route[x] = <<n, x.number>> ELSE ids.route[x] \in rows(x)
  <2>1. ids.route[x] = Only(rows(x), <<n, x.number>>)
    BY DEF RouteId
  <2>2. QED
    BY <2>1, OnlyIs
<1>2. ASSUME NEW x \in f.routes PROVE ids.route[x] = <<n, x.number>> \/ ids.route[x] \in rows(x)
  BY Zenon, <1>1
<1>3. ASSUME NEW x \in f.routes, NEW i \in rows(x) PROVE ids.route[x] = i
  <2>1. ids.route[x] \in rows(x)
    BY Zenon, <1>1
  <2>4. /\ d.route[i] \in [branch : DOMAIN d.branch, number : Nat]
        /\ d.route[ids.route[x]] \in [branch : DOMAIN d.branch, number : Nat]
    BY <2>1 DEF In, Sound, Refers
  <2>5. d.route[ids.route[x]].branch = d.route[i].branch /\ d.route[ids.route[x]].number = d.route[i].number
    BY <2>1 DEF In
  <2>2. d.route[ids.route[x]] = d.route[i]
    BY <2>4, <2>5
  <2>3. QED
    BY <2>1, <2>2 DEF In, Sound, Unique
<1>4. \A x : <<n, x>> \notin DOMAIN d.route
  BY Zenon, NewIsNew DEF Sound
<1>8. \A x \in f.routes : rows(x) \subseteq DOMAIN d.route
  BY DEF In
<1>5. ASSUME NEW x \in f.routes, NEW y \in f.routes, ids.route[x] = ids.route[y] PROVE x = y
  <2>1. CASE ids.route[x] \in rows(x)
    <3>1. ids.route[y] \in rows(y)
      <4>1. ids.route[y] \in DOMAIN d.route
        BY <1>5, <1>8, <2>1
      <4>2. <<n, y.number>> \notin DOMAIN d.route
        BY <1>4
      <4> HIDE DEF rows
      <4>3. QED
        BY Zenon, <1>2, <4>1, <4>2
    <3>2. x.number = y.number
      BY <1>5, <2>1, <3>1
    <3>3. QED
      BY <3>2 DEF FileOK
  <2>2. CASE ids.route[x] = <<n, x.number>>
    <3>1. ids.route[y] = <<n, y.number>>
      BY ZenonT(30), <1>2, <1>4, <1>5, <1>8, <2>2
    <3>2. x.number = y.number
      BY <1>5, <2>2, <3>1
    <3>3. QED
      BY <3>2 DEF FileOK
  <2>3. QED
    BY Zenon, <1>2, <2>1, <2>2
<1>6. DOMAIN ids.route = f.routes
  OBVIOUS
<1>7. QED
  BY Zenon, <1>2, <1>3, <1>5, <1>6 DEF RoutesStand, IsInjective
LEMMA PointsFound ==
  ASSUME NEW d, NEW n \in Nat, Sound(d, n), NEW f, NEW b, NEW ids,
         ids.point = [k \in DOMAIN f.points |-> PointId(d, f, b, n, k)],
         ~Ambiguous(f.points)
  PROVE  PointsStand(d, n, f, b, ids)
<1> DEFINE byKey(k) == {i \in In(d.point, b) : enterprise_key(d.point[i]) = enterprise_key(f.points[k])}
           byName(k) == {i \in In(d.point, b) : d.point[i].name = f.points[k].name}
           alone(k) == \A j \in DOMAIN f.points : f.points[j].name = f.points[k].name => j = k
<1>1. ASSUME NEW k \in DOMAIN f.points
      PROVE  \/ ids.point[k] = <<n, k>>
             \/ ids.point[k] \in byKey(k)
             \/ ids.point[k] \in byName(k) /\ alone(k)
  <2>1. ids.point[k] = PointId(d, f, b, n, k)
    OBVIOUS
  <2>2. PointId(d, f, b, n, k) = IF byKey(k) = {} /\ Cardinality(byName(k)) = 1 /\ alone(k)
                                 THEN CHOOSE i \in byName(k) : TRUE
                                 ELSE Only(byKey(k), <<n, k>>)
    BY DEF PointId
  <2>3. Cardinality(byName(k)) = 1 => byName(k) # {}
    <3>1. Cardinality({}) # 1
      BY FS_EmptySet
    <3>2. QED
      BY Zenon, <3>1
  <2> HIDE DEF byKey, byName, alone
  <2>4. IF byKey(k) = {} THEN Only(byKey(k), <<n, k>>) = <<n, k>> ELSE Only(byKey(k), <<n, k>>) \in byKey(k)
    BY OnlyIs
  <2>5. byName(k) # {} => (CHOOSE i \in byName(k) : TRUE) \in byName(k)
    OBVIOUS
  <2>6. CASE byKey(k) = {} /\ Cardinality(byName(k)) = 1 /\ alone(k)
    BY <2>1, <2>2, <2>3, <2>5, <2>6
  <2>7. CASE ~(byKey(k) = {} /\ Cardinality(byName(k)) = 1 /\ alone(k))
    BY <2>1, <2>2, <2>4, <2>7
  <2>8. QED
    BY <2>6, <2>7
<1>2. ASSUME NEW k \in DOMAIN f.points, NEW i \in byKey(k) PROVE i \in byName(k)
  BY DEF enterprise_key
<1>3. ASSUME NEW j \in DOMAIN f.points, NEW k \in DOMAIN f.points, j # k,
             NEW i, i \in byKey(j), i \in byKey(k)
      PROVE  FALSE
  BY <1>3 DEF Ambiguous, SameKey
<1>4. ASSUME NEW k \in DOMAIN f.points PROVE <<n, k>> \notin byName(k)
  BY Zenon, NewIsNew DEF Sound, In
<1>5. ASSUME NEW j \in DOMAIN f.points, NEW k \in DOMAIN f.points, NEW i, i \in byName(j), i \in byName(k),
             alone(j)
      PROVE  j = k
  BY <1>5
<1>6. ASSUME NEW j \in DOMAIN f.points, NEW k \in DOMAIN f.points PROVE <<n, k>> \notin byName(j)
  BY Zenon, NewIsNew DEF Sound, In
<1>7. DOMAIN ids.point = DOMAIN f.points
  OBVIOUS
<1>8. ASSUME NEW k \in DOMAIN f.points
      PROVE  \/ ids.point[k] = <<n, k>>
             \/ ids.point[k] \in In(d.point, b) /\ d.point[ids.point[k]].name = f.points[k].name
  <2>1. ids.point[k] = <<n, k>> \/ ids.point[k] \in byName(k)
    <3> HIDE DEF byKey, byName, alone
    <3>1. QED
      BY <1>1, <1>2
  <2>2. QED
    BY <2>1
<1> HIDE DEF byKey, byName, alone
<1>9. ASSUME NEW j \in DOMAIN f.points, NEW k \in DOMAIN f.points, ids.point[j] = ids.point[k] PROVE j = k
  <2>1. CASE ids.point[j] = <<n, j>> /\ ids.point[k] = <<n, k>>
    BY <1>9, <2>1
  <2>2. ASSUME ids.point[j] = <<n, j>>, ids.point[k] \in byName(k) PROVE FALSE
    BY <1>6, <1>9, <2>2
  <2>3. ASSUME ids.point[k] = <<n, k>>, ids.point[j] \in byName(j) PROVE FALSE
    BY <1>6, <1>9, <2>3
  <2>4. CASE ids.point[j] \in byName(j) /\ ids.point[k] \in byName(k)
    <3>1. ids.point[j] \in byName(j) /\ ids.point[j] \in byName(k)
      BY <1>9, <2>4
    <3>2. ids.point[j] # <<n, j>> /\ ids.point[k] # <<n, k>>
      BY Zenon, <1>4, <2>4
    <3>3. CASE alone(j)
      BY <1>5, <3>1, <3>3
    <3>4. CASE alone(k)
      BY <1>5, <3>1, <3>4
    <3>5. CASE ~alone(j) /\ ~alone(k)
      <4>1. ids.point[j] \in byKey(j) /\ ids.point[k] \in byKey(k)
        BY Zenon, <1>1, <3>2, <3>5
      <4>2. QED
        BY <1>3, <1>9, <4>1
    <3>6. QED
      BY <3>3, <3>4, <3>5
  <2>5. /\ ids.point[j] = <<n, j>> \/ ids.point[j] \in byName(j)
        /\ ids.point[k] = <<n, k>> \/ ids.point[k] \in byName(k)
    BY Zenon, <1>1, <1>2
  <2>6. QED
    BY <2>1, <2>2, <2>3, <2>4, <2>5
<1>10. QED
  BY Zenon, <1>7, <1>8, <1>9 DEF PointsStand, IsInjective

LEMMA RowsFound ==
  ASSUME NEW d, NEW n, NEW f, FileOK(f), NEW b, NEW lumgMap,
         NEW ids, ids = Stand(d, n, f, b, lumgMap), DOMAIN ids.line = f.lines
  PROVE  RowsStand(f, ids)
<1>1. PICK null : null = One(Null, Null)
  OBVIOUS
<1>2. PICK dpdOf : dpdOf = [ref \in DpdRefs(f) |-> ids.dpd[CHOOSE x \in f.dpd : x.name = ref[1]]]
  BY Zenon
<1>3. ids.row = Over(ids.line, Over(dpdOf, null))
  BY SMTT(30), <1>1, <1>2 DEF Stand, DpdRefs
<1>4. /\ \A x \in DOMAIN ids.line : ids.row[x] = ids.line[x]
      /\ \A x \in DOMAIN dpdOf \ DOMAIN ids.line : ids.row[x] = dpdOf[x]
      /\ \A x \in DOMAIN null \ (DOMAIN ids.line \cup DOMAIN dpdOf) : ids.row[x] = null[x]
  BY ONLY <1>3, OverTwice
<1>5. DOMAIN null = {Null} /\ null[Null] = Null
  BY Zenon, <1>1, OneIs
<1>6. \A r \in f.lines : r \in Nat \X Nat \X Nat
  BY DEF FileOK
<1>7. \A x \in f.dpd : x.name \in Nat
  BY DEF FileOK
<1>8. Null \notin f.lines /\ \A x \in f.dpd : <<x.name>> \notin f.lines
  BY <1>6, <1>7, NullIsNone, LengthsDiffer
<1>9. DOMAIN dpdOf = DpdRefs(f) /\ Null \notin DpdRefs(f) /\ \A x \in f.dpd : <<x.name>> \in DpdRefs(f)
  BY <1>2, <1>7, NullIsNone DEF DpdRefs
<1>10. ASSUME NEW x \in f.dpd PROVE dpdOf[<<x.name>>] = ids.dpd[x]
  <2>1. (CHOOSE y \in f.dpd : y.name = <<x.name>>[1]) = x
    BY DEF FileOK
  <2>2. QED
    BY <1>2, <1>9, <2>1
<1>11. \A r \in f.lines : ids.row[r] = ids.line[r]
  BY <1>4
<1>12. \A x \in f.dpd : ids.row[<<x.name>>] = ids.dpd[x]
  BY Zenon, <1>4, <1>8, <1>9, <1>10
<1>13. ids.row[Null] = Null
  BY <1>4, <1>5, <1>8, <1>9
<1>14. QED
  BY <1>11, <1>12, <1>13 DEF RowsStand

LEMMA Fields ==
  ASSUME NEW d, NEW n, Sound(d, n)
  PROVE  /\ \A b \in DOMAIN d.branch : d.branch[b].uid \in Nat /\ d.branch[b].name \in Nat
         /\ \A l \in DOMAIN d.lumg : d.lumg[l].branch \in DOMAIN d.branch /\ d.lumg[l].name \in Nat
         /\ \A e \in DOMAIN d.code : d.code[e] \in DOMAIN d.lumg
         /\ \A c \in DOMAIN d.calc : /\ d.calc[c].lumg \in DOMAIN d.lumg
                                     /\ d.calc[c].address \in Nat /\ d.calc[c].name \in Nat
         /\ \A i \in DOMAIN d.line : d.line[i].calc \in DOMAIN d.calc /\ d.line[i].no \in Nat
         /\ \A i \in DOMAIN d.dpd : /\ d.dpd[i].branch \in DOMAIN d.branch /\ d.dpd[i].name \in Nat
                                    /\ d.dpd[i].lumg \in {Null} \cup DOMAIN d.lumg
                                    /\ d.dpd[i].history \in History
         /\ \A i \in DOMAIN d.ring : /\ d.ring[i].branch \in DOMAIN d.branch /\ d.ring[i].name \in Nat
                                     /\ d.ring[i].members \subseteq DOMAIN d.line \cup DOMAIN d.dpd
         /\ \A i \in DOMAIN d.route : d.route[i].branch \in DOMAIN d.branch /\ d.route[i].number \in Nat
         /\ \A i \in DOMAIN d.member : i \in DOMAIN d.line /\ d.member[i] \in DOMAIN d.route
         /\ \A i \in DOMAIN d.point : /\ d.point[i].branch \in DOMAIN d.branch /\ d.point[i].name \in Nat
                                      /\ d.point[i].line \in {Null} \cup DOMAIN d.line \cup DOMAIN d.dpd
                                      /\ d.point[i].history \in History
<1> USE DEF Sound, Refers
<1>1. \A b \in DOMAIN d.branch : d.branch[b].uid \in Nat /\ d.branch[b].name \in Nat
  OBVIOUS
<1>2. \A l \in DOMAIN d.lumg : d.lumg[l].branch \in DOMAIN d.branch /\ d.lumg[l].name \in Nat
  OBVIOUS
<1>3. \A e \in DOMAIN d.code : d.code[e] \in DOMAIN d.lumg
  OBVIOUS
<1>4. \A c \in DOMAIN d.calc : /\ d.calc[c].lumg \in DOMAIN d.lumg
                               /\ d.calc[c].address \in Nat /\ d.calc[c].name \in Nat
  OBVIOUS
<1>5. \A i \in DOMAIN d.line : d.line[i].calc \in DOMAIN d.calc /\ d.line[i].no \in Nat
  OBVIOUS
<1>6. \A i \in DOMAIN d.dpd : /\ d.dpd[i].branch \in DOMAIN d.branch /\ d.dpd[i].name \in Nat
                              /\ d.dpd[i].lumg \in {Null} \cup DOMAIN d.lumg
                              /\ d.dpd[i].history \in History
  OBVIOUS
<1>7. \A i \in DOMAIN d.ring : /\ d.ring[i].branch \in DOMAIN d.branch /\ d.ring[i].name \in Nat
                               /\ d.ring[i].members \subseteq DOMAIN d.line \cup DOMAIN d.dpd
  OBVIOUS
<1>8. \A i \in DOMAIN d.route : d.route[i].branch \in DOMAIN d.branch /\ d.route[i].number \in Nat
  OBVIOUS
<1>9. \A i \in DOMAIN d.member : i \in DOMAIN d.line /\ d.member[i] \in DOMAIN d.route
  OBVIOUS
<1>10. \A i \in DOMAIN d.point : /\ d.point[i].branch \in DOMAIN d.branch /\ d.point[i].name \in Nat
                                 /\ d.point[i].line \in {Null} \cup DOMAIN d.line \cup DOMAIN d.dpd
                                 /\ d.point[i].history \in History
  OBVIOUS
<1>11. QED
  BY ONLY <1>1, <1>2, <1>3, <1>4, <1>5, <1>6, <1>7, <1>8, <1>9, <1>10

\* What one branch's names tell apart.
LEMMA Apart ==
  ASSUME NEW d, NEW n, Sound(d, n), NEW b
  PROVE  /\ \A k, l \in LumgsOf(d, b) : d.lumg[k].name = d.lumg[l].name => k = l
         /\ \A c, e \in CalcsOf(d, b) : d.lumg[d.calc[c].lumg].name = d.lumg[d.calc[e].lumg].name
                                      /\ d.calc[c].address = d.calc[e].address => c = e
         /\ \A i, j \in LinesOf(d, b) : PhysicalRef(d, i) = PhysicalRef(d, j) => i = j
         /\ \A i, j \in In(d.dpd, b) : d.dpd[i].name = d.dpd[j].name => i = j
         /\ \A i, j \in In(d.ring, b) : d.ring[i].name = d.ring[j].name => i = j
         /\ \A i, j \in In(d.route, b) : d.route[i].number = d.route[j].number => i = j
<1>1. \A k, l \in LumgsOf(d, b) : d.lumg[k].name = d.lumg[l].name => k = l
  BY DEF Sound, Unique, LumgsOf
<1>2. ASSUME NEW c \in CalcsOf(d, b), NEW e \in CalcsOf(d, b),
             d.lumg[d.calc[c].lumg].name = d.lumg[d.calc[e].lumg].name, d.calc[c].address = d.calc[e].address
      PROVE  c = e
  <2>1. d.calc[c].lumg = d.calc[e].lumg
    BY <1>1, <1>2 DEF CalcsOf
  <2>2. QED
    BY <1>2, <2>1 DEF CalcsOf, Sound, Unique
<1>3. ASSUME NEW i \in LinesOf(d, b), NEW j \in LinesOf(d, b), PhysicalRef(d, i) = PhysicalRef(d, j)
      PROVE  i = j
  <2>1. d.line[i].calc = d.line[j].calc /\ d.line[i].no = d.line[j].no
    BY Zenon, <1>2, <1>3 DEF LinesOf, PhysicalRef
  <2>2. d.line[i] \in [calc : DOMAIN d.calc, no : Nat] /\ d.line[j] \in [calc : DOMAIN d.calc, no : Nat]
    BY DEF LinesOf, Sound, Refers
  <2>3. d.line[i] = d.line[j]
    <3>1. d.line[i] = [calc |-> d.line[i].calc, no |-> d.line[i].no]
      BY <2>2
    <3>2. d.line[j] = [calc |-> d.line[j].calc, no |-> d.line[j].no]
      BY <2>2
    <3>3. QED
      BY ONLY <2>1, <3>1, <3>2
  <2>4. QED
    BY <2>3 DEF LinesOf, Sound, Unique
<1>4. \A i, j \in In(d.dpd, b) : d.dpd[i].name = d.dpd[j].name => i = j
  BY DEF Sound, Unique, In
<1>5. \A i, j \in In(d.ring, b) : d.ring[i].name = d.ring[j].name => i = j
  BY DEF Sound, Unique, In
<1>6. ASSUME NEW i \in In(d.route, b), NEW j \in In(d.route, b), d.route[i].number = d.route[j].number
      PROVE  i = j
  <2>1. d.route[i] \in [branch : DOMAIN d.branch, number : Nat] /\ d.route[j] \in [branch : DOMAIN d.branch, number : Nat]
    BY DEF In, Sound, Refers
  <2>2. d.route[i].branch = d.route[j].branch
    BY DEF In
  <2>3. d.route[i] = d.route[j]
    <3>1. d.route[i] = [branch |-> d.route[i].branch, number |-> d.route[i].number]
      BY <2>1
    <3>2. d.route[j] = [branch |-> d.route[j].branch, number |-> d.route[j].number]
      BY <2>1
    <3>3. QED
      BY ONLY <1>6, <2>2, <3>1, <3>2
  <2>4. QED
    BY <2>3 DEF In, Sound, Unique
<1>7. QED
  BY <1>1, <1>2, <1>3, <1>4, <1>5, <1>6

LEMMA LinesAreNotDpd ==
  ASSUME NEW d, NEW n \in Nat, MadeBefore(d, n)
  PROVE  DOMAIN d.line \cap DOMAIN d.dpd = {} /\ Null \notin DOMAIN d.line \cup DOMAIN d.dpd \cup DOMAIN d.lumg
<1>1. 0 .. n - 1 \subseteq Nat
  OBVIOUS
<1>2. /\ DOMAIN d.line \subseteq Nat \X Nat \X Nat \X Nat
      /\ DOMAIN d.dpd \subseteq Nat \X Nat /\ DOMAIN d.lumg \subseteq Nat \X Nat
  <2>1. DOMAIN d.line \subseteq (0 .. n - 1) \X Nat \X Nat \X Nat
    BY DEF MadeBefore
  <2>2. DOMAIN d.dpd \subseteq (0 .. n - 1) \X Nat /\ DOMAIN d.lumg \subseteq (0 .. n - 1) \X Nat
    BY DEF MadeBefore
  <2>3. (0 .. n - 1) \X Nat \X Nat \X Nat \subseteq Nat \X Nat \X Nat \X Nat
    BY <1>1
  <2>4. (0 .. n - 1) \X Nat \subseteq Nat \X Nat
    BY <1>1
  <2>5. QED
    BY <2>1, <2>2, <2>3, <2>4
<1>3. QED
  BY <1>2, NullIsNone, LengthsDiffer

\* The references of a branch's rows are the names of its lines and DPD lines.
LEMMA References ==
  ASSUME NEW d, NEW n \in Nat, Sound(d, n), NEW b
  PROVE  /\ \A i \in LinesOf(d, b) : /\ i \in DOMAIN d.line /\ d.line[i].calc \in CalcsOf(d, b)
                                     /\ Ref(d, b, i) = PhysicalRef(d, i)
                                     /\ PhysicalRef(d, i) \in Nat \X Nat \X Nat
                                     /\ PhysicalRef(d, i)[1] = d.lumg[d.calc[d.line[i].calc].lumg].name
                                     /\ PhysicalRef(d, i)[2] = d.calc[d.line[i].calc].address
                                     /\ PhysicalRef(d, i)[3] = d.line[i].no
         /\ \A i \in In(d.dpd, b) : i \notin LinesOf(d, b) /\ Ref(d, b, i) = <<d.dpd[i].name>>
         /\ \A r : r \notin LinesOf(d, b) /\ r \notin In(d.dpd, b) => Ref(d, b, r) = Null
         /\ \A i \in DOMAIN d.line : i \notin In(d.dpd, b)
         /\ Null \notin LinesOf(d, b) /\ Null \notin In(d.dpd, b)
<1>1. DOMAIN d.line \cap DOMAIN d.dpd = {} /\ Null \notin DOMAIN d.line \cup DOMAIN d.dpd
  BY LinesAreNotDpd DEF Sound
<1>2. LinesOf(d, b) \subseteq DOMAIN d.line /\ In(d.dpd, b) \subseteq DOMAIN d.dpd
  BY DEF LinesOf, In
<1>3. ASSUME NEW i \in LinesOf(d, b)
      PROVE  /\ i \in DOMAIN d.line /\ d.line[i].calc \in CalcsOf(d, b)
             /\ Ref(d, b, i) = PhysicalRef(d, i)
             /\ PhysicalRef(d, i) \in Nat \X Nat \X Nat
             /\ PhysicalRef(d, i)[1] = d.lumg[d.calc[d.line[i].calc].lumg].name
             /\ PhysicalRef(d, i)[2] = d.calc[d.line[i].calc].address
             /\ PhysicalRef(d, i)[3] = d.line[i].no
  <2>1. i \in DOMAIN d.line /\ d.line[i].calc \in CalcsOf(d, b)
    BY DEF LinesOf
  <2>2. Ref(d, b, i) = PhysicalRef(d, i)
    BY DEF Ref
  <2>3. d.line[i].no \in Nat /\ d.line[i].calc \in DOMAIN d.calc
    BY <2>1, Fields
  <2>4. d.calc[d.line[i].calc].address \in Nat /\ d.calc[d.line[i].calc].lumg \in DOMAIN d.lumg
    BY <2>3, Fields
  <2>5. d.lumg[d.calc[d.line[i].calc].lumg].name \in Nat
    BY SMTT(30), <2>4, Fields
  <2>6. PhysicalRef(d, i) = <<d.lumg[d.calc[d.line[i].calc].lumg].name, d.calc[d.line[i].calc].address, d.line[i].no>>
    BY DEF PhysicalRef
  <2>7. PhysicalRef(d, i) \in Nat \X Nat \X Nat
    <3>1. PICK x \in Nat : x = d.lumg[d.calc[d.line[i].calc].lumg].name
      BY SMTT(30), <2>5
    <3>2. PICK y \in Nat : y = d.calc[d.line[i].calc].address
      BY <2>4
    <3>3. PICK z \in Nat : z = d.line[i].no
      BY <2>3
    <3>4. PhysicalRef(d, i) = <<x, y, z>>
      BY Zenon, <2>6, <3>1, <3>2, <3>3
    <3>5. QED
      BY ONLY <3>4
  <2>8. /\ PhysicalRef(d, i)[1] = d.lumg[d.calc[d.line[i].calc].lumg].name
        /\ PhysicalRef(d, i)[2] = d.calc[d.line[i].calc].address
        /\ PhysicalRef(d, i)[3] = d.line[i].no
    BY SMTT(30), <2>6
  <2>9. QED
    BY SMTT(30), <2>1, <2>2, <2>7, <2>8
<1>4. ASSUME NEW i \in In(d.dpd, b) PROVE i \notin LinesOf(d, b) /\ Ref(d, b, i) = <<d.dpd[i].name>>
  BY <1>1, <1>2 DEF Ref
<1>5. \A r : r \notin LinesOf(d, b) /\ r \notin In(d.dpd, b) => Ref(d, b, r) = Null
  BY DEF Ref
<1>6. (\A i \in DOMAIN d.line : i \notin In(d.dpd, b)) /\ Null \notin LinesOf(d, b) /\ Null \notin In(d.dpd, b)
  BY <1>1, <1>2
<1>7. QED
  BY SMTT(30), <1>3, <1>4, <1>5, <1>6

LEMMA MergeStands ==
  ASSUME NEW d, NEW n \in Nat, Sound(d, n), NEW f, FileOK(f), NEW lumgMap,
         NEW choice, choice \in {FromFile, New} \cup DOMAIN d.branch,
         ~Refused(d, f, Branch(d, f, n, choice), choice, lumgMap)
  PROVE  StandsFor(d, n, f, Branch(d, f, n, choice), Stand(d, n, f, Branch(d, f, n, choice), lumgMap))
<1>1. PICK target : target = Target(d, f, choice)
  OBVIOUS
<1>5. PICK bb : bb = Branch(d, f, n, choice)
  OBVIOUS
<1>2. bb = IF target = {} THEN <<n>> ELSE CHOOSE x \in target : TRUE
  BY <1>1, <1>5 DEF Branch
<1>3. /\ (ByUid(d, f) \cup ByName(d, f)) \ target = {}
      /\ ~LumgsRefused(d, f, bb, lumgMap) /\ ~Ambiguous(f.points)
  BY <1>1, <1>5 DEF Refused, TargetRefused
<1>4. (bb \in DOMAIN d.branch \/ bb = <<n>>) /\ ByUid(d, f) \cup ByName(d, f) \subseteq {bb}
  <2>1. \A x, y \in ByUid(d, f) : x = y
    BY DEF Sound, Unique, ByUid
  <2>2. \A x, y \in ByName(d, f) : x = y
    BY DEF Sound, Unique, ByName
  <2>3. ByUid(d, f) \subseteq DOMAIN d.branch /\ ByName(d, f) \subseteq DOMAIN d.branch
    BY DEF ByUid, ByName
  <2>4. \/ target = {}
        \/ target = {choice} /\ choice \in DOMAIN d.branch
        \/ target = ByUid(d, f) \/ target = ByName(d, f)
    <3>1. CASE choice = New
      BY <1>1, <3>1 DEF Target
    <3>2. CASE choice # New /\ choice # FromFile
      <4>1. target = {choice}
        BY <1>1, <3>2 DEF Target
      <4>2. QED
        BY <3>2, <4>1
    <3>3. CASE choice # New /\ choice = FromFile
      <4>1. target = IF ByUid(d, f) # {} THEN ByUid(d, f) ELSE ByName(d, f)
        BY <1>1, <3>3 DEF Target
      <4>2. QED
        BY <4>1
    <3>4. QED
      BY <3>1, <3>2, <3>3
  <2>5. CASE target = {}
    BY <1>2, <1>3, <2>5
  <2>6. CASE target # {}
    <3>1. bb \in target
      BY <1>2, <2>6
    <3>2. target \subseteq DOMAIN d.branch /\ \A x, y \in target : x = y
      BY <2>1, <2>2, <2>3, <2>4
    <3>3. QED
      BY <1>3, <3>1, <3>2
  <2>7. QED
    BY <2>5, <2>6
<1>6. PICK ids : ids = Stand(d, n, f, bb, lumgMap)
  OBVIOUS
<1>7. /\ ids.lumg = [name \in f.lumgs |-> LumgId(d, bb, n, lumgMap, name)]
      /\ ids.calc = [c \in f.calcs |-> CalcId(d, ids.lumg[c[1]], n, c)]
      /\ ids.of = [key \in f.lines |-> ids.calc[CHOOSE c \in f.calcs : c[1] = key[1] /\ c[2] = key[2]]]
      /\ ids.line = [key \in f.lines |-> LineId(d, ids.of[key], n, key)]
  <2>1. ids.lumg = [name \in f.lumgs |-> LumgId(d, bb, n, lumgMap, name)]
    BY <1>6 DEF Stand
  <2>2. ids.calc = [c \in f.calcs |-> CalcId(d, ids.lumg[c[1]], n, c)]
    BY <1>6 DEF Stand
  <2>3. ids.of = [key \in f.lines |-> ids.calc[CHOOSE c \in f.calcs : c[1] = key[1] /\ c[2] = key[2]]]
    BY <1>6 DEF Stand
  <2>4. ids.line = [key \in f.lines |-> LineId(d, ids.of[key], n, key)]
    BY <1>6 DEF Stand
  <2>5. QED
    BY <2>1, <2>2, <2>3, <2>4
<1>19. /\ ids.dpd = [x \in f.dpd |-> RowId(d.dpd, bb, n, x.name)]
       /\ ids.ring = [x \in f.rings |-> RowId(d.ring, bb, n, x.name)]
       /\ ids.route = [x \in f.routes |-> RouteId(d, bb, n, x.number)]
       /\ ids.point = [k \in DOMAIN f.points |-> PointId(d, f, bb, n, k)]
  BY <1>6 DEF Stand
<1>8. ~LumgsRefused(d, f, bb, lumgMap)
  BY <1>3
<1>9. LumgsStand(d, n, f, bb, ids)
  BY <1>7, <1>8, LumgsFound
<1>10. CalcsStand(d, n, f, ids)
  BY <1>7, <1>9, CalcsFound
<1>11. LinesStand(d, n, f, ids)
  BY Zenon, <1>7, <1>10, LinesFound
<1>12. NamedStand(d.dpd, n, bb, f.dpd, ids.dpd)
  <2>1. /\ \A i, j \in DOMAIN d.dpd : d.dpd[i].branch = d.dpd[j].branch /\ d.dpd[i].name = d.dpd[j].name => i = j
        /\ \A x, y \in f.dpd : x.name = y.name => x = y
        /\ \A x : <<n, x>> \notin DOMAIN d.dpd
    BY Zenon, NewIsNew DEF Sound, Unique, FileOK
  <2>2. QED
    BY <1>19, <2>1, NamedFound
<1>13. NamedStand(d.ring, n, bb, f.rings, ids.ring)
  <2>1. /\ \A i, j \in DOMAIN d.ring : d.ring[i].branch = d.ring[j].branch /\ d.ring[i].name = d.ring[j].name => i = j
        /\ \A x, y \in f.rings : x.name = y.name => x = y
        /\ \A x : <<n, x>> \notin DOMAIN d.ring
    BY Zenon, NewIsNew DEF Sound, Unique, FileOK
  <2>2. QED
    BY <1>19, <2>1, NamedFound
<1>14. RoutesStand(d, n, f, bb, ids)
  BY <1>19, RoutesFound
<1>15. PointsStand(d, n, f, bb, ids)
  BY <1>3, <1>19, PointsFound
<1>16. RowsStand(f, ids)
  BY <1>6, <1>11, RowsFound DEF LinesStand
<1>17. StandsFor(d, n, f, bb, ids)
  BY <1>4, <1>9, <1>10, <1>11, <1>12, <1>13, <1>14, <1>15, <1>16 DEF StandsFor
<1>18. QED
  BY <1>5, <1>6, <1>17

\* An export names every row of the branch, and refers to names of the same file.
LEMMA ExportIsAFile ==
  ASSUME NEW d, NEW n \in Nat, Sound(d, n), NEW b \in DOMAIN d.branch
  PROVE  FileOK(Export(d, b))
<1>1. PICK f : f = Export(d, b)
  OBVIOUS
<1>2. /\ f.uid = d.branch[b].uid /\ f.name = d.branch[b].name
      /\ f.lumgs = {d.lumg[l].name : l \in LumgsOf(d, b)}
      /\ f.codes = CodesOf(d, b)
      /\ f.calcs = {CalcKey(d, c) : c \in CalcsOf(d, b)}
      /\ f.lines = {PhysicalRef(d, i) : i \in LinesOf(d, b)}
      /\ f.dpd = {DpdLine(d, b, i) : i \in In(d.dpd, b)}
      /\ f.rings = {Ring(d, b, i) : i \in In(d.ring, b)}
      /\ f.routes = {Route(d, b, i) : i \in In(d.route, b)}
      /\ f.points = [i \in In(d.point, b) |-> Point(d, b, i)]
  BY <1>1 DEF Export
<1>3. f.uid \in Nat /\ f.name \in Nat
  BY <1>2, Fields
<1>4. f.lumgs \subseteq Nat
  BY <1>2, Fields DEF LumgsOf
<1>5. \A x \in f.codes : x[1] \in f.lumgs
  BY <1>2 DEF CodesOf
<1>6. ASSUME NEW c \in CalcsOf(d, b)
      PROVE  /\ CalcKey(d, c)[1] = d.lumg[d.calc[c].lumg].name /\ CalcKey(d, c)[2] = d.calc[c].address
             /\ CalcKey(d, c) \in f.lumgs \X Nat \X Nat
             /\ d.lumg[d.calc[c].lumg].name \in f.lumgs
  <2>1. c \in DOMAIN d.calc /\ d.calc[c].lumg \in LumgsOf(d, b)
    BY DEF CalcsOf
  <2>2. d.calc[c].address \in Nat /\ d.calc[c].name \in Nat
    BY <2>1, Fields
  <2>3. d.lumg[d.calc[c].lumg].name \in f.lumgs
    BY <1>2, <2>1
  <2>4. CalcKey(d, c) = <<d.lumg[d.calc[c].lumg].name, d.calc[c].address, d.calc[c].name>>
    BY DEF CalcKey
  <2>5. QED
    BY <2>2, <2>3, <2>4
<1>7. f.calcs \subseteq f.lumgs \X Nat \X Nat
  BY <1>2, <1>6
<1>8. ASSUME NEW i \in LinesOf(d, b)
      PROVE  /\ PhysicalRef(d, i) \in f.lumgs \X Nat \X Nat
             /\ \E c \in f.calcs : c[1] = PhysicalRef(d, i)[1] /\ c[2] = PhysicalRef(d, i)[2]
  <2>1. /\ d.line[i].calc \in CalcsOf(d, b)
        /\ PhysicalRef(d, i) \in Nat \X Nat \X Nat
        /\ PhysicalRef(d, i)[1] = d.lumg[d.calc[d.line[i].calc].lumg].name
        /\ PhysicalRef(d, i)[2] = d.calc[d.line[i].calc].address
    BY SMTT(30), References
  <2>2. CalcKey(d, d.line[i].calc) \in f.calcs
    BY SMTT(30), <1>2, <2>1
  <2>3. PhysicalRef(d, i)[1] \in f.lumgs
    BY Zenon, <1>6, <2>1
  <2>4. PhysicalRef(d, i) \in f.lumgs \X Nat \X Nat
    BY ONLY SMTT(30), <2>1, <2>3
  <2>5. QED
    BY Zenon, <1>6, <2>1, <2>2, <2>4
<1>9. f.lines \subseteq f.lumgs \X Nat \X Nat /\ \A x \in f.lines : \E c \in f.calcs : c[1] = x[1] /\ c[2] = x[2]
  BY <1>2, <1>8
<1>10. ASSUME NEW x \in f.calcs, NEW y \in f.calcs, x[1] = y[1], x[2] = y[2] PROVE x = y
  <2>1. PICK c \in CalcsOf(d, b), e \in CalcsOf(d, b) : x = CalcKey(d, c) /\ y = CalcKey(d, e)
    BY <1>2
  <2>2. /\ d.lumg[d.calc[c].lumg].name = d.lumg[d.calc[e].lumg].name
        /\ d.calc[c].address = d.calc[e].address
    BY <1>6, <1>10, <2>1
  <2>3. c = e
    BY SMTT(30), <2>2, Apart
  <2>4. QED
    BY <2>1, <2>3
<1>11. ASSUME NEW i \in In(d.dpd, b)
       PROVE  /\ DpdLine(d, b, i) \in [name : Nat, lumg : {Null} \cup f.lumgs, history : History]
              /\ DpdLine(d, b, i).name = d.dpd[i].name
  <2>1. d.dpd[i].name \in Nat /\ d.dpd[i].history \in History
    BY Fields DEF In
  <2>2. LumgName(d, b, d.dpd[i].lumg) \in {Null} \cup f.lumgs
    BY <1>2 DEF LumgName
  <2>3. QED
    BY <2>1, <2>2 DEF DpdLine
<1>12. f.dpd \subseteq [name : Nat, lumg : {Null} \cup f.lumgs, history : History]
  BY <1>2, <1>11
<1>13. ASSUME NEW x \in f.dpd, NEW y \in f.dpd, x.name = y.name PROVE x = y
  <2>1. PICK i \in In(d.dpd, b), j \in In(d.dpd, b) : x = DpdLine(d, b, i) /\ y = DpdLine(d, b, j)
    BY <1>2
  <2>2. d.dpd[i].name = d.dpd[j].name
    BY <1>11, <1>13, <2>1
  <2>3. i = j
    BY <2>2, Apart
  <2>4. QED
    BY <2>1, <2>3
<1>14. \A i \in In(d.dpd, b) : <<d.dpd[i].name>> \in DpdRefs(f)
  <2>1. ASSUME NEW i \in In(d.dpd, b) PROVE <<d.dpd[i].name>> \in DpdRefs(f)
    <3>1. DpdLine(d, b, i) \in f.dpd /\ DpdLine(d, b, i).name = d.dpd[i].name
      BY <1>2, <1>11
    <3>2. QED
      BY <3>1 DEF DpdRefs
  <2>2. QED
    BY <2>1
<1>15. \A r : Ref(d, b, r) \in {Null} \cup f.lines \cup DpdRefs(f)
  <2>1. ASSUME NEW r PROVE Ref(d, b, r) \in {Null} \cup f.lines \cup DpdRefs(f)
    <3>1. CASE r \in LinesOf(d, b)
      <4>1. Ref(d, b, r) = PhysicalRef(d, r)
        BY SMTT(30), <3>1, References
      <4>2. QED
        BY <1>2, <3>1, <4>1
    <3>2. CASE r \in In(d.dpd, b)
      <4>1. Ref(d, b, r) = <<d.dpd[r].name>>
        BY SMTT(30), <3>2, References
      <4>2. QED
        BY <1>14, <3>2, <4>1
    <3>3. CASE r \notin LinesOf(d, b) /\ r \notin In(d.dpd, b)
      <4>1. Ref(d, b, r) = Null
        BY SMTT(30), <3>3, References
      <4>2. QED
        BY <4>1
    <3>4. QED
      BY <3>1, <3>2, <3>3
  <2>2. QED
    BY <2>1
<1>16. ASSUME NEW i \in In(d.ring, b)
       PROVE  /\ Ring(d, b, i) \in [name : Nat, members : SUBSET (f.lines \cup DpdRefs(f))]
              /\ Ring(d, b, i).name = d.ring[i].name
  <2>1. d.ring[i].name \in Nat
    BY Fields DEF In
  <2>2. Refs(d, b, d.ring[i].members) \subseteq f.lines \cup DpdRefs(f)
    BY <1>15 DEF Refs
  <2>3. QED
    BY <2>1, <2>2 DEF Ring
<1>17. f.rings \subseteq [name : Nat, members : SUBSET (f.lines \cup DpdRefs(f))]
  BY <1>2, <1>16
<1>18. ASSUME NEW x \in f.rings, NEW y \in f.rings, x.name = y.name PROVE x = y
  <2>1. PICK i \in In(d.ring, b), j \in In(d.ring, b) : x = Ring(d, b, i) /\ y = Ring(d, b, j)
    BY <1>2
  <2>2. d.ring[i].name = d.ring[j].name
    BY <1>16, <1>18, <2>1
  <2>3. i = j
    BY Zenon, <2>2, Apart
  <2>4. QED
    BY <2>1, <2>3
<1>19. ASSUME NEW i \in In(d.route, b)
       PROVE  /\ Route(d, b, i) \in [number : Nat, members : SUBSET f.lines]
              /\ Route(d, b, i).number = d.route[i].number
              /\ \A r \in Route(d, b, i).members :
                   \E m \in LinesOf(d, b) : m \in DOMAIN d.member /\ d.member[m] = i /\ r = PhysicalRef(d, m)
  <2> DEFINE on == {m \in DOMAIN d.member : d.member[m] = i}
  <2>1. d.route[i].number \in Nat
    BY Fields DEF In
  <2>2. ASSUME NEW r \in Refs(d, b, on)
        PROVE  \E m \in LinesOf(d, b) : m \in DOMAIN d.member /\ d.member[m] = i /\ r = PhysicalRef(d, m)
    <3>1. PICK m \in on : r = Ref(d, b, m) /\ r # Null
      BY DEF Refs
    <3>2. m \notin In(d.dpd, b)
      BY Zenon, Fields, References
    <3>3. m \in LinesOf(d, b) /\ r = PhysicalRef(d, m)
      BY <3>1, <3>2 DEF Ref
    <3>4. QED
      BY <3>3
  <2>3. Refs(d, b, on) \subseteq f.lines
    BY <1>2, <2>2
  <2>4. Route(d, b, i) = [number |-> d.route[i].number, members |-> Refs(d, b, on)]
    BY DEF Route
  <2> HIDE DEF on
  <2>5. QED
    BY <2>1, <2>2, <2>3, <2>4
<1>20. f.routes \subseteq [number : Nat, members : SUBSET f.lines]
  BY <1>2, <1>19
<1>21. ASSUME NEW x \in f.routes, NEW y \in f.routes, x.number = y.number \/ x.members \cap y.members # {} PROVE x = y
  <2>1. PICK i \in In(d.route, b), j \in In(d.route, b) : x = Route(d, b, i) /\ y = Route(d, b, j)
    BY <1>2
  <2>2. CASE x.number = y.number
    <3>1. d.route[i].number = d.route[j].number
      BY <1>19, <2>1, <2>2
    <3>2. i = j
      BY <3>1, Apart
    <3>3. QED
      BY <2>1, <3>2
  <2>3. CASE x.members \cap y.members # {}
    <3>1. PICK r : r \in x.members /\ r \in y.members
      BY <2>3
    <3>2. PICK m \in LinesOf(d, b) : d.member[m] = i /\ r = PhysicalRef(d, m)
      BY <1>19, <2>1, <3>1
    <3>3. PICK o \in LinesOf(d, b) : d.member[o] = j /\ r = PhysicalRef(d, o)
      BY <1>19, <2>1, <3>1
    <3>4. m = o
      BY Zenon, <3>2, <3>3, Apart
    <3>5. QED
      BY <2>1, <3>2, <3>3, <3>4
  <2>4. QED
    BY <1>21, <2>2, <2>3
<1>22. /\ DOMAIN f.points = In(d.point, b)
       /\ f.points \in [DOMAIN f.points -> [name : Nat, ref : {Null} \cup f.lines \cup DpdRefs(f), history : History]]
  <2>1. ASSUME NEW i \in In(d.point, b)
        PROVE  Point(d, b, i) \in [name : Nat, ref : {Null} \cup f.lines \cup DpdRefs(f), history : History]
    <3>1. d.point[i].name \in Nat /\ d.point[i].history \in History
      BY Fields DEF In
    <3>2. QED
      BY <1>15, <3>1 DEF Point
  <2>2. QED
    BY <1>2, <2>1
<1>23. IsFiniteSet(DOMAIN f.points)
  <2>1. IsFiniteSet(DOMAIN d.point) /\ In(d.point, b) \subseteq DOMAIN d.point
    BY DEF Sound, Refers, In
  <2>2. QED
    BY <1>22, <2>1, FS_Subset
<1>24. FileOK(f)
  BY <1>3, <1>4, <1>5, <1>7, <1>9, <1>10, <1>12, <1>13, <1>17, <1>18, <1>20, <1>21, <1>22, <1>23 DEF FileOK
<1>25. QED
  BY <1>1, <1>24

(* ---- What an import writes ---- *)

Lines(f, ids) == {ids.row[r] : r \in UNION {x.members : x \in f.routes}}

\* The tables after an import, row by row.
Written(d, f, b, ids, e) ==
  /\ e = [branch |-> e.branch, lumg |-> e.lumg, code |-> e.code, calc |-> e.calc, line |-> e.line,
          dpd |-> e.dpd, ring |-> e.ring, route |-> e.route, member |-> e.member, point |-> e.point]
  /\ e.branch = [x \in DOMAIN e.branch |-> e.branch[x]]
  /\ e.code = [x \in DOMAIN e.code |-> e.code[x]]
  /\ e.member = [x \in DOMAIN e.member |-> e.member[x]]
  /\ DOMAIN e.branch = DOMAIN d.branch \cup {b}
  /\ e.branch[b] = [uid |-> f.uid, name |-> f.name]
  /\ \A x \in DOMAIN d.branch \ {b} : e.branch[x] = d.branch[x]
  /\ Laid(e.lumg, d.lumg, ids.lumg, [x \in f.lumgs |-> [branch |-> b, name |-> x]])
  /\ Laid(e.calc, d.calc, ids.calc, [c \in f.calcs |-> [lumg |-> ids.lumg[c[1]], address |-> c[2], name |-> c[3]]])
  /\ Laid(e.line, d.line, ids.line, [x \in f.lines |-> [calc |-> ids.of[x], no |-> x[3]]])
  /\ Laid(e.dpd, d.dpd, ids.dpd, [x \in f.dpd |->
        [branch |-> b, name |-> x.name, lumg |-> NamedLumg(ids, x.lumg),
         history |-> Over(x.history, HistoryOf(d.dpd, ids.dpd[x]))]])
  /\ Laid(e.ring, d.ring, ids.ring, [x \in f.rings |->
        [branch |-> b, name |-> x.name,
         members |-> {ids.row[r] : r \in x.members} \cup MembersOf(d.ring, ids.ring[x])]])
  /\ Laid(e.route, d.route, ids.route, [x \in f.routes |-> [branch |-> b, number |-> x.number]])
  /\ Laid(e.point, d.point, ids.point, [k \in DOMAIN f.points |->
        [branch |-> b, name |-> f.points[k].name, line |-> ids.row[f.points[k].ref],
         history |-> Over(f.points[k].history, HistoryOf(d.point, ids.point[k]))]])
  /\ DOMAIN e.code = DOMAIN d.code \cup {x[2] : x \in f.codes}
  /\ \A x \in DOMAIN d.code : e.code[x] = d.code[x]
  /\ \A x \in DOMAIN e.code \ DOMAIN d.code : \E y \in f.codes : y[2] = x /\ e.code[x] = ids.lumg[y[1]]
  /\ DOMAIN e.member = DOMAIN d.member \cup Lines(f, ids)
  /\ \A i \in Lines(f, ids) : \E x \in f.routes : (\E r \in x.members : ids.row[r] = i) /\ e.member[i] = ids.route[x]
  /\ \A i \in DOMAIN d.member \ Lines(f, ids) : e.member[i] = d.member[i]

LEMMA WriteIs ==
  ASSUME NEW d, NEW n, NEW f, NEW b, NEW ids, StandsFor(d, n, f, b, ids), NEW e, e = Write(d, f, b, ids)
  PROVE  Written(d, f, b, ids, e)
<1> USE DEF StandsFor
<1>1. e = [branch |-> e.branch, lumg |-> e.lumg, code |-> e.code, calc |-> e.calc, line |-> e.line,
           dpd |-> e.dpd, ring |-> e.ring, route |-> e.route, member |-> e.member, point |-> e.point]
  BY DEF Write
<1>2. /\ e.branch = Over(One(b, [uid |-> f.uid, name |-> f.name]), d.branch)
      /\ e.lumg = LumgRows(d, f, b, ids) /\ e.code = CodeRows(d, f, ids) /\ e.calc = CalcRows(d, f, ids)
      /\ e.line = LineRows(d, f, ids) /\ e.dpd = DpdRows(d, f, b, ids) /\ e.ring = RingRows(d, f, b, ids)
      /\ e.route = RouteRows(d, f, b, ids) /\ e.member = MemberRows(d, f, ids) /\ e.point = PointRows(d, f, b, ids)
  BY DEF Write
<1>3. /\ DOMAIN e.branch = DOMAIN d.branch \cup {b}
      /\ e.branch[b] = [uid |-> f.uid, name |-> f.name]
      /\ \A x \in DOMAIN d.branch \ {b} : e.branch[x] = d.branch[x]
  BY <1>2 DEF Over, One
<1>4. Laid(e.lumg, d.lumg, ids.lumg, [x \in f.lumgs |-> [branch |-> b, name |-> x]])
  BY <1>2, LaidOut DEF LumgsStand, LumgRows
<1>5. Laid(e.calc, d.calc, ids.calc, [c \in f.calcs |-> [lumg |-> ids.lumg[c[1]], address |-> c[2], name |-> c[3]]])
  BY <1>2, LaidOut DEF CalcsStand, CalcRows
<1>6. Laid(e.line, d.line, ids.line, [x \in f.lines |-> [calc |-> ids.of[x], no |-> x[3]]])
  BY <1>2, LaidOut DEF LinesStand, LineRows
<1>7. Laid(e.dpd, d.dpd, ids.dpd, [x \in f.dpd |->
        [branch |-> b, name |-> x.name, lumg |-> NamedLumg(ids, x.lumg),
         history |-> Over(x.history, HistoryOf(d.dpd, ids.dpd[x]))]])
  BY <1>2, LaidOut DEF NamedStand, DpdRows
<1>8. Laid(e.ring, d.ring, ids.ring, [x \in f.rings |->
        [branch |-> b, name |-> x.name,
         members |-> {ids.row[r] : r \in x.members} \cup MembersOf(d.ring, ids.ring[x])]])
  BY <1>2, LaidOut DEF NamedStand, RingRows
<1>9. Laid(e.route, d.route, ids.route, [x \in f.routes |-> [branch |-> b, number |-> x.number]])
  BY <1>2, LaidOut DEF RoutesStand, RouteRows
<1>10. Laid(e.point, d.point, ids.point, [k \in DOMAIN f.points |->
        [branch |-> b, name |-> f.points[k].name, line |-> ids.row[f.points[k].ref],
         history |-> Over(f.points[k].history, HistoryOf(d.point, ids.point[k]))]])
  BY <1>2, LaidOut DEF PointsStand, PointRows
<1>11. /\ DOMAIN e.code = DOMAIN d.code \cup {x[2] : x \in f.codes}
       /\ \A x \in DOMAIN d.code : e.code[x] = d.code[x]
       /\ \A x \in DOMAIN e.code \ DOMAIN d.code : \E y \in f.codes : y[2] = x /\ e.code[x] = ids.lumg[y[1]]
  <2>1. PICK new : new = [x \in {y[2] : y \in f.codes} |-> ids.lumg[(CHOOSE y \in f.codes : y[2] = x)[1]]]
    BY Zenon
  <2>2. e.code = Over(d.code, new)
    BY <1>2, <2>1 DEF CodeRows
  <2>3. DOMAIN new = {y[2] : y \in f.codes}
    BY <2>1
  <2>4. ASSUME NEW x \in DOMAIN new PROVE \E y \in f.codes : y[2] = x /\ new[x] = ids.lumg[y[1]]
    <3>1. PICK y : y = CHOOSE z \in f.codes : z[2] = x
      OBVIOUS
    <3>2. y \in f.codes /\ y[2] = x
      BY <2>3, <3>1
    <3>3. new[x] = ids.lumg[y[1]]
      BY <2>1, <2>3, <3>1
    <3>4. QED
      BY <3>2, <3>3
  <2>5. /\ DOMAIN Over(d.code, new) = DOMAIN d.code \cup DOMAIN new
        /\ \A x \in DOMAIN d.code : Over(d.code, new)[x] = d.code[x]
        /\ \A x \in DOMAIN new \ DOMAIN d.code : Over(d.code, new)[x] = new[x]
    BY ONLY Zenon, OverIs
  <2>6. QED
    BY <2>2, <2>3, <2>4, <2>5
<1>12. /\ DOMAIN e.member = DOMAIN d.member \cup Lines(f, ids)
       /\ \A i \in Lines(f, ids) : \E x \in f.routes : (\E r \in x.members : ids.row[r] = i) /\ e.member[i] = ids.route[x]
       /\ \A i \in DOMAIN d.member \ Lines(f, ids) : e.member[i] = d.member[i]
  <2>1. PICK new : new = [i \in Lines(f, ids) |-> ids.route[CHOOSE x \in f.routes : \E r \in x.members : ids.row[r] = i]]
    BY Zenon
  <2>2. e.member = Over(new, d.member)
    BY <1>2, <2>1 DEF MemberRows, Lines
  <2>3. DOMAIN new = Lines(f, ids)
    BY <2>1
  <2>4. ASSUME NEW i \in Lines(f, ids)
        PROVE  \E x \in f.routes : (\E r \in x.members : ids.row[r] = i) /\ new[i] = ids.route[x]
    <3>1. PICK x : x = CHOOSE z \in f.routes : \E r \in z.members : ids.row[r] = i
      OBVIOUS
    <3>2. \E z \in f.routes : \E r \in z.members : ids.row[r] = i
      BY DEF Lines
    <3>3. x \in f.routes /\ \E r \in x.members : ids.row[r] = i
      BY Zenon, <3>1, <3>2
    <3>4. new[i] = ids.route[x]
      BY <2>1, <3>1
    <3>5. QED
      BY <3>3, <3>4
  <2>5. /\ DOMAIN Over(new, d.member) = DOMAIN new \cup DOMAIN d.member
        /\ \A x \in DOMAIN new : Over(new, d.member)[x] = new[x]
        /\ \A x \in DOMAIN d.member \ DOMAIN new : Over(new, d.member)[x] = d.member[x]
    BY ONLY Zenon, OverIs
  <2>6. QED
    BY <2>2, <2>3, <2>4, <2>5
<1>14. e.branch = [x \in DOMAIN e.branch |-> e.branch[x]]
  BY <1>2 DEF Over
<1>15. e.code = [x \in DOMAIN e.code |-> e.code[x]]
  BY SMTT(30), <1>2 DEF Over, CodeRows
<1>16. e.member = [x \in DOMAIN e.member |-> e.member[x]]
  BY <1>2 DEF Over, MemberRows
<1>13. QED
  BY SMTT(30), <1>1, <1>3, <1>4, <1>5, <1>6, <1>7, <1>8, <1>9, <1>10, <1>11, <1>12, <1>14, <1>15, <1>16 DEF Written

\* The row of each name, as the import writes it.
FileRows(d, f, b, ids, e) ==
  /\ \A x \in f.lumgs : /\ e.lumg[ids.lumg[x]] = [branch |-> b, name |-> x]
                        /\ ids.lumg[x] \in DOMAIN e.lumg
                        /\ e.lumg[ids.lumg[x]].branch = b /\ e.lumg[ids.lumg[x]].name = x
  /\ \A c \in f.calcs : /\ e.calc[ids.calc[c]] = [lumg |-> ids.lumg[c[1]], address |-> c[2], name |-> c[3]]
                        /\ ids.calc[c] \in DOMAIN e.calc
                        /\ e.calc[ids.calc[c]].lumg = ids.lumg[c[1]]
                        /\ e.calc[ids.calc[c]].address = c[2] /\ e.calc[ids.calc[c]].name = c[3]
  /\ \A x \in f.lines : /\ e.line[ids.line[x]] = [calc |-> ids.of[x], no |-> x[3]]
                        /\ ids.line[x] \in DOMAIN e.line
                        /\ e.line[ids.line[x]].calc = ids.of[x] /\ e.line[ids.line[x]].no = x[3]
  /\ \A x \in f.dpd : /\ e.dpd[ids.dpd[x]] = [branch |-> b, name |-> x.name, lumg |-> NamedLumg(ids, x.lumg),
                                              history |-> Over(x.history, HistoryOf(d.dpd, ids.dpd[x]))]
                      /\ ids.dpd[x] \in DOMAIN e.dpd
                      /\ e.dpd[ids.dpd[x]].branch = b /\ e.dpd[ids.dpd[x]].name = x.name
                      /\ e.dpd[ids.dpd[x]].lumg = NamedLumg(ids, x.lumg)
                      /\ e.dpd[ids.dpd[x]].history = Over(x.history, HistoryOf(d.dpd, ids.dpd[x]))
  /\ \A x \in f.rings : /\ e.ring[ids.ring[x]] = [branch |-> b, name |-> x.name,
                                                  members |-> {ids.row[r] : r \in x.members} \cup MembersOf(d.ring, ids.ring[x])]
                        /\ ids.ring[x] \in DOMAIN e.ring
                        /\ e.ring[ids.ring[x]].branch = b /\ e.ring[ids.ring[x]].name = x.name
                        /\ e.ring[ids.ring[x]].members =
                             {ids.row[r] : r \in x.members} \cup MembersOf(d.ring, ids.ring[x])
  /\ \A x \in f.routes : /\ e.route[ids.route[x]] = [branch |-> b, number |-> x.number]
                         /\ ids.route[x] \in DOMAIN e.route
                         /\ e.route[ids.route[x]].branch = b /\ e.route[ids.route[x]].number = x.number
  /\ \A k \in DOMAIN f.points :
       /\ e.point[ids.point[k]] = [branch |-> b, name |-> f.points[k].name, line |-> ids.row[f.points[k].ref],
                                   history |-> Over(f.points[k].history, HistoryOf(d.point, ids.point[k]))]
       /\ ids.point[k] \in DOMAIN e.point
       /\ e.point[ids.point[k]].branch = b /\ e.point[ids.point[k]].name = f.points[k].name
       /\ e.point[ids.point[k]].line = ids.row[f.points[k].ref]
       /\ e.point[ids.point[k]].history = Over(f.points[k].history, HistoryOf(d.point, ids.point[k]))

LEMMA FileRowsAre ==
  ASSUME NEW d, NEW n, NEW f, FileOK(f), NEW b, NEW ids, StandsFor(d, n, f, b, ids), NEW e, Written(d, f, b, ids, e)
  PROVE  FileRows(d, f, b, ids, e)
<1>1. /\ DOMAIN ids.lumg = f.lumgs /\ DOMAIN ids.calc = f.calcs /\ DOMAIN ids.line = f.lines
      /\ DOMAIN ids.dpd = f.dpd /\ DOMAIN ids.ring = f.rings /\ DOMAIN ids.route = f.routes
      /\ DOMAIN ids.point = DOMAIN f.points
  BY DEF StandsFor, LumgsStand, CalcsStand, LinesStand, NamedStand, RoutesStand, PointsStand
<1>2. ASSUME NEW x \in f.lumgs
      PROVE  /\ e.lumg[ids.lumg[x]] = [branch |-> b, name |-> x]
             /\ ids.lumg[x] \in DOMAIN e.lumg /\ e.lumg[ids.lumg[x]].branch = b /\ e.lumg[ids.lumg[x]].name = x
  <2>1. PICK rows : rows = [y \in f.lumgs |-> [branch |-> b, name |-> y]]
    BY Zenon
  <2>2. Laid(e.lumg, d.lumg, ids.lumg, rows)
    BY <2>1 DEF Written
  <2>3. ids.lumg[x] \in Range(ids.lumg)
    BY <1>1 DEF Range
  <2>4. ids.lumg[x] \in DOMAIN e.lumg /\ e.lumg[ids.lumg[x]] = rows[x]
    BY <1>1, <2>2, <2>3 DEF Laid
  <2>5. rows[x] = [branch |-> b, name |-> x]
    BY <2>1
  <2>6. QED
    BY <2>4, <2>5
<1>3. ASSUME NEW c \in f.calcs
      PROVE  /\ e.calc[ids.calc[c]] = [lumg |-> ids.lumg[c[1]], address |-> c[2], name |-> c[3]]
             /\ ids.calc[c] \in DOMAIN e.calc
             /\ e.calc[ids.calc[c]].lumg = ids.lumg[c[1]]
             /\ e.calc[ids.calc[c]].address = c[2] /\ e.calc[ids.calc[c]].name = c[3]
  <2>1. PICK rows : rows = [k \in f.calcs |-> [lumg |-> ids.lumg[k[1]], address |-> k[2], name |-> k[3]]]
    BY Zenon
  <2>2. Laid(e.calc, d.calc, ids.calc, rows)
    BY <2>1 DEF Written
  <2>3. ids.calc[c] \in Range(ids.calc)
    BY <1>1 DEF Range
  <2>4. ids.calc[c] \in DOMAIN e.calc /\ e.calc[ids.calc[c]] = rows[c]
    BY <1>1, <2>2, <2>3 DEF Laid
  <2>5. rows[c] = [lumg |-> ids.lumg[c[1]], address |-> c[2], name |-> c[3]]
    BY <2>1
  <2>6. QED
    BY <2>4, <2>5
<1>4. ASSUME NEW x \in f.lines
      PROVE  /\ e.line[ids.line[x]] = [calc |-> ids.of[x], no |-> x[3]]
             /\ ids.line[x] \in DOMAIN e.line
             /\ e.line[ids.line[x]].calc = ids.of[x] /\ e.line[ids.line[x]].no = x[3]
  <2>1. PICK rows : rows = [y \in f.lines |-> [calc |-> ids.of[y], no |-> y[3]]]
    BY Zenon
  <2>2. Laid(e.line, d.line, ids.line, rows)
    BY <2>1 DEF Written
  <2>3. ids.line[x] \in Range(ids.line)
    BY <1>1 DEF Range
  <2>4. ids.line[x] \in DOMAIN e.line /\ e.line[ids.line[x]] = rows[x]
    BY <1>1, <2>2, <2>3 DEF Laid
  <2>5. rows[x] = [calc |-> ids.of[x], no |-> x[3]]
    BY <2>1
  <2>6. QED
    BY <2>4, <2>5
<1>5. ASSUME NEW x \in f.dpd
      PROVE  /\ e.dpd[ids.dpd[x]] = [branch |-> b, name |-> x.name, lumg |-> NamedLumg(ids, x.lumg),
                                     history |-> Over(x.history, HistoryOf(d.dpd, ids.dpd[x]))]
             /\ ids.dpd[x] \in DOMAIN e.dpd
             /\ e.dpd[ids.dpd[x]].branch = b /\ e.dpd[ids.dpd[x]].name = x.name
             /\ e.dpd[ids.dpd[x]].lumg = NamedLumg(ids, x.lumg)
             /\ e.dpd[ids.dpd[x]].history = Over(x.history, HistoryOf(d.dpd, ids.dpd[x]))
  <2>1. PICK rows : rows = [y \in f.dpd |->
          [branch |-> b, name |-> y.name, lumg |-> NamedLumg(ids, y.lumg),
           history |-> Over(y.history, HistoryOf(d.dpd, ids.dpd[y]))]]
    BY Zenon
  <2>2. Laid(e.dpd, d.dpd, ids.dpd, rows)
    BY <2>1 DEF Written
  <2>3. ids.dpd[x] \in Range(ids.dpd)
    BY <1>1 DEF Range
  <2>4. ids.dpd[x] \in DOMAIN e.dpd /\ e.dpd[ids.dpd[x]] = rows[x]
    BY <1>1, <2>2, <2>3 DEF Laid
  <2>5. rows[x] = [branch |-> b, name |-> x.name, lumg |-> NamedLumg(ids, x.lumg),
           history |-> Over(x.history, HistoryOf(d.dpd, ids.dpd[x]))]
    BY <2>1
  <2>6. QED
    BY <2>4, <2>5
<1>6. ASSUME NEW x \in f.rings
      PROVE  /\ e.ring[ids.ring[x]] = [branch |-> b, name |-> x.name,
                                       members |-> {ids.row[r] : r \in x.members} \cup MembersOf(d.ring, ids.ring[x])]
             /\ ids.ring[x] \in DOMAIN e.ring
             /\ e.ring[ids.ring[x]].branch = b /\ e.ring[ids.ring[x]].name = x.name
             /\ e.ring[ids.ring[x]].members = {ids.row[r] : r \in x.members} \cup MembersOf(d.ring, ids.ring[x])
  <2>1. PICK rows : rows = [y \in f.rings |->
          [branch |-> b, name |-> y.name,
           members |-> {ids.row[r] : r \in y.members} \cup MembersOf(d.ring, ids.ring[y])]]
    BY Zenon
  <2>2. Laid(e.ring, d.ring, ids.ring, rows)
    BY <2>1 DEF Written
  <2>3. ids.ring[x] \in Range(ids.ring)
    BY <1>1 DEF Range
  <2>4. ids.ring[x] \in DOMAIN e.ring /\ e.ring[ids.ring[x]] = rows[x]
    BY <1>1, <2>2, <2>3 DEF Laid
  <2>5. rows[x] = [branch |-> b, name |-> x.name,
           members |-> {ids.row[r] : r \in x.members} \cup MembersOf(d.ring, ids.ring[x])]
    BY <2>1
  <2>6. QED
    BY <2>4, <2>5
<1>7. ASSUME NEW x \in f.routes
      PROVE  /\ e.route[ids.route[x]] = [branch |-> b, number |-> x.number]
             /\ ids.route[x] \in DOMAIN e.route
             /\ e.route[ids.route[x]].branch = b /\ e.route[ids.route[x]].number = x.number
  <2>1. PICK rows : rows = [y \in f.routes |-> [branch |-> b, number |-> y.number]]
    BY Zenon
  <2>2. Laid(e.route, d.route, ids.route, rows)
    BY <2>1 DEF Written
  <2>3. ids.route[x] \in Range(ids.route)
    BY <1>1 DEF Range
  <2>4. ids.route[x] \in DOMAIN e.route /\ e.route[ids.route[x]] = rows[x]
    BY <1>1, <2>2, <2>3 DEF Laid
  <2>5. rows[x] = [branch |-> b, number |-> x.number]
    BY <2>1
  <2>6. QED
    BY <2>4, <2>5
<1>8. ASSUME NEW k \in DOMAIN f.points
      PROVE  /\ e.point[ids.point[k]] = [branch |-> b, name |-> f.points[k].name, line |-> ids.row[f.points[k].ref],
                                         history |-> Over(f.points[k].history, HistoryOf(d.point, ids.point[k]))]
             /\ ids.point[k] \in DOMAIN e.point
             /\ e.point[ids.point[k]].branch = b /\ e.point[ids.point[k]].name = f.points[k].name
             /\ e.point[ids.point[k]].line = ids.row[f.points[k].ref]
             /\ e.point[ids.point[k]].history = Over(f.points[k].history, HistoryOf(d.point, ids.point[k]))
  <2>1. PICK rows : rows = [j \in DOMAIN f.points |->
          [branch |-> b, name |-> f.points[j].name, line |-> ids.row[f.points[j].ref],
           history |-> Over(f.points[j].history, HistoryOf(d.point, ids.point[j]))]]
    BY Zenon
  <2>2. Laid(e.point, d.point, ids.point, rows)
    BY SMTT(30), <2>1 DEF Written
  <2>3. ids.point[k] \in Range(ids.point)
    BY <1>1 DEF Range
  <2>4. ids.point[k] \in DOMAIN e.point /\ e.point[ids.point[k]] = rows[k]
    BY <1>1, <2>2, <2>3 DEF Laid
  <2>5. rows[k] = [branch |-> b, name |-> f.points[k].name, line |-> ids.row[f.points[k].ref],
           history |-> Over(f.points[k].history, HistoryOf(d.point, ids.point[k]))]
    BY <2>1
  <2>6. QED
    BY <2>4, <2>5
<1>9. QED
  BY SMTT(30), <1>2, <1>3, <1>4, <1>5, <1>6, <1>7, <1>8 DEF FileRows

\* What a row that the import writes was, if it was there.
OtherRows(d, f, b, ids, e) ==
  /\ \A l \in Range(ids.lumg) : /\ l \in DOMAIN e.lumg /\ e.lumg[l].branch = b
                                /\ l \in DOMAIN d.lumg => d.lumg[l].branch = b
  /\ \A c \in Range(ids.calc) : /\ c \in DOMAIN e.calc /\ e.calc[c].lumg \in Range(ids.lumg)
                                /\ c \in DOMAIN d.calc => d.calc[c].lumg \in Range(ids.lumg)
  /\ \A i \in Range(ids.line) : /\ i \in DOMAIN e.line /\ e.line[i].calc \in Range(ids.calc)
                                /\ i \in DOMAIN d.line => d.line[i].calc \in Range(ids.calc)
  /\ \A i \in Range(ids.dpd) : /\ i \in DOMAIN e.dpd /\ e.dpd[i].branch = b
                               /\ i \in DOMAIN d.dpd => d.dpd[i].branch = b
  /\ \A i \in Range(ids.ring) : /\ i \in DOMAIN e.ring /\ e.ring[i].branch = b
                                /\ i \in DOMAIN d.ring => d.ring[i].branch = b
  /\ \A i \in Range(ids.route) : /\ i \in DOMAIN e.route /\ e.route[i].branch = b
                                 /\ i \in DOMAIN d.route => d.route[i].branch = b
  /\ \A i \in Range(ids.point) : /\ i \in DOMAIN e.point /\ e.point[i].branch = b
                                 /\ i \in DOMAIN d.point => d.point[i].branch = b
  /\ Lines(f, ids) \subseteq Range(ids.line)

LEMMA OtherRowsAre ==
  ASSUME NEW d, NEW n \in Nat, Sound(d, n), NEW f, FileOK(f), NEW b, NEW ids, StandsFor(d, n, f, b, ids),
         NEW e, Written(d, f, b, ids, e)
  PROVE  OtherRows(d, f, b, ids, e)
<1> USE DEF Range
<1>12. FileRows(d, f, b, ids, e)
  BY FileRowsAre
<1>1. /\ DOMAIN ids.lumg = f.lumgs /\ DOMAIN ids.calc = f.calcs /\ DOMAIN ids.line = f.lines
      /\ DOMAIN ids.dpd = f.dpd /\ DOMAIN ids.ring = f.rings /\ DOMAIN ids.route = f.routes
      /\ DOMAIN ids.point = DOMAIN f.points
  BY DEF StandsFor, LumgsStand, CalcsStand, LinesStand, NamedStand, RoutesStand, PointsStand
<1>2. /\ \A x : <<n, x>> \notin DOMAIN d.lumg \cup DOMAIN d.dpd \cup DOMAIN d.ring \cup DOMAIN d.route
      /\ \A x : <<n, x>> \notin DOMAIN d.point
      /\ \A x, y : <<n, x, y>> \notin DOMAIN d.calc
      /\ \A x, y, z : <<n, x, y, z>> \notin DOMAIN d.line
  BY Zenon, NewIsNew DEF Sound
<1>3. ASSUME NEW l \in Range(ids.lumg)
      PROVE  l \in DOMAIN e.lumg /\ e.lumg[l].branch = b /\ (l \in DOMAIN d.lumg => d.lumg[l].branch = b)
  <2>1. PICK x \in f.lumgs : l = ids.lumg[x]
    BY <1>1
  <2>2. l \in DOMAIN e.lumg /\ e.lumg[l].branch = b
    BY Zenon, <1>12, <2>1 DEF FileRows
  <2>3. l \in LumgsOf(d, b) \/ l = <<n, x>>
    BY <2>1 DEF StandsFor, LumgsStand
  <2>4. QED
    BY <1>2, <2>2, <2>3 DEF LumgsOf
<1>4. ASSUME NEW c \in Range(ids.calc)
      PROVE  /\ c \in DOMAIN e.calc /\ e.calc[c].lumg \in Range(ids.lumg)
             /\ c \in DOMAIN d.calc => d.calc[c].lumg \in Range(ids.lumg)
  <2>1. PICK x \in f.calcs : c = ids.calc[x]
    BY <1>1
  <2>2. c \in DOMAIN e.calc /\ e.calc[c].lumg = ids.lumg[x[1]]
    BY Zenon, <1>12, <2>1 DEF FileRows
  <2>3. x[1] \in f.lumgs
    BY DEF FileOK
  <2>4. c \in DOMAIN d.calc => d.calc[c].lumg = ids.lumg[x[1]]
    <3>1. c = <<n, x[1], x[2]>> \/ d.calc[c].lumg = ids.lumg[x[1]]
      BY <2>1 DEF StandsFor, CalcsStand
    <3>2. <<n, x[1], x[2]>> \notin DOMAIN d.calc
      BY <1>2
    <3>3. QED
      BY <3>1, <3>2
  <2>5. ids.lumg[x[1]] \in Range(ids.lumg)
    BY <1>1, <2>3
  <2> HIDE DEF Range
  <2>6. QED
    BY <2>2, <2>4, <2>5
<1>5. ASSUME NEW i \in Range(ids.line)
      PROVE  /\ i \in DOMAIN e.line /\ e.line[i].calc \in Range(ids.calc)
             /\ i \in DOMAIN d.line => d.line[i].calc \in Range(ids.calc)
  <2>1. PICK x \in f.lines : i = ids.line[x]
    BY <1>1
  <2>2. i \in DOMAIN e.line /\ e.line[i].calc = ids.of[x]
    BY Zenon, <1>12, <2>1 DEF FileRows
  <2>3. PICK c \in f.calcs : ids.of[x] = ids.calc[c]
    BY DEF StandsFor, LinesStand
  <2>4. i \in DOMAIN d.line => d.line[i].calc = ids.of[x]
    <3>1. i = <<n, x[1], x[2], x[3]>> \/ d.line[i].calc = ids.of[x]
      BY <2>1 DEF StandsFor, LinesStand
    <3>2. <<n, x[1], x[2], x[3]>> \notin DOMAIN d.line
      BY <1>2
    <3>3. QED
      BY <3>1, <3>2
  <2>5. ids.calc[c] \in Range(ids.calc)
    BY <1>1
  <2> HIDE DEF Range
  <2>6. QED
    BY <2>2, <2>3, <2>4, <2>5
<1>6. ASSUME NEW i \in Range(ids.dpd)
      PROVE  i \in DOMAIN e.dpd /\ e.dpd[i].branch = b /\ (i \in DOMAIN d.dpd => d.dpd[i].branch = b)
  <2>1. PICK x \in f.dpd : i = ids.dpd[x]
    BY <1>1
  <2>2. i \in DOMAIN e.dpd /\ e.dpd[i].branch = b
    BY Zenon, <1>12, <2>1 DEF FileRows
  <2>3. i \in In(d.dpd, b) \/ i = <<n, x.name>>
    BY <2>1 DEF StandsFor, NamedStand
  <2>4. QED
    BY <1>2, <2>2, <2>3 DEF In
<1>7. ASSUME NEW i \in Range(ids.ring)
      PROVE  i \in DOMAIN e.ring /\ e.ring[i].branch = b /\ (i \in DOMAIN d.ring => d.ring[i].branch = b)
  <2>1. PICK x \in f.rings : i = ids.ring[x]
    BY <1>1
  <2>2. i \in DOMAIN e.ring /\ e.ring[i].branch = b
    BY Zenon, <1>12, <2>1 DEF FileRows
  <2>3. i \in In(d.ring, b) \/ i = <<n, x.name>>
    BY <2>1 DEF StandsFor, NamedStand
  <2>4. QED
    BY <1>2, <2>2, <2>3 DEF In
<1>8. ASSUME NEW i \in Range(ids.route)
      PROVE  i \in DOMAIN e.route /\ e.route[i].branch = b /\ (i \in DOMAIN d.route => d.route[i].branch = b)
  <2>1. PICK x \in f.routes : i = ids.route[x]
    BY <1>1
  <2>2. i \in DOMAIN e.route /\ e.route[i].branch = b
    BY Zenon, <1>12, <2>1 DEF FileRows
  <2>3. i \in In(d.route, b) \/ i = <<n, x.number>>
    BY <2>1 DEF StandsFor, RoutesStand
  <2>4. QED
    BY <1>2, <2>2, <2>3 DEF In
<1>9. ASSUME NEW i \in Range(ids.point)
      PROVE  i \in DOMAIN e.point /\ e.point[i].branch = b /\ (i \in DOMAIN d.point => d.point[i].branch = b)
  <2>1. PICK k \in DOMAIN f.points : i = ids.point[k]
    BY <1>1
  <2>2. i \in DOMAIN e.point /\ e.point[i].branch = b
    BY Zenon, <1>12, <2>1 DEF FileRows
  <2>3. i \in In(d.point, b) \/ i = <<n, k>>
    BY <2>1 DEF StandsFor, PointsStand
  <2>4. QED
    BY <1>2, <2>2, <2>3 DEF In
<1>10. Lines(f, ids) \subseteq Range(ids.line)
  <2>1. ASSUME NEW x \in f.routes, NEW r \in x.members PROVE ids.row[r] \in Range(ids.line)
    <3>1. r \in f.lines
      BY DEF FileOK
    <3>2. ids.row[r] = ids.line[r]
      BY <3>1 DEF StandsFor, RowsStand
    <3>3. QED
      BY <1>1, <3>1, <3>2
  <2> HIDE DEF Range
  <2>2. QED
    BY <2>1 DEF Lines
<1> HIDE DEF Range
<1>11. QED
  BY <1>3, <1>4, <1>5, <1>6, <1>7, <1>8, <1>9, <1>10 DEF OtherRows

(* ---- Other branches ---- *)

\* What belongs to another branch is as it was, and nothing has come to it.
Untouched(d, e, o) ==
  /\ LumgsOf(e, o) = LumgsOf(d, o) /\ CalcsOf(e, o) = CalcsOf(d, o) /\ LinesOf(e, o) = LinesOf(d, o)
  /\ In(e.dpd, o) = In(d.dpd, o) /\ In(e.ring, o) = In(d.ring, o)
  /\ In(e.route, o) = In(d.route, o) /\ In(e.point, o) = In(d.point, o)
  /\ \A l \in LumgsOf(d, o) : e.lumg[l] = d.lumg[l]
  /\ \A c \in CalcsOf(d, o) : e.calc[c] = d.calc[c]
  /\ \A i \in LinesOf(d, o) : e.line[i] = d.line[i]
  /\ \A i \in In(d.dpd, o) : e.dpd[i] = d.dpd[i]
  /\ \A i \in In(d.ring, o) : e.ring[i] = d.ring[i]
  /\ \A i \in In(d.route, o) : e.route[i] = d.route[i]
  /\ \A i \in In(d.point, o) : e.point[i] = d.point[i]

LEMMA OthersUntouchedByWrite ==
  ASSUME NEW d, NEW n \in Nat, Sound(d, n), NEW f, FileOK(f), NEW b, NEW ids, StandsFor(d, n, f, b, ids),
         NEW e, Written(d, f, b, ids, e), NEW o, o # b
  PROVE  Untouched(d, e, o) /\ LinesOf(d, o) \cap Range(ids.line) = {} /\ LumgsOf(d, o) \cap Range(ids.lumg) = {}
<1>1. OtherRows(d, f, b, ids, e)
  BY OtherRowsAre
<1>2. /\ DOMAIN e.lumg = DOMAIN d.lumg \cup Range(ids.lumg)
      /\ \A i \in DOMAIN d.lumg \ Range(ids.lumg) : e.lumg[i] = d.lumg[i]
  BY DEF Written, Laid
<1>3. /\ DOMAIN e.calc = DOMAIN d.calc \cup Range(ids.calc)
      /\ \A i \in DOMAIN d.calc \ Range(ids.calc) : e.calc[i] = d.calc[i]
  BY DEF Written, Laid
<1>4. /\ DOMAIN e.line = DOMAIN d.line \cup Range(ids.line)
      /\ \A i \in DOMAIN d.line \ Range(ids.line) : e.line[i] = d.line[i]
  BY DEF Written, Laid
<1>5. /\ DOMAIN e.dpd = DOMAIN d.dpd \cup Range(ids.dpd)
      /\ \A i \in DOMAIN d.dpd \ Range(ids.dpd) : e.dpd[i] = d.dpd[i]
  BY DEF Written, Laid
<1>6. /\ DOMAIN e.ring = DOMAIN d.ring \cup Range(ids.ring)
      /\ \A i \in DOMAIN d.ring \ Range(ids.ring) : e.ring[i] = d.ring[i]
  BY DEF Written, Laid
<1>7. /\ DOMAIN e.route = DOMAIN d.route \cup Range(ids.route)
      /\ \A i \in DOMAIN d.route \ Range(ids.route) : e.route[i] = d.route[i]
  BY DEF Written, Laid
<1>8. /\ DOMAIN e.point = DOMAIN d.point \cup Range(ids.point)
      /\ \A i \in DOMAIN d.point \ Range(ids.point) : e.point[i] = d.point[i]
  BY DEF Written, Laid
<1>9. /\ LumgsOf(e, o) = LumgsOf(d, o) /\ LumgsOf(d, o) \cap Range(ids.lumg) = {}
      /\ \A l \in LumgsOf(d, o) : e.lumg[l] = d.lumg[l]
  <2>1. \A l \in Range(ids.lumg) : e.lumg[l].branch = b /\ (l \in DOMAIN d.lumg => d.lumg[l].branch = b)
    BY <1>1 DEF OtherRows
  <2>2. QED
    BY <2>1, <1>2 DEF LumgsOf
<1>10. /\ CalcsOf(e, o) = CalcsOf(d, o) /\ CalcsOf(d, o) \cap Range(ids.calc) = {}
       /\ \A c \in CalcsOf(d, o) : e.calc[c] = d.calc[c]
  <2>1. \A c \in Range(ids.calc) :
          e.calc[c].lumg \in Range(ids.lumg) /\ (c \in DOMAIN d.calc => d.calc[c].lumg \in Range(ids.lumg))
    BY <1>1 DEF OtherRows
  <2>2. QED
    BY <2>1, <1>3, <1>9 DEF CalcsOf
<1>11. /\ LinesOf(e, o) = LinesOf(d, o) /\ LinesOf(d, o) \cap Range(ids.line) = {}
       /\ \A i \in LinesOf(d, o) : e.line[i] = d.line[i]
  <2>1. \A i \in Range(ids.line) :
          e.line[i].calc \in Range(ids.calc) /\ (i \in DOMAIN d.line => d.line[i].calc \in Range(ids.calc))
    BY <1>1 DEF OtherRows
  <2>2. QED
    BY <2>1, <1>4, <1>10 DEF LinesOf
<1>12. In(e.dpd, o) = In(d.dpd, o) /\ \A i \in In(d.dpd, o) : e.dpd[i] = d.dpd[i]
  <2>1. \A i \in Range(ids.dpd) : e.dpd[i].branch = b /\ (i \in DOMAIN d.dpd => d.dpd[i].branch = b)
    BY <1>1 DEF OtherRows
  <2>2. QED
    BY <2>1, <1>5 DEF In
<1>13. In(e.ring, o) = In(d.ring, o) /\ \A i \in In(d.ring, o) : e.ring[i] = d.ring[i]
  <2>1. \A i \in Range(ids.ring) : e.ring[i].branch = b /\ (i \in DOMAIN d.ring => d.ring[i].branch = b)
    BY <1>1 DEF OtherRows
  <2>2. QED
    BY <2>1, <1>6 DEF In
<1>14. In(e.route, o) = In(d.route, o) /\ \A i \in In(d.route, o) : e.route[i] = d.route[i]
  <2>1. \A i \in Range(ids.route) : e.route[i].branch = b /\ (i \in DOMAIN d.route => d.route[i].branch = b)
    BY <1>1 DEF OtherRows
  <2>2. QED
    BY <2>1, <1>7 DEF In
<1>15. In(e.point, o) = In(d.point, o) /\ \A i \in In(d.point, o) : e.point[i] = d.point[i]
  <2>1. \A i \in Range(ids.point) : e.point[i].branch = b /\ (i \in DOMAIN d.point => d.point[i].branch = b)
    BY <1>1 DEF OtherRows
  <2>2. QED
    BY <2>1, <1>8 DEF In
<1>16. QED
  BY <1>9, <1>10, <1>11, <1>12, <1>13, <1>14, <1>15 DEF Untouched

LEMMA RefsUntouched ==
  ASSUME NEW d, NEW e, NEW o, Untouched(d, e, o)
  PROVE  /\ \A i \in LinesOf(d, o) : PhysicalRef(e, i) = PhysicalRef(d, i)
         /\ \A c \in CalcsOf(d, o) : CalcKey(e, c) = CalcKey(d, c)
         /\ \A r : Ref(e, o, r) = Ref(d, o, r)
         /\ \A l : LumgName(e, o, l) = LumgName(d, o, l)
<1>1. ASSUME NEW c \in CalcsOf(d, o)
      PROVE  e.calc[c] = d.calc[c] /\ e.lumg[d.calc[c].lumg] = d.lumg[d.calc[c].lumg]
  BY DEF Untouched, CalcsOf
<1>2. ASSUME NEW i \in LinesOf(d, o) PROVE PhysicalRef(e, i) = PhysicalRef(d, i)
  <2>1. e.line[i] = d.line[i] /\ d.line[i].calc \in CalcsOf(d, o)
    BY DEF Untouched, LinesOf
  <2>2. QED
    BY Zenon, <1>1, <2>1 DEF PhysicalRef
<1>3. ASSUME NEW c \in CalcsOf(d, o) PROVE CalcKey(e, c) = CalcKey(d, c)
  BY <1>1 DEF CalcKey
<1>4. ASSUME NEW r PROVE Ref(e, o, r) = Ref(d, o, r)
  <2>1. CASE r \in LinesOf(d, o)
    BY <1>2, <2>1 DEF Ref, Untouched
  <2>2. CASE r \notin LinesOf(d, o) /\ r \in In(d.dpd, o)
    BY <2>2 DEF Ref, Untouched
  <2>3. CASE r \notin LinesOf(d, o) /\ r \notin In(d.dpd, o)
    BY <2>3 DEF Ref, Untouched
  <2>4. QED
    BY <2>1, <2>2, <2>3
<1>5. ASSUME NEW l PROVE LumgName(e, o, l) = LumgName(d, o, l)
  BY DEF LumgName, Untouched
<1>6. QED
  BY <1>2, <1>3, <1>4, <1>5

\* The file another branch would be exported to is the same.
LEMMA OthersStay ==
  ASSUME NEW d, NEW n \in Nat, Sound(d, n), NEW f, FileOK(f), NEW b, NEW ids, StandsFor(d, n, f, b, ids),
         NEW e, Written(d, f, b, ids, e), NEW o \in DOMAIN d.branch, o # b
  PROVE  Export(e, o) = Export(d, o)
<1>1. Untouched(d, e, o) /\ LinesOf(d, o) \cap Range(ids.line) = {} /\ LumgsOf(d, o) \cap Range(ids.lumg) = {}
  BY OthersUntouchedByWrite
<1>2. /\ \A i \in LinesOf(d, o) : PhysicalRef(e, i) = PhysicalRef(d, i)
      /\ \A c \in CalcsOf(d, o) : CalcKey(e, c) = CalcKey(d, c)
      /\ \A r : Ref(e, o, r) = Ref(d, o, r)
      /\ \A l : LumgName(e, o, l) = LumgName(d, o, l)
  BY <1>1, RefsUntouched
<1>3. e.branch[o] = d.branch[o]
  BY DEF Written
<1>4. {e.lumg[l].name : l \in LumgsOf(e, o)} = {d.lumg[l].name : l \in LumgsOf(d, o)}
  BY <1>1 DEF Untouched
<1>5. CodesOf(e, o) = CodesOf(d, o)
  <2>1. /\ DOMAIN d.code \subseteq DOMAIN e.code
        /\ \A x \in DOMAIN d.code : e.code[x] = d.code[x]
    BY DEF Written
  <2>2. ASSUME NEW x \in DOMAIN e.code \ DOMAIN d.code PROVE e.code[x] \notin LumgsOf(d, o)
    <3>1. PICK y \in f.codes : e.code[x] = ids.lumg[y[1]]
      BY DEF Written
    <3>2. y[1] \in DOMAIN ids.lumg
      BY DEF FileOK, StandsFor, LumgsStand
    <3>3. e.code[x] \in Range(ids.lumg)
      BY <3>1, <3>2 DEF Range
    <3>4. QED
      BY <1>1, <3>3
  <2>3. LumgsOf(e, o) = LumgsOf(d, o) /\ \A l \in LumgsOf(d, o) : e.lumg[l] = d.lumg[l]
    BY <1>1 DEF Untouched
  <2>4. {x \in DOMAIN e.code : e.code[x] \in LumgsOf(e, o)} = {x \in DOMAIN d.code : d.code[x] \in LumgsOf(d, o)}
    BY <2>1, <2>2, <2>3
  <2>5. \A x \in {x \in DOMAIN d.code : d.code[x] \in LumgsOf(d, o)} : e.lumg[e.code[x]].name = d.lumg[d.code[x]].name
    BY <2>1, <2>3
  <2>6. QED
    BY <2>4, <2>5 DEF CodesOf
<1>6. {CalcKey(e, c) : c \in CalcsOf(e, o)} = {CalcKey(d, c) : c \in CalcsOf(d, o)}
  BY <1>1, <1>2 DEF Untouched
<1>7. {PhysicalRef(e, i) : i \in LinesOf(e, o)} = {PhysicalRef(d, i) : i \in LinesOf(d, o)}
  BY <1>1, <1>2 DEF Untouched
<1>8. {DpdLine(e, o, i) : i \in In(e.dpd, o)} = {DpdLine(d, o, i) : i \in In(d.dpd, o)}
  <2>1. \A i \in In(d.dpd, o) : DpdLine(e, o, i) = DpdLine(d, o, i)
    BY <1>1, <1>2 DEF Untouched, DpdLine
  <2>2. QED
    BY <1>1, <2>1 DEF Untouched
<1>9. {Ring(e, o, i) : i \in In(e.ring, o)} = {Ring(d, o, i) : i \in In(d.ring, o)}
  <2>1. \A rows : Refs(e, o, rows) = Refs(d, o, rows)
    BY <1>2 DEF Refs
  <2>2. \A i \in In(d.ring, o) : Ring(e, o, i) = Ring(d, o, i)
    BY <1>1, <2>1 DEF Untouched, Ring
  <2>3. QED
    BY <1>1, <2>2 DEF Untouched
<1>10. {Route(e, o, i) : i \in In(e.route, o)} = {Route(d, o, i) : i \in In(d.route, o)}
  <2>1. ASSUME NEW i \in In(d.route, o) PROVE Route(e, o, i) = Route(d, o, i)
    <3>1. PICK old : old = {x \in DOMAIN d.member : d.member[x] = i}
      BY Zenon
    <3>2. PICK new : new = {x \in DOMAIN e.member : e.member[x] = i}
      BY Zenon
    <3>3. Lines(f, ids) \subseteq Range(ids.line) /\ \A x \in Range(ids.route) : x \in DOMAIN d.route => d.route[x].branch = b
      <4>1. OtherRows(d, f, b, ids, e)
        BY OtherRowsAre
      <4>2. Lines(f, ids) \subseteq Range(ids.line)
        BY <4>1 DEF OtherRows
      <4>3. \A x \in Range(ids.route) : x \in DOMAIN d.route => d.route[x].branch = b
        BY <4>1 DEF OtherRows
      <4>4. QED
        BY <4>2, <4>3
    <3>4. ASSUME NEW x \in new PROVE x \in old
      <4>1. x \in DOMAIN d.member \cup Lines(f, ids) /\ e.member[x] = i
        BY <3>2 DEF Written
      <4>2. ASSUME x \in Lines(f, ids) PROVE FALSE
        <5>4. \A z \in Lines(f, ids) : \E y \in f.routes : (\E r \in y.members : ids.row[r] = z) /\ e.member[z] = ids.route[y]
          BY Zenon DEF Written
        <5>1. PICK y \in f.routes : i = ids.route[y]
          BY <4>1, <4>2, <5>4
        <5>2. i \in Range(ids.route)
          BY <5>1 DEF StandsFor, RoutesStand, Range
        <5>3. QED
          BY <3>3, <5>2 DEF In
      <4>3. x \in DOMAIN d.member \ Lines(f, ids)
        BY <4>1, <4>2
      <4>4. e.member[x] = d.member[x]
        BY <4>3 DEF Written
      <4>5. QED
        BY <3>1, <4>1, <4>3, <4>4
    <3>5. ASSUME NEW x \in old, x \notin new PROVE Ref(d, o, x) = Null
      <4>1. x \in DOMAIN d.member /\ d.member[x] = i
        BY <3>1
      <4>2. DOMAIN d.member \subseteq DOMAIN e.member /\ \A y \in DOMAIN d.member \ Lines(f, ids) : e.member[y] = d.member[y]
        BY DEF Written
      <4>3. x \in Lines(f, ids)
        BY <3>2, <3>5, <4>1, <4>2
      <4>4. x \notin LinesOf(d, o)
        BY <1>1, <3>3, <4>3
      <4>5. x \in DOMAIN d.line
        BY <4>1, Fields
      <4>6. x \notin In(d.dpd, o)
        BY SMTT(30), <4>5, References
      <4>7. QED
        BY <4>4, <4>6 DEF Ref
    <3>6. Refs(e, o, new) = Refs(d, o, old)
      BY <1>2, <3>4, <3>5 DEF Refs
    <3>7. e.route[i] = d.route[i]
      BY <1>1 DEF Untouched
    <3>8. QED
      BY <3>1, <3>2, <3>6, <3>7 DEF Route
  <2>2. QED
    BY <1>1, <2>1 DEF Untouched
<1>11. [i \in In(e.point, o) |-> Point(e, o, i)] = [i \in In(d.point, o) |-> Point(d, o, i)]
  <2>1. \A i \in In(d.point, o) : Point(e, o, i) = Point(d, o, i)
    BY <1>1, <1>2 DEF Untouched, Point
  <2>2. QED
    BY <1>1, <2>1 DEF Untouched
<1>12. QED
  BY Zenon, <1>3, <1>4, <1>5, <1>6, <1>7, <1>8, <1>9, <1>10, <1>11 DEF Export

(* ---- The tables stay sound ---- *)

LEMMA Histories_Over ==
  ASSUME NEW h \in History, NEW g, g \in History \/ g = <<>>
  PROVE  Over(h, g) \in History
<1>1. PICK S \in SUBSET Moments : h \in [S -> Devices]
  BY DEF History
<1>2. CASE g = <<>>
  <2>1. DOMAIN g = {}
    BY <1>2
  <2>2. Over(h, g) = h
    BY <1>1, <2>1 DEF Over
  <2>3. QED
    BY <2>2
<1>3. CASE g \in History
  <2>1. PICK T \in SUBSET Moments : g \in [T -> Devices]
    BY <1>3 DEF History
  <2>2. Over(h, g) \in [S \cup T -> Devices]
    BY <1>1, <2>1 DEF Over
  <2>3. QED
    BY <2>2 DEF History
<1>4. QED
  BY <1>2, <1>3

\* A table has rows of a kind when the rows it had and those of the file are.
LEMMA LaidTyped ==
  ASSUME NEW new, NEW table, NEW ids, NEW rows, Laid(new, table, ids, rows), NEW T,
         \A i \in DOMAIN table : table[i] \in T,
         \A k \in DOMAIN ids : new[ids[k]] \in T
  PROVE  new \in [DOMAIN new -> T]
<1>1. ASSUME NEW i \in DOMAIN new PROVE new[i] \in T
  <2>1. CASE i \in Range(ids)
    <3>1. PICK k \in DOMAIN ids : i = ids[k]
      BY <2>1 DEF Range
    <3>2. QED
      BY <3>1
  <2>2. CASE i \notin Range(ids)
    BY <2>2 DEF Laid
  <2>3. QED
    BY <2>1, <2>2
<1>2. QED
  BY <1>1 DEF Laid

LEMMA LumgsTyped ==
  ASSUME NEW d, NEW n \in Nat, Sound(d, n), NEW f, FileOK(f), NEW b, NEW ids, StandsFor(d, n, f, b, ids),
         NEW e, Written(d, f, b, ids, e)
  PROVE  /\ e.branch \in [DOMAIN e.branch -> [uid : Nat, name : Nat]]
         /\ e.lumg \in [DOMAIN e.lumg -> [branch : DOMAIN e.branch, name : Nat]]
         /\ e.code \in [DOMAIN e.code -> DOMAIN e.lumg]
         /\ e.calc \in [DOMAIN e.calc -> [lumg : DOMAIN e.lumg, address : Nat, name : Nat]]
         /\ e.line \in [DOMAIN e.line -> [calc : DOMAIN e.calc, no : Nat]]
<1>1. FileRows(d, f, b, ids, e)
  BY FileRowsAre
<1>2. DOMAIN ids.lumg = f.lumgs /\ DOMAIN ids.calc = f.calcs /\ DOMAIN ids.line = f.lines
  BY DEF StandsFor, LumgsStand, CalcsStand, LinesStand
<1>3. /\ e.branch = [x \in DOMAIN e.branch |-> e.branch[x]]
      /\ DOMAIN e.branch = DOMAIN d.branch \cup {b}
      /\ e.branch[b] = [uid |-> f.uid, name |-> f.name]
      /\ \A x \in DOMAIN d.branch \ {b} : e.branch[x] = d.branch[x]
  BY DEF Written
<1>4. e.branch \in [DOMAIN e.branch -> [uid : Nat, name : Nat]]
  <2>1. [uid |-> f.uid, name |-> f.name] \in [uid : Nat, name : Nat]
    BY DEF FileOK
  <2>2. \A x \in DOMAIN d.branch : d.branch[x] \in [uid : Nat, name : Nat]
    BY DEF Sound, Refers
  <2>3. QED
    BY <1>3, <2>1, <2>2
<1>5. /\ Laid(e.lumg, d.lumg, ids.lumg, [x \in f.lumgs |-> [branch |-> b, name |-> x]])
      /\ DOMAIN d.lumg \subseteq DOMAIN e.lumg
  BY Zenon DEF Written, Laid
<1>6. e.lumg \in [DOMAIN e.lumg -> [branch : DOMAIN e.branch, name : Nat]]
  <2>1. \A i \in DOMAIN d.lumg : d.lumg[i] \in [branch : DOMAIN e.branch, name : Nat]
    BY <1>3 DEF Sound, Refers
  <2>2. ASSUME NEW x \in DOMAIN ids.lumg PROVE e.lumg[ids.lumg[x]] \in [branch : DOMAIN e.branch, name : Nat]
    <3>1. x \in Nat /\ b \in DOMAIN e.branch
      BY <1>2, <1>3 DEF FileOK
    <3>2. e.lumg[ids.lumg[x]] = [branch |-> b, name |-> x]
      BY <1>1, <1>2 DEF FileRows
    <3>3. QED
      BY <3>1, <3>2
  <2>3. QED
    BY Zenon, <1>5, <2>1, <2>2, LaidTyped
<1>7. e.code \in [DOMAIN e.code -> DOMAIN e.lumg]
  <2>1. e.code = [x \in DOMAIN e.code |-> e.code[x]]
    BY DEF Written
  <2>2. ASSUME NEW x \in DOMAIN e.code PROVE e.code[x] \in DOMAIN e.lumg
    <3>1. CASE x \in DOMAIN d.code
      <4>1. e.code[x] = d.code[x]
        BY SMTT(30), <3>1 DEF Written
      <4>2. d.code[x] \in DOMAIN d.lumg
        BY <3>1, Fields
      <4>3. QED
        BY <1>5, <4>1, <4>2
    <3>2. CASE x \notin DOMAIN d.code
      <4>1. \A z \in DOMAIN e.code \ DOMAIN d.code : \E y \in f.codes : y[2] = z /\ e.code[z] = ids.lumg[y[1]]
        BY Zenon DEF Written
      <4>2. PICK y \in f.codes : e.code[x] = ids.lumg[y[1]]
        BY <3>2, <4>1
      <4>3. y[1] \in f.lumgs
        BY DEF FileOK
      <4>4. QED
        BY Zenon, <1>1, <4>2, <4>3 DEF FileRows
    <3>3. QED
      BY <3>1, <3>2
  <2>3. QED
    BY <2>1, <2>2
<1>8. /\ Laid(e.calc, d.calc, ids.calc, [c \in f.calcs |-> [lumg |-> ids.lumg[c[1]], address |-> c[2], name |-> c[3]]])
      /\ DOMAIN d.calc \subseteq DOMAIN e.calc
  BY Zenon DEF Written, Laid
<1>9. e.calc \in [DOMAIN e.calc -> [lumg : DOMAIN e.lumg, address : Nat, name : Nat]]
  <2>1. \A i \in DOMAIN d.calc : d.calc[i] \in [lumg : DOMAIN e.lumg, address : Nat, name : Nat]
    BY <1>5 DEF Sound, Refers
  <2>2. ASSUME NEW c \in DOMAIN ids.calc
        PROVE  e.calc[ids.calc[c]] \in [lumg : DOMAIN e.lumg, address : Nat, name : Nat]
    <3>1. c[1] \in f.lumgs /\ c[2] \in Nat /\ c[3] \in Nat
      BY <1>2 DEF FileOK
    <3>2. ids.lumg[c[1]] \in DOMAIN e.lumg
      BY Zenon, <1>1, <3>1 DEF FileRows
    <3>3. e.calc[ids.calc[c]] = [lumg |-> ids.lumg[c[1]], address |-> c[2], name |-> c[3]]
      BY SMTT(30), <1>1, <1>2 DEF FileRows
    <3>4. QED
      BY <3>1, <3>2, <3>3
  <2>3. QED
    BY Zenon, <1>8, <2>1, <2>2, LaidTyped
<1>10. Laid(e.line, d.line, ids.line, [x \in f.lines |-> [calc |-> ids.of[x], no |-> x[3]]])
  BY DEF Written
<1>11. e.line \in [DOMAIN e.line -> [calc : DOMAIN e.calc, no : Nat]]
  <2>1. \A i \in DOMAIN d.line : d.line[i] \in [calc : DOMAIN e.calc, no : Nat]
    BY <1>8 DEF Sound, Refers
  <2>2. ASSUME NEW x \in DOMAIN ids.line PROVE e.line[ids.line[x]] \in [calc : DOMAIN e.calc, no : Nat]
    <3>1. x[3] \in Nat
      BY <1>2 DEF FileOK
    <3>2. PICK c \in f.calcs : ids.of[x] = ids.calc[c]
      BY <1>2 DEF StandsFor, LinesStand
    <3>3. ids.calc[c] \in DOMAIN e.calc
      BY Zenon, <1>1 DEF FileRows
    <3>4. e.line[ids.line[x]] = [calc |-> ids.of[x], no |-> x[3]]
      BY SMTT(30), <1>1, <1>2 DEF FileRows
    <3>5. QED
      BY <3>1, <3>2, <3>3, <3>4
  <2>3. QED
    BY Zenon, <1>10, <2>1, <2>2, LaidTyped
<1>12. QED
  BY <1>4, <1>6, <1>7, <1>9, <1>11

LEMMA PointsTyped ==
  ASSUME NEW d, NEW n \in Nat, Sound(d, n), NEW f, FileOK(f), NEW b, NEW ids, StandsFor(d, n, f, b, ids),
         NEW e, Written(d, f, b, ids, e)
  PROVE  /\ e.dpd \in [DOMAIN e.dpd -> [branch : DOMAIN e.branch, name : Nat,
                                        lumg : {Null} \cup DOMAIN e.lumg, history : History]]
         /\ e.ring \in [DOMAIN e.ring -> [branch : DOMAIN e.branch, name : Nat,
                                          members : SUBSET (DOMAIN e.line \cup DOMAIN e.dpd)]]
         /\ e.route \in [DOMAIN e.route -> [branch : DOMAIN e.branch, number : Nat]]
         /\ e.member \in [DOMAIN e.member -> DOMAIN e.route] /\ DOMAIN e.member \subseteq DOMAIN e.line
         /\ e.point \in [DOMAIN e.point -> [branch : DOMAIN e.branch, name : Nat,
                           line : {Null} \cup DOMAIN e.line \cup DOMAIN e.dpd, history : History]]
         /\ IsFiniteSet(DOMAIN e.point)
<1>1. FileRows(d, f, b, ids, e)
  BY FileRowsAre
<1>2. /\ DOMAIN ids.dpd = f.dpd /\ DOMAIN ids.ring = f.rings /\ DOMAIN ids.route = f.routes
      /\ DOMAIN ids.point = DOMAIN f.points
  BY DEF StandsFor, NamedStand, RoutesStand, PointsStand
<1>3. DOMAIN d.branch \subseteq DOMAIN e.branch /\ b \in DOMAIN e.branch
  BY DEF Written
<1>4. /\ DOMAIN d.lumg \subseteq DOMAIN e.lumg /\ DOMAIN d.line \subseteq DOMAIN e.line
      /\ DOMAIN d.dpd \subseteq DOMAIN e.dpd /\ DOMAIN d.route \subseteq DOMAIN e.route
  BY DEF Written, Laid
<1>5. /\ \A r \in f.lines : ids.row[r] \in DOMAIN e.line
      /\ \A r \in DpdRefs(f) : ids.row[r] \in DOMAIN e.dpd
      /\ ids.row[Null] = Null
  <2>1. RowsStand(f, ids)
    BY DEF StandsFor
  <2>2. \A r \in f.lines : ids.row[r] \in DOMAIN e.line
    BY Zenon, <1>1, <2>1 DEF RowsStand, FileRows
  <2>3. ASSUME NEW r \in DpdRefs(f) PROVE ids.row[r] \in DOMAIN e.dpd
    <3>1. PICK x \in f.dpd : r = <<x.name>>
      BY DEF DpdRefs
    <3>2. ids.row[r] = ids.dpd[x]
      BY <2>1, <3>1 DEF RowsStand
    <3>3. QED
      BY Zenon, <1>1, <3>2 DEF FileRows
  <2>4. QED
    BY <2>1, <2>2, <2>3 DEF RowsStand
<1>6. e.dpd \in [DOMAIN e.dpd -> [branch : DOMAIN e.branch, name : Nat,
                                  lumg : {Null} \cup DOMAIN e.lumg, history : History]]
  <2>1. PICK T : T = [branch : DOMAIN e.branch, name : Nat, lumg : {Null} \cup DOMAIN e.lumg, history : History]
    BY Zenon
  <2>2. \A i \in DOMAIN d.dpd : d.dpd[i] \in T
    BY <1>3, <1>4, <2>1 DEF Sound, Refers
  <2>3. ASSUME NEW x \in DOMAIN ids.dpd PROVE e.dpd[ids.dpd[x]] \in T
    <3>1. x \in f.dpd /\ x.name \in Nat /\ x.lumg \in {Null} \cup f.lumgs /\ x.history \in History
      BY <1>2 DEF FileOK
    <3>2. NamedLumg(ids, x.lumg) \in {Null} \cup DOMAIN e.lumg
      BY Zenon, <1>1, <3>1 DEF NamedLumg, FileRows
    <3>3. HistoryOf(d.dpd, ids.dpd[x]) \in History \/ HistoryOf(d.dpd, ids.dpd[x]) = <<>>
      BY Fields DEF HistoryOf
    <3>4. Over(x.history, HistoryOf(d.dpd, ids.dpd[x])) \in History
      BY <3>1, <3>3, Histories_Over
    <3>5. e.dpd[ids.dpd[x]] = [branch |-> b, name |-> x.name, lumg |-> NamedLumg(ids, x.lumg),
                               history |-> Over(x.history, HistoryOf(d.dpd, ids.dpd[x]))]
      BY SMTT(30), <1>1, <3>1 DEF FileRows
    <3>6. QED
      BY <1>3, <2>1, <3>1, <3>2, <3>4, <3>5
  <2>4. PICK rows : Laid(e.dpd, d.dpd, ids.dpd, rows)
    BY DEF Written
  <2>5. QED
    BY Zenon, <2>1, <2>2, <2>3, <2>4, LaidTyped
<1>7. e.ring \in [DOMAIN e.ring -> [branch : DOMAIN e.branch, name : Nat,
                                    members : SUBSET (DOMAIN e.line \cup DOMAIN e.dpd)]]
  <2>1. PICK T : T = [branch : DOMAIN e.branch, name : Nat, members : SUBSET (DOMAIN e.line \cup DOMAIN e.dpd)]
    BY Zenon
  <2>2. ASSUME NEW i \in DOMAIN d.ring PROVE d.ring[i] \in T
    <3>1. d.ring[i] \in [branch : DOMAIN d.branch, name : Nat, members : SUBSET (DOMAIN d.line \cup DOMAIN d.dpd)]
      BY DEF Sound, Refers
    <3>2. QED
      BY <1>3, <1>4, <2>1, <3>1
  <2>3. ASSUME NEW x \in DOMAIN ids.ring PROVE e.ring[ids.ring[x]] \in T
    <3>1. x \in f.rings /\ x.name \in Nat /\ x.members \subseteq f.lines \cup DpdRefs(f)
      BY <1>2 DEF FileOK
    <3>2. {ids.row[r] : r \in x.members} \subseteq DOMAIN e.line \cup DOMAIN e.dpd
      BY <1>5, <3>1
    <3>3. MembersOf(d.ring, ids.ring[x]) \subseteq DOMAIN e.line \cup DOMAIN e.dpd
      <4>1. CASE ids.ring[x] \in DOMAIN d.ring
        <5>1. d.ring[ids.ring[x]].members \subseteq DOMAIN d.line \cup DOMAIN d.dpd
          BY <4>1, Fields
        <5>2. QED
          BY <1>4, <4>1, <5>1 DEF MembersOf
      <4>2. CASE ids.ring[x] \notin DOMAIN d.ring
        BY <4>2 DEF MembersOf
      <4>3. QED
        BY <4>1, <4>2
    <3>4. e.ring[ids.ring[x]] = [branch |-> b, name |-> x.name,
                                 members |-> {ids.row[r] : r \in x.members} \cup MembersOf(d.ring, ids.ring[x])]
      BY SMTT(30), <1>1, <3>1 DEF FileRows
    <3>5. PICK M : M = {ids.row[r] : r \in x.members} \cup MembersOf(d.ring, ids.ring[x])
      BY Zenon
    <3>6. M \subseteq DOMAIN e.line \cup DOMAIN e.dpd
      BY <3>2, <3>3, <3>5
    <3>7. e.ring[ids.ring[x]] = [branch |-> b, name |-> x.name, members |-> M]
      BY <3>4, <3>5
    <3>8. QED
      BY <1>3, <2>1, <3>1, <3>6, <3>7
  <2>4. PICK rows : Laid(e.ring, d.ring, ids.ring, rows)
    BY DEF Written
  <2>5. QED
    BY Zenon, <2>1, <2>2, <2>3, <2>4, LaidTyped
<1>8. e.route \in [DOMAIN e.route -> [branch : DOMAIN e.branch, number : Nat]]
  <2>1. \A i \in DOMAIN d.route : d.route[i] \in [branch : DOMAIN e.branch, number : Nat]
    BY <1>3 DEF Sound, Refers
  <2>2. ASSUME NEW x \in DOMAIN ids.route PROVE e.route[ids.route[x]] \in [branch : DOMAIN e.branch, number : Nat]
    <3>1. x \in f.routes /\ x.number \in Nat
      BY <1>2 DEF FileOK
    <3>2. e.route[ids.route[x]] = [branch |-> b, number |-> x.number]
      BY <1>1, <3>1 DEF FileRows
    <3>3. QED
      BY <1>3, <3>1, <3>2
  <2>3. PICK rows : Laid(e.route, d.route, ids.route, rows)
    BY DEF Written
  <2>4. QED
    BY Zenon, <2>1, <2>2, <2>3, LaidTyped
<1>9. e.member \in [DOMAIN e.member -> DOMAIN e.route] /\ DOMAIN e.member \subseteq DOMAIN e.line
  <2>1. e.member = [x \in DOMAIN e.member |-> e.member[x]] /\ DOMAIN e.member = DOMAIN d.member \cup Lines(f, ids)
    BY DEF Written
  <2>2. ASSUME NEW i \in Lines(f, ids) PROVE i \in DOMAIN e.line /\ e.member[i] \in DOMAIN e.route
    <3>1. \A z \in Lines(f, ids) : \E y \in f.routes : (\E r \in y.members : ids.row[r] = z) /\ e.member[z] = ids.route[y]
      BY Zenon DEF Written
    <3>2. PICK y \in f.routes : (\E r \in y.members : ids.row[r] = i) /\ e.member[i] = ids.route[y]
      BY <3>1
    <3>3. y.members \subseteq f.lines
      BY DEF FileOK
    <3>4. QED
      BY ZenonT(30), <1>1, <1>5, <3>2, <3>3 DEF FileRows
  <2>3. ASSUME NEW i \in DOMAIN d.member \ Lines(f, ids) PROVE i \in DOMAIN e.line /\ e.member[i] \in DOMAIN e.route
    <3>1. e.member[i] = d.member[i]
      BY DEF Written
    <3>2. i \in DOMAIN d.line /\ d.member[i] \in DOMAIN d.route
      BY Fields
    <3>3. QED
      BY <1>4, <3>1, <3>2
  <2>4. QED
    BY Zenon, <2>1, <2>2, <2>3
<1>10. e.point \in [DOMAIN e.point -> [branch : DOMAIN e.branch, name : Nat,
                      line : {Null} \cup DOMAIN e.line \cup DOMAIN e.dpd, history : History]]
  <2>1. PICK T : T = [branch : DOMAIN e.branch, name : Nat,
                      line : {Null} \cup DOMAIN e.line \cup DOMAIN e.dpd, history : History]
    BY Zenon
  <2>2. \A i \in DOMAIN d.point : d.point[i] \in T
    BY <1>3, <1>4, <2>1 DEF Sound, Refers
  <2>3. ASSUME NEW k \in DOMAIN ids.point PROVE e.point[ids.point[k]] \in T
    <3>1. /\ k \in DOMAIN f.points /\ f.points[k].name \in Nat /\ f.points[k].history \in History
          /\ f.points[k].ref \in {Null} \cup f.lines \cup DpdRefs(f)
      BY <1>2 DEF FileOK
    <3>2. ids.row[f.points[k].ref] \in {Null} \cup DOMAIN e.line \cup DOMAIN e.dpd
      BY <1>5, <3>1
    <3>3. HistoryOf(d.point, ids.point[k]) \in History \/ HistoryOf(d.point, ids.point[k]) = <<>>
      BY Fields DEF HistoryOf
    <3>4. Over(f.points[k].history, HistoryOf(d.point, ids.point[k])) \in History
      BY <3>1, <3>3, Histories_Over
    <3>5. e.point[ids.point[k]] = [branch |-> b, name |-> f.points[k].name, line |-> ids.row[f.points[k].ref],
                                   history |-> Over(f.points[k].history, HistoryOf(d.point, ids.point[k]))]
      BY SMTT(30), <1>1, <3>1 DEF FileRows
    <3>6. QED
      BY <1>3, <2>1, <3>1, <3>2, <3>4, <3>5
  <2>4. PICK rows : Laid(e.point, d.point, ids.point, rows)
    BY DEF Written
  <2>5. QED
    BY Zenon, <2>1, <2>2, <2>3, <2>4, LaidTyped
<1>11. IsFiniteSet(DOMAIN e.point)
  <2>1. DOMAIN e.point = DOMAIN d.point \cup Range(ids.point)
    BY DEF Written, Laid
  <2>2. IsFiniteSet(DOMAIN d.point)
    BY DEF Sound, Refers
  <2>3. IsFiniteSet(DOMAIN f.points)
    BY DEF FileOK
  <2>4. PICK g : g = [k \in DOMAIN f.points |-> ids.point[k]]
    BY Zenon
  <2>5. g \in Surjection(DOMAIN f.points, Range(ids.point))
    BY <1>2, <2>4 DEF Surjection, Range
  <2>6. IsFiniteSet(Range(ids.point))
    BY <2>3, <2>5, FS_Surjection
  <2>7. QED
    BY Zenon, <2>1, <2>2, <2>6, FS_Union
<1>12. QED
  BY <1>6, <1>7, <1>8, <1>9, <1>10, <1>11

LEMMA WrittenBefore ==
  ASSUME NEW d, NEW n \in Nat, Sound(d, n), NEW f, FileOK(f), NEW b, NEW ids, StandsFor(d, n, f, b, ids),
         NEW e, Written(d, f, b, ids, e)
  PROVE  MadeBefore(e, n + 1)
<1>1. n \in 0 .. (n + 1) - 1 /\ 0 .. n - 1 \subseteq 0 .. (n + 1) - 1
  OBVIOUS
<1> DEFINE N == 0 .. (n + 1) - 1
<1>2. /\ DOMAIN e.branch = DOMAIN d.branch \cup {b} /\ DOMAIN e.lumg = DOMAIN d.lumg \cup Range(ids.lumg)
      /\ DOMAIN e.calc = DOMAIN d.calc \cup Range(ids.calc) /\ DOMAIN e.line = DOMAIN d.line \cup Range(ids.line)
      /\ DOMAIN e.dpd = DOMAIN d.dpd \cup Range(ids.dpd) /\ DOMAIN e.ring = DOMAIN d.ring \cup Range(ids.ring)
      /\ DOMAIN e.route = DOMAIN d.route \cup Range(ids.route) /\ DOMAIN e.point = DOMAIN d.point \cup Range(ids.point)
  BY DEF Written, Laid
<1>3. /\ \A x \in DOMAIN d.branch : x[1] \in 0 .. n - 1
      /\ \A i \in DOMAIN d.point : i[1] \in 0 .. n - 1
      /\ UNION {DOMAIN d.lumg, DOMAIN d.dpd, DOMAIN d.ring, DOMAIN d.route} \subseteq (0 .. n - 1) \X Nat
      /\ DOMAIN d.calc \subseteq (0 .. n - 1) \X Nat \X Nat
      /\ DOMAIN d.line \subseteq (0 .. n - 1) \X Nat \X Nat \X Nat
  BY DEF Sound, MadeBefore
<1> HIDE DEF N
<1>4. n \in N /\ 0 .. n - 1 \subseteq N
  BY <1>1 DEF N
<1>5. /\ (0 .. n - 1) \X Nat \subseteq N \X Nat /\ (0 .. n - 1) \X Nat \X Nat \subseteq N \X Nat \X Nat
      /\ (0 .. n - 1) \X Nat \X Nat \X Nat \subseteq N \X Nat \X Nat \X Nat
  BY <1>4
<1>6. /\ DOMAIN ids.lumg = f.lumgs /\ DOMAIN ids.calc = f.calcs /\ DOMAIN ids.line = f.lines
      /\ DOMAIN ids.dpd = f.dpd /\ DOMAIN ids.ring = f.rings /\ DOMAIN ids.route = f.routes
      /\ DOMAIN ids.point = DOMAIN f.points
  BY DEF StandsFor, LumgsStand, CalcsStand, LinesStand, NamedStand, RoutesStand, PointsStand
<1>7. \A x \in DOMAIN e.branch : x[1] \in N
  <2>1. b \in DOMAIN d.branch \/ b = <<n>>
    BY DEF StandsFor
  <2>2. QED
    BY <1>2, <1>3, <1>4, <2>1
<1>8. \A i \in DOMAIN e.point : i[1] \in N
  <2>1. ASSUME NEW i \in Range(ids.point) PROVE i[1] \in N
    <3>1. PICK k \in DOMAIN f.points : i = ids.point[k]
      BY <1>6 DEF Range
    <3>2. i = <<n, k>> \/ i \in In(d.point, b)
      BY <3>1 DEF StandsFor, PointsStand
    <3>3. QED
      BY <1>3, <1>4, <3>2 DEF In
  <2>2. QED
    BY <1>2, <1>3, <1>4, <2>1
<1>9. Range(ids.lumg) \subseteq N \X Nat
  <2>1. ASSUME NEW x \in f.lumgs PROVE ids.lumg[x] \in N \X Nat
    <3>1. x \in Nat
      BY DEF FileOK
    <3>2. ids.lumg[x] = <<n, x>> \/ ids.lumg[x] \in DOMAIN d.lumg
      BY DEF StandsFor, LumgsStand, LumgsOf
    <3>3. <<n, x>> \in N \X Nat
      BY <1>4, <3>1
    <3>4. DOMAIN d.lumg \subseteq N \X Nat
      BY <1>3, <1>5
    <3>5. QED
      BY <3>2, <3>3, <3>4
  <2>2. QED
    BY <1>6, <2>1 DEF Range
<1>10. Range(ids.dpd) \subseteq N \X Nat
  <2>1. ASSUME NEW x \in f.dpd PROVE ids.dpd[x] \in N \X Nat
    <3>1. x.name \in Nat
      BY DEF FileOK
    <3>2. ids.dpd[x] = <<n, x.name>> \/ ids.dpd[x] \in DOMAIN d.dpd
      BY DEF StandsFor, NamedStand, In
    <3>3. <<n, x.name>> \in N \X Nat
      BY <1>4, <3>1
    <3>4. DOMAIN d.dpd \subseteq N \X Nat
      BY <1>3, <1>5
    <3>5. QED
      BY <3>2, <3>3, <3>4
  <2>2. QED
    BY <1>6, <2>1 DEF Range
<1>11. Range(ids.ring) \subseteq N \X Nat
  <2>1. ASSUME NEW x \in f.rings PROVE ids.ring[x] \in N \X Nat
    <3>1. x.name \in Nat
      BY DEF FileOK
    <3>2. ids.ring[x] = <<n, x.name>> \/ ids.ring[x] \in DOMAIN d.ring
      BY DEF StandsFor, NamedStand, In
    <3>3. <<n, x.name>> \in N \X Nat
      BY <1>4, <3>1
    <3>4. DOMAIN d.ring \subseteq N \X Nat
      BY <1>3, <1>5
    <3>5. QED
      BY <3>2, <3>3, <3>4
  <2>2. QED
    BY <1>6, <2>1 DEF Range
<1>12. Range(ids.route) \subseteq N \X Nat
  <2>1. ASSUME NEW x \in f.routes PROVE ids.route[x] \in N \X Nat
    <3>1. x.number \in Nat
      BY DEF FileOK
    <3>2. ids.route[x] = <<n, x.number>> \/ ids.route[x] \in DOMAIN d.route
      BY DEF StandsFor, RoutesStand, In
    <3>3. <<n, x.number>> \in N \X Nat
      BY <1>4, <3>1
    <3>4. DOMAIN d.route \subseteq N \X Nat
      BY <1>3, <1>5
    <3>5. QED
      BY <3>2, <3>3, <3>4
  <2>2. QED
    BY <1>6, <2>1 DEF Range
<1>13. Range(ids.calc) \subseteq N \X Nat \X Nat
  <2>1. ASSUME NEW c \in f.calcs PROVE ids.calc[c] \in N \X Nat \X Nat
    <3>1. c[1] \in Nat /\ c[2] \in Nat
      BY DEF FileOK
    <3>2. ids.calc[c] = <<n, c[1], c[2]>> \/ ids.calc[c] \in DOMAIN d.calc
      BY DEF StandsFor, CalcsStand
    <3>3. <<n, c[1], c[2]>> \in N \X Nat \X Nat
      BY <1>4, <3>1
    <3>4. QED
      BY <1>3, <1>5, <3>2, <3>3
  <2>2. QED
    BY <1>6, <2>1 DEF Range
<1>14. Range(ids.line) \subseteq N \X Nat \X Nat \X Nat
  <2>1. ASSUME NEW x \in f.lines PROVE ids.line[x] \in N \X Nat \X Nat \X Nat
    <3>1. x[1] \in Nat /\ x[2] \in Nat /\ x[3] \in Nat
      BY DEF FileOK
    <3>2. ids.line[x] = <<n, x[1], x[2], x[3]>> \/ ids.line[x] \in DOMAIN d.line
      BY DEF StandsFor, LinesStand
    <3>3. <<n, x[1], x[2], x[3]>> \in N \X Nat \X Nat \X Nat
      BY <1>4, <3>1
    <3>4. QED
      BY <1>3, <1>5, <3>2, <3>3
  <2>2. QED
    BY <1>6, <2>1 DEF Range
<1>15. /\ UNION {DOMAIN e.lumg, DOMAIN e.dpd, DOMAIN e.ring, DOMAIN e.route} \subseteq N \X Nat
       /\ DOMAIN e.calc \subseteq N \X Nat \X Nat /\ DOMAIN e.line \subseteq N \X Nat \X Nat \X Nat
  <2>1. DOMAIN e.lumg \subseteq N \X Nat /\ DOMAIN e.dpd \subseteq N \X Nat
    BY <1>2, <1>3, <1>5, <1>9, <1>10
  <2>2. DOMAIN e.ring \subseteq N \X Nat /\ DOMAIN e.route \subseteq N \X Nat
    BY <1>2, <1>3, <1>5, <1>11, <1>12
  <2>3. DOMAIN e.calc \subseteq N \X Nat \X Nat /\ DOMAIN e.line \subseteq N \X Nat \X Nat \X Nat
    BY <1>2, <1>3, <1>5, <1>13, <1>14
  <2>4. QED
    BY <2>1, <2>2, <2>3
<1>16. QED
  BY <1>7, <1>8, <1>15 DEF N, MadeBefore

\* The DPD lines of a branch after an import, and its rings, still have names of their own.
LEMMA NamedUnique ==
  ASSUME NEW new, NEW table, NEW n, NEW b, NEW names, NEW found, NEW rows,
         NamedStand(table, n, b, names, found), Laid(new, table, found, rows),
         \A x \in names : new[found[x]].branch = b /\ new[found[x]].name = x.name,
         \A x, y \in names : x.name = y.name => x = y,
         \A i, j \in DOMAIN table : table[i].branch = table[j].branch /\ table[i].name = table[j].name => i = j
  PROVE  \A i, j \in DOMAIN new : new[i].branch = new[j].branch /\ new[i].name = new[j].name => i = j
<1>1. DOMAIN found = names
  BY DEF NamedStand
<1>2. ASSUME NEW i \in DOMAIN new
      PROVE  \/ \E x \in names : i = found[x]
             \/ i \in DOMAIN table \ Range(found) /\ new[i] = table[i]
  BY <1>1 DEF Laid, Range
<1>3. ASSUME NEW i \in DOMAIN table \ Range(found), NEW x \in names
      PROVE  ~(table[i].branch = b /\ table[i].name = x.name)
  <2>1. found[x] \in Range(found)
    BY <1>1 DEF Range
  <2>2. QED
    BY <2>1 DEF NamedStand, In
<1>4. ASSUME NEW i \in DOMAIN new, NEW j \in DOMAIN new, new[i].branch = new[j].branch, new[i].name = new[j].name
      PROVE  i = j
  <2>1. CASE (\E x \in names : i = found[x]) /\ (\E x \in names : j = found[x])
    BY <1>4, <2>1
  <2>2. CASE (\E x \in names : i = found[x]) /\ j \in DOMAIN table \ Range(found) /\ new[j] = table[j]
    <3>1. PICK x \in names : i = found[x]
      BY <2>2
    <3>2. QED
      BY <1>3, <1>4, <2>2, <3>1
  <2>3. CASE (\E x \in names : j = found[x]) /\ i \in DOMAIN table \ Range(found) /\ new[i] = table[i]
    <3>1. PICK x \in names : j = found[x]
      BY <2>3
    <3>2. QED
      BY <1>3, <1>4, <2>3, <3>1
  <2>4. CASE i \in DOMAIN table /\ new[i] = table[i] /\ j \in DOMAIN table /\ new[j] = table[j]
    BY <1>4, <2>4
  <2>5. QED
    BY <1>2, <2>1, <2>2, <2>3, <2>4
<1>5. QED
  BY <1>4

LEMMA WrittenUnique ==
  ASSUME NEW d, NEW n \in Nat, Sound(d, n), NEW f, FileOK(f), NEW b, NEW ids, StandsFor(d, n, f, b, ids),
         NEW e, Written(d, f, b, ids, e),
         \A i, j \in DOMAIN e.calc : i # j /\ e.calc[i].lumg = e.calc[j].lumg => e.calc[i].name # e.calc[j].name
  PROVE  Unique(e)
<1>1. FileRows(d, f, b, ids, e)
  BY FileRowsAre
<1>2. ASSUME NEW i \in DOMAIN e.branch, NEW j \in DOMAIN e.branch, i # j
      PROVE  e.branch[i].uid # e.branch[j].uid /\ e.branch[i].name # e.branch[j].name
  <2>1. /\ DOMAIN e.branch = DOMAIN d.branch \cup {b}
        /\ e.branch[b] = [uid |-> f.uid, name |-> f.name]
        /\ \A x \in DOMAIN d.branch \ {b} : e.branch[x] = d.branch[x]
    BY DEF Written
  <2>2. \A x \in DOMAIN d.branch \ {b} : d.branch[x].uid # f.uid /\ d.branch[x].name # f.name
    BY DEF StandsFor, ByUid, ByName
  <2>3. \A x, y \in DOMAIN d.branch : x # y => d.branch[x].uid # d.branch[y].uid /\ d.branch[x].name # d.branch[y].name
    BY DEF Sound, Unique
  <2>4. e.branch[b].uid = f.uid /\ e.branch[b].name = f.name
    BY <2>1
  <2>5. CASE i = b
    BY <1>2, <2>1, <2>2, <2>4, <2>5
  <2>6. CASE j = b
    BY <1>2, <2>1, <2>2, <2>4, <2>6
  <2>7. CASE i # b /\ j # b
    BY <1>2, <2>1, <2>3, <2>7
  <2>8. QED
    BY <2>5, <2>6, <2>7
<1>3. ASSUME NEW i \in DOMAIN e.lumg, NEW j \in DOMAIN e.lumg,
             e.lumg[i].branch = e.lumg[j].branch, e.lumg[i].name = e.lumg[j].name
      PROVE  i = j
  <2>1. LumgsStand(d, n, f, b, ids)
    BY DEF StandsFor
  <2>2. /\ DOMAIN e.lumg = DOMAIN d.lumg \cup Range(ids.lumg)
        /\ \A x \in DOMAIN d.lumg \ Range(ids.lumg) : e.lumg[x] = d.lumg[x]
    BY DEF Written, Laid
  <2>3. DOMAIN ids.lumg = f.lumgs
    BY <2>1 DEF LumgsStand
  <2>4. \A x \in f.lumgs : e.lumg[ids.lumg[x]].branch = b /\ e.lumg[ids.lumg[x]].name = x
    BY Zenon, <1>1 DEF FileRows
  <2>5. ASSUME NEW l \in DOMAIN d.lumg \ Range(ids.lumg), NEW x \in f.lumgs
        PROVE  ~(d.lumg[l].branch = b /\ d.lumg[l].name = x)
    <3>1. ids.lumg[x] \in Range(ids.lumg)
      BY <2>3 DEF Range
    <3>2. QED
      BY <2>1, <3>1 DEF LumgsStand, LumgsOf
  <2>6. \A l \in DOMAIN e.lumg : (\E x \in f.lumgs : l = ids.lumg[x]) \/ l \in DOMAIN d.lumg \ Range(ids.lumg)
    BY <2>2, <2>3 DEF Range
  <2>7. CASE i \in DOMAIN d.lumg \ Range(ids.lumg) /\ j \in DOMAIN d.lumg \ Range(ids.lumg)
    BY <1>3, <2>2, <2>7 DEF Sound, Unique
  <2>8. CASE i \in DOMAIN d.lumg \ Range(ids.lumg) /\ \E x \in f.lumgs : j = ids.lumg[x]
    BY <1>3, <2>2, <2>4, <2>5, <2>8
  <2>9. CASE j \in DOMAIN d.lumg \ Range(ids.lumg) /\ \E x \in f.lumgs : i = ids.lumg[x]
    BY <1>3, <2>2, <2>4, <2>5, <2>9
  <2>10. CASE (\E x \in f.lumgs : i = ids.lumg[x]) /\ \E x \in f.lumgs : j = ids.lumg[x]
    BY <1>3, <2>4, <2>10
  <2>11. QED
    BY <2>6, <2>7, <2>8, <2>9, <2>10
<1>4. ASSUME NEW i \in DOMAIN e.calc, NEW j \in DOMAIN e.calc, i # j, e.calc[i].lumg = e.calc[j].lumg
      PROVE  e.calc[i].address # e.calc[j].address
  <2> SUFFICES ASSUME e.calc[i].address = e.calc[j].address PROVE FALSE
    OBVIOUS
  <2>1. CalcsStand(d, n, f, ids) /\ LumgsStand(d, n, f, b, ids)
    BY DEF StandsFor
  <2>2. /\ DOMAIN e.calc = DOMAIN d.calc \cup Range(ids.calc)
        /\ \A x \in DOMAIN d.calc \ Range(ids.calc) : e.calc[x] = d.calc[x]
    BY DEF Written, Laid
  <2>3. DOMAIN ids.calc = f.calcs
    BY <2>1 DEF CalcsStand
  <2>4. \A c \in f.calcs : e.calc[ids.calc[c]].lumg = ids.lumg[c[1]] /\ e.calc[ids.calc[c]].address = c[2]
    BY Zenon, <1>1 DEF FileRows
  <2>5. ASSUME NEW x \in DOMAIN d.calc \ Range(ids.calc), NEW c \in f.calcs
        PROVE  ~(d.calc[x].lumg = ids.lumg[c[1]] /\ d.calc[x].address = c[2])
    <3>1. ids.calc[c] \in Range(ids.calc)
      BY <2>3 DEF Range
    <3>2. QED
      BY <2>1, <3>1 DEF CalcsStand
  <2>6. \A x \in DOMAIN e.calc : (\E c \in f.calcs : x = ids.calc[c]) \/ x \in DOMAIN d.calc \ Range(ids.calc)
    BY <2>2, <2>3 DEF Range
  <2>7. CASE i \in DOMAIN d.calc \ Range(ids.calc) /\ j \in DOMAIN d.calc \ Range(ids.calc)
    BY <1>4, <2>2, <2>7 DEF Sound, Unique
  <2>8. CASE i \in DOMAIN d.calc \ Range(ids.calc) /\ \E c \in f.calcs : j = ids.calc[c]
    BY <1>4, <2>2, <2>4, <2>5, <2>8
  <2>9. CASE j \in DOMAIN d.calc \ Range(ids.calc) /\ \E c \in f.calcs : i = ids.calc[c]
    BY <1>4, <2>2, <2>4, <2>5, <2>9
  <2>10. CASE (\E c \in f.calcs : i = ids.calc[c]) /\ \E c \in f.calcs : j = ids.calc[c]
    <3>1. PICK c \in f.calcs, k \in f.calcs : i = ids.calc[c] /\ j = ids.calc[k]
      BY <2>10
    <3>2. ids.lumg[c[1]] = ids.lumg[k[1]] /\ c[2] = k[2]
      BY <1>4, <2>4, <3>1
    <3>3. c[1] = k[1]
      BY <2>1, <3>2 DEF LumgsStand, IsInjective, FileOK
    <3>4. c = k
      BY <3>2, <3>3 DEF FileOK
    <3>5. QED
      BY <1>4, <3>1, <3>4
  <2>11. QED
    BY <2>6, <2>7, <2>8, <2>9, <2>10
<1>5. ASSUME NEW i \in DOMAIN e.line, NEW j \in DOMAIN e.line, e.line[i] = e.line[j]
      PROVE  i = j
  <2>1. LinesStand(d, n, f, ids) /\ CalcsStand(d, n, f, ids)
    BY DEF StandsFor
  <2>2. /\ DOMAIN e.line = DOMAIN d.line \cup Range(ids.line)
        /\ \A x \in DOMAIN d.line \ Range(ids.line) : e.line[x] = d.line[x]
    BY DEF Written, Laid
  <2>3. DOMAIN ids.line = f.lines
    BY <2>1 DEF LinesStand
  <2>4. \A x \in f.lines : e.line[ids.line[x]].calc = ids.of[x] /\ e.line[ids.line[x]].no = x[3]
    BY Zenon, <1>1 DEF FileRows
  <2>5. ASSUME NEW y \in DOMAIN d.line \ Range(ids.line), NEW x \in f.lines
        PROVE  ~(d.line[y].calc = ids.of[x] /\ d.line[y].no = x[3])
    <3>1. ids.line[x] \in Range(ids.line)
      BY <2>3 DEF Range
    <3>2. QED
      BY <2>1, <3>1 DEF LinesStand
  <2>6. \A x \in DOMAIN e.line : (\E c \in f.lines : x = ids.line[c]) \/ x \in DOMAIN d.line \ Range(ids.line)
    BY <2>2, <2>3 DEF Range
  <2>7. CASE i \in DOMAIN d.line \ Range(ids.line) /\ j \in DOMAIN d.line \ Range(ids.line)
    BY <1>5, <2>2, <2>7 DEF Sound, Unique
  <2>8. CASE i \in DOMAIN d.line \ Range(ids.line) /\ \E c \in f.lines : j = ids.line[c]
    BY <1>5, <2>2, <2>4, <2>5, <2>8
  <2>9. CASE j \in DOMAIN d.line \ Range(ids.line) /\ \E c \in f.lines : i = ids.line[c]
    BY <1>5, <2>2, <2>4, <2>5, <2>9
  <2>10. CASE (\E c \in f.lines : i = ids.line[c]) /\ \E c \in f.lines : j = ids.line[c]
    <3>1. PICK x \in f.lines, y \in f.lines : i = ids.line[x] /\ j = ids.line[y]
      BY <2>10
    <3>2. ids.of[x] = ids.of[y] /\ x[3] = y[3]
      BY <1>5, <2>4, <3>1
    <3>3. PICK c \in f.calcs : c[1] = x[1] /\ c[2] = x[2] /\ ids.of[x] = ids.calc[c]
      BY <2>1 DEF LinesStand
    <3>4. PICK k \in f.calcs : k[1] = y[1] /\ k[2] = y[2] /\ ids.of[y] = ids.calc[k]
      BY <2>1 DEF LinesStand
    <3>8. IsInjective(ids.calc) /\ DOMAIN ids.calc = f.calcs
      BY <2>1 DEF CalcsStand
    <3>9. ids.calc[c] = ids.calc[k]
      BY Zenon, <3>2, <3>3, <3>4
    <3>5. c = k
      BY <3>8, <3>9 DEF IsInjective
    <3>6. x = <<x[1], x[2], x[3]>> /\ y = <<y[1], y[2], y[3]>>
      BY DEF FileOK
    <3>7. QED
      BY <3>1, <3>2, <3>3, <3>4, <3>5, <3>6
  <2>11. QED
    BY <2>6, <2>7, <2>8, <2>9, <2>10
<1>6. ASSUME NEW i \in DOMAIN e.route, NEW j \in DOMAIN e.route, e.route[i] = e.route[j]
      PROVE  i = j
  <2>1. RoutesStand(d, n, f, b, ids)
    BY DEF StandsFor
  <2>2. /\ DOMAIN e.route = DOMAIN d.route \cup Range(ids.route)
        /\ \A x \in DOMAIN d.route \ Range(ids.route) : e.route[x] = d.route[x]
    BY DEF Written, Laid
  <2>3. DOMAIN ids.route = f.routes
    BY <2>1 DEF RoutesStand
  <2>4. \A x \in f.routes : e.route[ids.route[x]].branch = b /\ e.route[ids.route[x]].number = x.number
    BY Zenon, <1>1 DEF FileRows
  <2>5. ASSUME NEW y \in DOMAIN d.route \ Range(ids.route), NEW x \in f.routes
        PROVE  ~(d.route[y].branch = b /\ d.route[y].number = x.number)
    <3>1. ids.route[x] \in Range(ids.route)
      BY <2>3 DEF Range
    <3>2. QED
      BY <2>1, <3>1 DEF RoutesStand, In
  <2>6. \A x \in DOMAIN e.route : (\E c \in f.routes : x = ids.route[c]) \/ x \in DOMAIN d.route \ Range(ids.route)
    BY <2>2, <2>3 DEF Range
  <2>7. CASE i \in DOMAIN d.route \ Range(ids.route) /\ j \in DOMAIN d.route \ Range(ids.route)
    BY <1>6, <2>2, <2>7 DEF Sound, Unique
  <2>8. CASE i \in DOMAIN d.route \ Range(ids.route) /\ \E c \in f.routes : j = ids.route[c]
    BY <1>6, <2>2, <2>4, <2>5, <2>8
  <2>9. CASE j \in DOMAIN d.route \ Range(ids.route) /\ \E c \in f.routes : i = ids.route[c]
    BY <1>6, <2>2, <2>4, <2>5, <2>9
  <2>10. CASE (\E c \in f.routes : i = ids.route[c]) /\ \E c \in f.routes : j = ids.route[c]
    <3>1. PICK x \in f.routes, y \in f.routes : i = ids.route[x] /\ j = ids.route[y]
      BY <2>10
    <3>2. x.number = y.number
      BY <1>6, <2>4, <3>1
    <3>3. QED
      BY <3>1, <3>2 DEF FileOK
  <2>11. QED
    BY <2>6, <2>7, <2>8, <2>9, <2>10
<1>7. \A i, j \in DOMAIN e.dpd : e.dpd[i].branch = e.dpd[j].branch /\ e.dpd[i].name = e.dpd[j].name => i = j
  <2>1. NamedStand(d.dpd, n, b, f.dpd, ids.dpd)
    BY DEF StandsFor
  <2>2. PICK rows : Laid(e.dpd, d.dpd, ids.dpd, rows)
    BY SMTT(30) DEF Written
  <2>3. \A x \in f.dpd : e.dpd[ids.dpd[x]].branch = b /\ e.dpd[ids.dpd[x]].name = x.name
    BY Zenon, <1>1 DEF FileRows
  <2>4. \A x, y \in f.dpd : x.name = y.name => x = y
    BY DEF FileOK
  <2>5. \A i, j \in DOMAIN d.dpd : d.dpd[i].branch = d.dpd[j].branch /\ d.dpd[i].name = d.dpd[j].name => i = j
    BY DEF Sound, Unique
  <2>6. QED
    BY <2>1, <2>2, <2>3, <2>4, <2>5, NamedUnique
<1>8. \A i, j \in DOMAIN e.ring : e.ring[i].branch = e.ring[j].branch /\ e.ring[i].name = e.ring[j].name => i = j
  <2>1. NamedStand(d.ring, n, b, f.rings, ids.ring)
    BY DEF StandsFor
  <2>2. PICK rows : Laid(e.ring, d.ring, ids.ring, rows)
    BY DEF Written
  <2>3. \A x \in f.rings : e.ring[ids.ring[x]].branch = b /\ e.ring[ids.ring[x]].name = x.name
    BY Zenon, <1>1 DEF FileRows
  <2>4. \A x, y \in f.rings : x.name = y.name => x = y
    BY DEF FileOK
  <2>5. \A i, j \in DOMAIN d.ring : d.ring[i].branch = d.ring[j].branch /\ d.ring[i].name = d.ring[j].name => i = j
    BY DEF Sound, Unique
  <2>6. QED
    BY <2>1, <2>2, <2>3, <2>4, <2>5, NamedUnique
<1>9. QED
  BY <1>2, <1>3, <1>4, <1>5, <1>6, <1>7, <1>8 DEF Unique

LEMMA WrittenSound ==
  ASSUME NEW d, NEW n \in Nat, Sound(d, n), NEW f, FileOK(f), NEW b, NEW ids, StandsFor(d, n, f, b, ids),
         NEW e, Written(d, f, b, ids, e), NEW up, ~Collides(d, e.calc, up)
  PROVE  Sound(e, n + 1)
<1>1. \A i, j \in DOMAIN e.calc : i # j /\ e.calc[i].lumg = e.calc[j].lumg => e.calc[i].name # e.calc[j].name
  BY DEF Collides
<1>2. Unique(e)
  BY <1>1, WrittenUnique
<1>3. MadeBefore(e, n + 1)
  BY WrittenBefore
<1>4. Refers(e)
  <2>1. /\ e.branch \in [DOMAIN e.branch -> [uid : Nat, name : Nat]]
        /\ e.lumg \in [DOMAIN e.lumg -> [branch : DOMAIN e.branch, name : Nat]]
        /\ e.code \in [DOMAIN e.code -> DOMAIN e.lumg]
        /\ e.calc \in [DOMAIN e.calc -> [lumg : DOMAIN e.lumg, address : Nat, name : Nat]]
        /\ e.line \in [DOMAIN e.line -> [calc : DOMAIN e.calc, no : Nat]]
    BY LumgsTyped
  <2>2. /\ e.dpd \in [DOMAIN e.dpd -> [branch : DOMAIN e.branch, name : Nat,
                                       lumg : {Null} \cup DOMAIN e.lumg, history : History]]
        /\ e.ring \in [DOMAIN e.ring -> [branch : DOMAIN e.branch, name : Nat,
                                         members : SUBSET (DOMAIN e.line \cup DOMAIN e.dpd)]]
        /\ e.route \in [DOMAIN e.route -> [branch : DOMAIN e.branch, number : Nat]]
        /\ e.member \in [DOMAIN e.member -> DOMAIN e.route] /\ DOMAIN e.member \subseteq DOMAIN e.line
        /\ e.point \in [DOMAIN e.point -> [branch : DOMAIN e.branch, name : Nat,
                          line : {Null} \cup DOMAIN e.line \cup DOMAIN e.dpd, history : History]]
        /\ IsFiniteSet(DOMAIN e.point)
    BY PointsTyped
  <2>3. QED
    BY <2>1, <2>2 DEF Refers
<1>5. e = [branch |-> e.branch, lumg |-> e.lumg, code |-> e.code, calc |-> e.calc, line |-> e.line,
           dpd |-> e.dpd, ring |-> e.ring, route |-> e.route, member |-> e.member, point |-> e.point]
  BY DEF Written
<1>6. QED
  BY <1>2, <1>3, <1>4, <1>5 DEF Sound

(* ---- Edits by hand ---- *)

LEMMA DropIs ==
  ASSUME NEW f, NEW S
  PROVE  /\ DOMAIN Drop(f, S) = DOMAIN f \ S
         /\ \A x \in DOMAIN f \ S : Drop(f, S)[x] = f[x]
         /\ Drop(f, S) = [x \in DOMAIN f \ S |-> f[x]]
BY DEF Drop, Restrict

LEMMA MadeLater ==
  ASSUME NEW d, NEW n \in Nat, MadeBefore(d, n), NEW e,
         DOMAIN e.branch \subseteq DOMAIN d.branch, DOMAIN e.lumg \subseteq DOMAIN d.lumg,
         DOMAIN e.dpd \subseteq DOMAIN d.dpd, DOMAIN e.ring \subseteq DOMAIN d.ring,
         DOMAIN e.route \subseteq DOMAIN d.route, DOMAIN e.calc \subseteq DOMAIN d.calc,
         DOMAIN e.line \subseteq DOMAIN d.line \cup {<<n, 0, 0, no>> : no \in Nat},
         DOMAIN e.point \subseteq DOMAIN d.point \cup {<<n, 0>>}
  PROVE  MadeBefore(e, n + 1)
<1>1. PICK N : N = 0 .. (n + 1) - 1
  OBVIOUS
<1>2. n \in N /\ 0 .. n - 1 \subseteq N
  BY <1>1
<1>3. /\ \A b \in DOMAIN d.branch : b[1] \in 0 .. n - 1
      /\ \A i \in DOMAIN d.point : i[1] \in 0 .. n - 1
      /\ UNION {DOMAIN d.lumg, DOMAIN d.dpd, DOMAIN d.ring, DOMAIN d.route} \subseteq (0 .. n - 1) \X Nat
      /\ DOMAIN d.calc \subseteq (0 .. n - 1) \X Nat \X Nat
      /\ DOMAIN d.line \subseteq (0 .. n - 1) \X Nat \X Nat \X Nat
  BY DEF MadeBefore
<1>4. /\ (0 .. n - 1) \X Nat \subseteq N \X Nat /\ (0 .. n - 1) \X Nat \X Nat \subseteq N \X Nat \X Nat
      /\ (0 .. n - 1) \X Nat \X Nat \X Nat \subseteq N \X Nat \X Nat \X Nat
  BY <1>2
<1>5. \A b \in DOMAIN e.branch : b[1] \in N
  BY <1>2, <1>3
<1>6. \A i \in DOMAIN e.point : i[1] \in N
  BY <1>2, <1>3
<1>7. UNION {DOMAIN e.lumg, DOMAIN e.dpd, DOMAIN e.ring, DOMAIN e.route} \subseteq N \X Nat
  BY <1>3, <1>4
<1>8. DOMAIN e.calc \subseteq N \X Nat \X Nat
  BY <1>3, <1>4
<1>9. DOMAIN e.line \subseteq N \X Nat \X Nat \X Nat
  <2>1. \A no \in Nat : <<n, 0, 0, no>> \in N \X Nat \X Nat \X Nat
    BY <1>2
  <2>2. QED
    BY <1>3, <1>4, <2>1
<1>10. QED
  BY Zenon, <1>1, <1>5, <1>6, <1>7, <1>8, <1>9 DEF MadeBefore

LEMMA UpdateBranchSound ==
  ASSUME NEW d, NEW n \in Nat, Sound(d, n), NEW b \in DOMAIN d.branch, NEW name \in BranchNames,
         \A o \in DOMAIN d.branch : d.branch[o].name # name
  PROVE  Sound([d EXCEPT !.branch[b].name = name], n + 1)
<1>1. PICK e : e = [d EXCEPT !.branch[b].name = name]
  BY Zenon
<1>2. /\ e = [branch |-> e.branch, lumg |-> e.lumg, code |-> e.code, calc |-> e.calc, line |-> e.line,
              dpd |-> e.dpd, ring |-> e.ring, route |-> e.route, member |-> e.member, point |-> e.point]
      /\ e.branch = [d.branch EXCEPT ![b].name = name]
      /\ e.lumg = d.lumg /\ e.code = d.code /\ e.calc = d.calc /\ e.line = d.line /\ e.dpd = d.dpd
      /\ e.ring = d.ring /\ e.route = d.route /\ e.member = d.member /\ e.point = d.point
  BY <1>1 DEF Sound
<1>3. name \in Nat
  BY TransferAssumption
<1>4. /\ e.branch \in [DOMAIN d.branch -> [uid : Nat, name : Nat]]
      /\ DOMAIN e.branch = DOMAIN d.branch
  BY SMTT(30), <1>2, <1>3 DEF Sound, Refers
<1>5. MadeBefore(e, n + 1)
  BY <1>2, <1>4, MadeLater DEF Sound
<1>6. Refers(e)
  BY <1>2, <1>4 DEF Sound, Refers
<1>7. Unique(e)
  <2>1. /\ e.branch[b].uid = d.branch[b].uid /\ e.branch[b].name = name
        /\ \A o \in DOMAIN d.branch \ {b} : e.branch[o] = d.branch[o]
    BY <1>2 DEF Sound, Refers
  <2>2. \A i, j \in DOMAIN e.branch :
          i # j => e.branch[i].uid # e.branch[j].uid /\ e.branch[i].name # e.branch[j].name
    <3>1. \A i, j \in DOMAIN d.branch :
            i # j => d.branch[i].uid # d.branch[j].uid /\ d.branch[i].name # d.branch[j].name
      BY DEF Sound, Unique
    <3>2. QED
      BY <1>4, <2>1, <3>1
  <2>3. QED
    BY <1>2, <2>2 DEF Sound, Unique
<1>8. QED
  BY <1>1, <1>2, <1>5, <1>6, <1>7 DEF Sound

LEMMA UpdateLumgSound ==
  ASSUME NEW d, NEW n \in Nat, Sound(d, n), NEW l \in DOMAIN d.lumg, NEW b \in DOMAIN d.branch,
         NEW name \in LumgNames, LumgsNamed(d, b, name) = {}
  PROVE  Sound([d EXCEPT !.lumg[l] = [branch |-> b, name |-> name]], n + 1)
<1>1. PICK e : e = [d EXCEPT !.lumg[l] = [branch |-> b, name |-> name]]
  BY Zenon
<1>2. /\ e = [branch |-> e.branch, lumg |-> e.lumg, code |-> e.code, calc |-> e.calc, line |-> e.line,
              dpd |-> e.dpd, ring |-> e.ring, route |-> e.route, member |-> e.member, point |-> e.point]
      /\ e.lumg = [d.lumg EXCEPT ![l] = [branch |-> b, name |-> name]]
      /\ e.branch = d.branch /\ e.code = d.code /\ e.calc = d.calc /\ e.line = d.line /\ e.dpd = d.dpd
      /\ e.ring = d.ring /\ e.route = d.route /\ e.member = d.member /\ e.point = d.point
  BY <1>1 DEF Sound
<1>3. name \in Nat
  BY TransferAssumption
<1>4. /\ e.lumg \in [DOMAIN d.lumg -> [branch : DOMAIN d.branch, name : Nat]]
      /\ DOMAIN e.lumg = DOMAIN d.lumg
  BY <1>2, <1>3 DEF Sound, Refers
<1>5. MadeBefore(e, n + 1)
  BY <1>2, <1>4, MadeLater DEF Sound
<1>6. Refers(e)
  BY <1>2, <1>4 DEF Sound, Refers
<1>7. Unique(e)
  <2>1. /\ e.lumg[l].branch = b /\ e.lumg[l].name = name
        /\ \A o \in DOMAIN d.lumg \ {l} : e.lumg[o] = d.lumg[o]
    BY <1>2 DEF Sound, Refers
  <2>2. \A i, j \in DOMAIN e.lumg : e.lumg[i].branch = e.lumg[j].branch /\ e.lumg[i].name = e.lumg[j].name => i = j
    <3>1. \A i, j \in DOMAIN d.lumg : d.lumg[i].branch = d.lumg[j].branch /\ d.lumg[i].name = d.lumg[j].name => i = j
      BY DEF Sound, Unique
    <3>2. \A i \in DOMAIN d.lumg : ~(d.lumg[i].branch = b /\ d.lumg[i].name = name)
      BY DEF LumgsNamed, LumgsOf
    <3>3. QED
      BY <1>4, <2>1, <3>1, <3>2
  <2>3. QED
    BY <1>2, <2>2 DEF Sound, Unique
<1>8. QED
  BY <1>1, <1>2, <1>5, <1>6, <1>7 DEF Sound

LEMMA UpdateCalcSound ==
  ASSUME NEW d, NEW n \in Nat, Sound(d, n), NEW c \in DOMAIN d.calc, NEW a \in Addresses, NEW name \in CalcNames,
         \A o \in DOMAIN d.calc \ {c} :
           d.calc[o].lumg = d.calc[c].lumg => d.calc[o].address # a /\ d.calc[o].name # name
  PROVE  Sound([d EXCEPT !.calc[c].address = a, !.calc[c].name = name], n + 1)
<1>1. PICK e : e = [d EXCEPT !.calc[c].address = a, !.calc[c].name = name]
  OBVIOUS
<1>2. /\ e = [branch |-> e.branch, lumg |-> e.lumg, code |-> e.code, calc |-> e.calc, line |-> e.line,
              dpd |-> e.dpd, ring |-> e.ring, route |-> e.route, member |-> e.member, point |-> e.point]
      /\ e.calc = [d.calc EXCEPT ![c].address = a, ![c].name = name]
      /\ e.branch = d.branch /\ e.code = d.code /\ e.lumg = d.lumg /\ e.line = d.line /\ e.dpd = d.dpd
      /\ e.ring = d.ring /\ e.route = d.route /\ e.member = d.member /\ e.point = d.point
  BY Zenon, <1>1 DEF Sound
<1>3. name \in Nat /\ a \in Nat
  BY TransferAssumption
<1>4. /\ e.calc \in [DOMAIN d.calc -> [lumg : DOMAIN d.lumg, address : Nat, name : Nat]]
      /\ DOMAIN e.calc = DOMAIN d.calc
  BY SMTT(30), <1>2, <1>3 DEF Sound, Refers
<1>5. MadeBefore(e, n + 1)
  BY <1>2, <1>4, MadeLater DEF Sound
<1>6. Refers(e)
  BY <1>2, <1>4 DEF Sound, Refers
<1>7. Unique(e)
  <2>1. /\ e.calc[c].lumg = d.calc[c].lumg /\ e.calc[c].address = a /\ e.calc[c].name = name
        /\ \A o \in DOMAIN d.calc \ {c} : e.calc[o] = d.calc[o]
    BY <1>2 DEF Sound, Refers
  <2>2. \A i, j \in DOMAIN e.calc : i # j /\ e.calc[i].lumg = e.calc[j].lumg =>
          e.calc[i].address # e.calc[j].address /\ e.calc[i].name # e.calc[j].name
    <3>1. \A i, j \in DOMAIN d.calc : i # j /\ d.calc[i].lumg = d.calc[j].lumg =>
            d.calc[i].address # d.calc[j].address /\ d.calc[i].name # d.calc[j].name
      BY DEF Sound, Unique
    <3>2. QED
      BY <1>4, <2>1, <3>1
  <2>3. QED
    BY <1>2, <2>2 DEF Sound, Unique
<1>8. QED
  BY <1>1, <1>2, <1>5, <1>6, <1>7 DEF Sound

LEMMA SoundLater ==
  ASSUME NEW d, NEW n \in Nat, Sound(d, n)
  PROVE  Sound(d, n + 1)
<1>1. MadeBefore(d, n + 1)
  BY MadeLater DEF Sound
<1>2. QED
  BY <1>1 DEF Sound

LEMMA MadeFewer ==
  ASSUME NEW d, NEW n \in Nat, MadeBefore(d, n), NEW e,
         DOMAIN e.branch \subseteq DOMAIN d.branch, DOMAIN e.lumg \subseteq DOMAIN d.lumg,
         DOMAIN e.dpd \subseteq DOMAIN d.dpd, DOMAIN e.ring \subseteq DOMAIN d.ring,
         DOMAIN e.route \subseteq DOMAIN d.route, DOMAIN e.calc \subseteq DOMAIN d.calc,
         DOMAIN e.line \subseteq DOMAIN d.line, DOMAIN e.point \subseteq DOMAIN d.point
  PROVE  MadeBefore(e, n)
BY DEF MadeBefore

\* Lines go with what refers to them.
LEMMA DropLinesSound ==
  ASSUME NEW d, NEW n \in Nat, Sound(d, n), NEW S
  PROVE  /\ Sound(DropLines(d, S), n)
         /\ DropLines(d, S).lumg = d.lumg /\ DropLines(d, S).calc = d.calc
         /\ DOMAIN DropLines(d, S).line = DOMAIN d.line \ S
         /\ \A i \in DOMAIN d.line \ S : DropLines(d, S).line[i] = d.line[i]
<1>1. PICK e : e = DropLines(d, S)
  OBVIOUS
<1>2. /\ e = [branch |-> e.branch, lumg |-> e.lumg, code |-> e.code, calc |-> e.calc, line |-> e.line,
              dpd |-> e.dpd, ring |-> e.ring, route |-> e.route, member |-> e.member, point |-> e.point]
      /\ e.line = Drop(d.line, S) /\ e.member = Drop(d.member, S)
      /\ e.ring = Without(d.ring, S)
      /\ e.point = SetNull(d.point, "line", S)
      /\ e.branch = d.branch /\ e.lumg = d.lumg /\ e.code = d.code /\ e.calc = d.calc /\ e.dpd = d.dpd
      /\ e.route = d.route
  <2>1. PICK line, member : line = Drop(d.line, S) /\ member = Drop(d.member, S)
    OBVIOUS
  <2>2. PICK ring : ring = Without(d.ring, S)
    OBVIOUS
  <2>3. PICK point : point = SetNull(d.point, "line", S)
    OBVIOUS
  <2>4. e = [d EXCEPT !.line = line, !.member = member, !.ring = ring, !.point = point]
    BY <1>1, <2>1, <2>2, <2>3 DEF DropLines
  <2>5. d = [branch |-> d.branch, lumg |-> d.lumg, code |-> d.code, calc |-> d.calc, line |-> d.line,
             dpd |-> d.dpd, ring |-> d.ring, route |-> d.route, member |-> d.member, point |-> d.point]
    BY DEF Sound
  <2>6. e = [branch |-> d.branch, lumg |-> d.lumg, code |-> d.code, calc |-> d.calc, line |-> line,
             dpd |-> d.dpd, ring |-> ring, route |-> d.route, member |-> member, point |-> point]
    BY ONLY Zenon, <2>4, <2>5
  <2>7. QED
    BY ONLY <2>1, <2>2, <2>3, <2>6
<1>3. /\ DOMAIN e.line = DOMAIN d.line \ S /\ \A i \in DOMAIN e.line : e.line[i] = d.line[i]
      /\ e.line = [i \in DOMAIN e.line |-> e.line[i]]
  <2>1. PICK f : f = Drop(d.line, S)
    OBVIOUS
  <2>2. /\ DOMAIN f = DOMAIN d.line \ S /\ \A i \in DOMAIN d.line \ S : f[i] = d.line[i]
        /\ f = [i \in DOMAIN f |-> f[i]]
    BY <2>1 DEF Drop, Restrict
  <2>3. QED
    BY <1>2, <2>1, <2>2
<1>4. /\ DOMAIN e.member = DOMAIN d.member \ S /\ \A i \in DOMAIN e.member : e.member[i] = d.member[i]
      /\ e.member = [i \in DOMAIN e.member |-> e.member[i]]
  <2>1. PICK f : f = Drop(d.member, S)
    OBVIOUS
  <2>2. /\ DOMAIN f = DOMAIN d.member \ S /\ \A i \in DOMAIN d.member \ S : f[i] = d.member[i]
        /\ f = [i \in DOMAIN f |-> f[i]]
    BY <2>1 DEF Drop, Restrict
  <2>3. QED
    BY <1>2, <2>1, <2>2
<1>5. e.line \in [DOMAIN e.line -> [calc : DOMAIN e.calc, no : Nat]]
  BY <1>2, <1>3 DEF Sound, Refers
<1>6. e.member \in [DOMAIN e.member -> DOMAIN e.route] /\ DOMAIN e.member \subseteq DOMAIN e.line
  BY <1>2, <1>3, <1>4 DEF Sound, Refers
<1>7. /\ DOMAIN e.ring = DOMAIN d.ring
      /\ e.ring \in [DOMAIN e.ring -> [branch : DOMAIN e.branch, name : Nat,
                                       members : SUBSET (DOMAIN e.line \cup DOMAIN e.dpd)]]
      /\ \A i \in DOMAIN d.ring : e.ring[i].branch = d.ring[i].branch /\ e.ring[i].name = d.ring[i].name
  <2>1. ASSUME NEW i \in DOMAIN d.ring
        PROVE  /\ e.ring[i] \in [branch : DOMAIN e.branch, name : Nat, members : SUBSET (DOMAIN e.line \cup DOMAIN e.dpd)]
               /\ e.ring[i].branch = d.ring[i].branch /\ e.ring[i].name = d.ring[i].name
    <3>1. d.ring[i] \in [branch : DOMAIN d.branch, name : Nat, members : SUBSET (DOMAIN d.line \cup DOMAIN d.dpd)]
      BY DEF Sound, Refers
    <3>2. e.ring[i] = [d.ring[i] EXCEPT !.members = @ \ S]
      BY <1>2 DEF Without
    <3>3. d.ring[i].members \ S \subseteq DOMAIN e.line \cup DOMAIN e.dpd
      BY <1>2, <1>3, <3>1
    <3>4. e.ring[i] = [branch |-> d.ring[i].branch, name |-> d.ring[i].name, members |-> d.ring[i].members \ S]
      BY Zenon, <3>1, <3>2
    <3>5. QED
      BY <1>2, <3>1, <3>3, <3>4
  <2>2. DOMAIN e.ring = DOMAIN d.ring /\ e.ring = [i \in DOMAIN e.ring |-> e.ring[i]]
    BY <1>2 DEF Without
  <2>3. QED
    BY <2>1, <2>2
<1>8. /\ DOMAIN e.point = DOMAIN d.point
      /\ e.point \in [DOMAIN e.point -> [branch : DOMAIN e.branch, name : Nat,
                        line : {Null} \cup DOMAIN e.line \cup DOMAIN e.dpd, history : History]]
  <2>1. ASSUME NEW i \in DOMAIN d.point
        PROVE  e.point[i] \in [branch : DOMAIN e.branch, name : Nat,
                               line : {Null} \cup DOMAIN e.line \cup DOMAIN e.dpd, history : History]
    <3>1. d.point[i] \in [branch : DOMAIN d.branch, name : Nat,
                          line : {Null} \cup DOMAIN d.line \cup DOMAIN d.dpd, history : History]
      BY DEF Sound, Refers
    <3>2. e.point[i] = [d.point[i] EXCEPT !.line = IF @ \in S THEN Null ELSE @]
      BY <1>2 DEF SetNull
    <3>3. PICK x : x = IF d.point[i].line \in S THEN Null ELSE d.point[i].line
      OBVIOUS
    <3>4. x \in {Null} \cup DOMAIN e.line \cup DOMAIN e.dpd
      BY <1>2, <1>3, <3>1, <3>3
    <3>5. e.point[i] = [branch |-> d.point[i].branch, name |-> d.point[i].name, line |-> x,
                        history |-> d.point[i].history]
      BY <3>1, <3>2, <3>3
    <3>6. QED
      BY <1>2, <3>1, <3>4, <3>5
  <2>2. DOMAIN e.point = DOMAIN d.point /\ e.point = [i \in DOMAIN e.point |-> e.point[i]]
    BY <1>2 DEF SetNull
  <2>3. QED
    BY <2>1, <2>2
<1>9. MadeBefore(e, n)
  BY <1>2, <1>3, <1>7, <1>8, MadeFewer DEF Sound
<1>10. Refers(e)
  BY <1>2, <1>5, <1>6, <1>7, <1>8 DEF Sound, Refers
<1>11. Unique(e)
  <2>1. \A i, j \in DOMAIN e.line : e.line[i] = e.line[j] => i = j
    BY <1>3 DEF Sound, Unique
  <2>2. \A i, j \in DOMAIN e.ring : e.ring[i].branch = e.ring[j].branch /\ e.ring[i].name = e.ring[j].name => i = j
    BY <1>7 DEF Sound, Unique
  <2>3. QED
    BY <1>2, <2>1, <2>2 DEF Sound, Unique
<1>12. QED
  BY <1>1, <1>2, <1>3, <1>9, <1>10, <1>11 DEF Sound

LEMMA DeleteLumgSound ==
  ASSUME NEW d, NEW n \in Nat, Sound(d, n), NEW l \in DOMAIN d.lumg, NEW calcs,
         calcs = {c \in DOMAIN d.calc : d.calc[c].lumg = l},
         \A i \in DOMAIN d.line : d.line[i].calc \notin calcs
  PROVE  Sound([d EXCEPT !.lumg = Drop(@, {l}),
                         !.calc = Drop(@, calcs),
                         !.code = Drop(@, {x \in DOMAIN @ : @[x] = l}),
                         !.dpd = SetNull(@, "lumg", {l})], n + 1)
<1>1. PICK e : e = [d EXCEPT !.lumg = Drop(@, {l}),
                             !.calc = Drop(@, calcs),
                             !.code = Drop(@, {x \in DOMAIN @ : @[x] = l}),
                             !.dpd = SetNull(@, "lumg", {l})]
  BY Zenon
<1>0. PICK codes : codes = {x \in DOMAIN d.code : d.code[x] = l}
  BY Zenon
<1>2. /\ e = [branch |-> e.branch, lumg |-> e.lumg, code |-> e.code, calc |-> e.calc, line |-> e.line,
              dpd |-> e.dpd, ring |-> e.ring, route |-> e.route, member |-> e.member, point |-> e.point]
      /\ e.lumg = Drop(d.lumg, {l}) /\ e.calc = Drop(d.calc, calcs) /\ e.code = Drop(d.code, codes)
      /\ e.dpd = SetNull(d.dpd, "lumg", {l})
      /\ e.branch = d.branch /\ e.line = d.line /\ e.ring = d.ring /\ e.point = d.point
      /\ e.route = d.route /\ e.member = d.member
  <2>1. PICK lumg, calc : lumg = Drop(d.lumg, {l}) /\ calc = Drop(d.calc, calcs)
    OBVIOUS
  <2>2. PICK code : code = Drop(d.code, codes)
    OBVIOUS
  <2>3. PICK dpd : dpd = SetNull(d.dpd, "lumg", {l})
    OBVIOUS
  <2>4. e = [d EXCEPT !.lumg = lumg, !.calc = calc, !.code = code, !.dpd = dpd]
    BY <1>0, <1>1, <2>1, <2>2, <2>3
  <2>5. d = [branch |-> d.branch, lumg |-> d.lumg, code |-> d.code, calc |-> d.calc, line |-> d.line,
             dpd |-> d.dpd, ring |-> d.ring, route |-> d.route, member |-> d.member, point |-> d.point]
    BY DEF Sound
  <2>6. e = [branch |-> d.branch, lumg |-> lumg, code |-> code, calc |-> calc, line |-> d.line,
             dpd |-> dpd, ring |-> d.ring, route |-> d.route, member |-> d.member, point |-> d.point]
    BY ONLY Zenon, <2>4, <2>5
  <2>7. QED
    BY ONLY <2>1, <2>2, <2>3, <2>6
<1>3. /\ DOMAIN e.lumg = DOMAIN d.lumg \ {l} /\ \A i \in DOMAIN e.lumg : e.lumg[i] = d.lumg[i]
      /\ e.lumg = [i \in DOMAIN e.lumg |-> e.lumg[i]]
  <2>1. PICK f : f = Drop(d.lumg, {l})
    OBVIOUS
  <2>2. /\ DOMAIN f = DOMAIN d.lumg \ {l} /\ \A i \in DOMAIN d.lumg \ {l} : f[i] = d.lumg[i]
        /\ f = [i \in DOMAIN f |-> f[i]]
    BY <2>1 DEF Drop, Restrict
  <2>3. QED
    BY Zenon, <1>2, <2>1, <2>2
<1>4. /\ DOMAIN e.calc = DOMAIN d.calc \ calcs /\ \A i \in DOMAIN e.calc : e.calc[i] = d.calc[i]
      /\ e.calc = [i \in DOMAIN e.calc |-> e.calc[i]]
  <2>1. PICK f : f = Drop(d.calc, calcs)
    BY Zenon
  <2>2. /\ DOMAIN f = DOMAIN d.calc \ calcs /\ \A i \in DOMAIN d.calc \ calcs : f[i] = d.calc[i]
        /\ f = [i \in DOMAIN f |-> f[i]]
    BY <2>1 DEF Drop, Restrict
  <2>3. QED
    BY Zenon, <1>2, <2>1, <2>2
<1>5. /\ DOMAIN e.code = DOMAIN d.code \ codes /\ \A i \in DOMAIN e.code : e.code[i] = d.code[i]
      /\ e.code = [i \in DOMAIN e.code |-> e.code[i]]
  <2>1. PICK f : f = Drop(d.code, codes)
    OBVIOUS
  <2>2. /\ DOMAIN f = DOMAIN d.code \ codes /\ \A i \in DOMAIN d.code \ codes : f[i] = d.code[i]
        /\ f = [i \in DOMAIN f |-> f[i]]
    BY <2>1 DEF Drop, Restrict
  <2>3. QED
    BY <1>2, <2>1, <2>2
<1>6. e.lumg \in [DOMAIN e.lumg -> [branch : DOMAIN e.branch, name : Nat]]
  <2>1. \A i \in DOMAIN d.lumg : d.lumg[i] \in [branch : DOMAIN d.branch, name : Nat]
    BY DEF Sound, Refers
  <2>2. \A i \in DOMAIN e.lumg : e.lumg[i] \in [branch : DOMAIN e.branch, name : Nat]
    BY Zenon, <1>2, <1>3, <2>1
  <2>3. QED
    BY Zenon, <1>3, <2>2
<1>7. e.code \in [DOMAIN e.code -> DOMAIN e.lumg]
  <2>1. ASSUME NEW x \in DOMAIN e.code PROVE e.code[x] \in DOMAIN e.lumg
    <3>1. x \in DOMAIN d.code /\ d.code[x] # l /\ e.code[x] = d.code[x]
      BY <1>0, <1>5
    <3>2. d.code[x] \in DOMAIN d.lumg
      BY <3>1 DEF Sound, Refers
    <3>3. QED
      BY <1>3, <3>1, <3>2
  <2>2. QED
    BY Zenon, <1>5, <2>1
<1>8. e.calc \in [DOMAIN e.calc -> [lumg : DOMAIN e.lumg, address : Nat, name : Nat]]
  <2>1. ASSUME NEW c \in DOMAIN e.calc PROVE e.calc[c] \in [lumg : DOMAIN e.lumg, address : Nat, name : Nat]
    <3>1. c \in DOMAIN d.calc /\ d.calc[c].lumg # l /\ e.calc[c] = d.calc[c]
      BY <1>4
    <3>2. d.calc[c] \in [lumg : DOMAIN d.lumg, address : Nat, name : Nat]
      BY <3>1 DEF Sound, Refers
    <3>3. QED
      BY <1>3, <3>1, <3>2
  <2>2. QED
    BY Zenon, <1>4, <2>1
<1>9. e.line \in [DOMAIN e.line -> [calc : DOMAIN e.calc, no : Nat]]
  <2>1. ASSUME NEW i \in DOMAIN d.line PROVE d.line[i] \in [calc : DOMAIN e.calc, no : Nat]
    <3>1. d.line[i] \in [calc : DOMAIN d.calc, no : Nat]
      BY DEF Sound, Refers
    <3>2. d.line[i].calc \notin calcs
      OBVIOUS
    <3>3. QED
      BY <1>4, <3>1, <3>2
  <2>2. d.line = [i \in DOMAIN d.line |-> d.line[i]]
    BY DEF Sound, Refers
  <2>3. QED
    BY Zenon, <1>2, <2>1, <2>2
<1>10. /\ DOMAIN e.dpd = DOMAIN d.dpd
       /\ e.dpd \in [DOMAIN e.dpd -> [branch : DOMAIN e.branch, name : Nat,
                                      lumg : {Null} \cup DOMAIN e.lumg, history : History]]
       /\ \A i \in DOMAIN d.dpd : e.dpd[i].branch = d.dpd[i].branch /\ e.dpd[i].name = d.dpd[i].name
  <2>1. ASSUME NEW i \in DOMAIN d.dpd
        PROVE  /\ e.dpd[i] \in [branch : DOMAIN e.branch, name : Nat, lumg : {Null} \cup DOMAIN e.lumg, history : History]
               /\ e.dpd[i].branch = d.dpd[i].branch /\ e.dpd[i].name = d.dpd[i].name
    <3>1. d.dpd[i] \in [branch : DOMAIN d.branch, name : Nat, lumg : {Null} \cup DOMAIN d.lumg, history : History]
      BY DEF Sound, Refers
    <3>2. e.dpd[i] = [d.dpd[i] EXCEPT !.lumg = IF @ \in {l} THEN Null ELSE @]
      BY <1>2 DEF SetNull
    <3>3. PICK x : x = IF d.dpd[i].lumg = l THEN Null ELSE d.dpd[i].lumg
      OBVIOUS
    <3>4. x \in {Null} \cup DOMAIN e.lumg
      BY <1>3, <3>1, <3>3
    <3>5. e.dpd[i] = [branch |-> d.dpd[i].branch, name |-> d.dpd[i].name, lumg |-> x, history |-> d.dpd[i].history]
      BY <3>1, <3>2, <3>3
    <3>6. QED
      BY <1>2, <3>1, <3>4, <3>5
  <2>2. DOMAIN e.dpd = DOMAIN d.dpd /\ e.dpd = [i \in DOMAIN e.dpd |-> e.dpd[i]]
    BY <1>2 DEF SetNull
  <2>3. QED
    BY <2>1, <2>2
<1>11. MadeBefore(e, n + 1)
  BY <1>2, <1>3, <1>4, <1>10, MadeLater DEF Sound
<1>12. Refers(e)
  <2>1. e.ring \in [DOMAIN e.ring -> [branch : DOMAIN e.branch, name : Nat, members : SUBSET (DOMAIN e.line \cup DOMAIN e.dpd)]]
    BY <1>2, <1>10 DEF Sound, Refers
  <2>2. e.point \in [DOMAIN e.point -> [branch : DOMAIN e.branch, name : Nat,
                       line : {Null} \cup DOMAIN e.line \cup DOMAIN e.dpd, history : History]]
    BY <1>2, <1>10 DEF Sound, Refers
  <2>3. /\ e.branch \in [DOMAIN e.branch -> [uid : Nat, name : Nat]]
        /\ e.route \in [DOMAIN e.route -> [branch : DOMAIN e.branch, number : Nat]]
        /\ e.member \in [DOMAIN e.member -> DOMAIN e.route] /\ DOMAIN e.member \subseteq DOMAIN e.line
        /\ IsFiniteSet(DOMAIN e.point)
    BY <1>2 DEF Sound, Refers
  <2>4. QED
    BY <1>6, <1>7, <1>8, <1>9, <1>10, <2>1, <2>2, <2>3 DEF Refers
<1>13. Unique(e)
  <2>1. \A i, j \in DOMAIN e.lumg : e.lumg[i].branch = e.lumg[j].branch /\ e.lumg[i].name = e.lumg[j].name => i = j
    BY <1>3 DEF Sound, Unique
  <2>2. \A i, j \in DOMAIN e.calc : i # j /\ e.calc[i].lumg = e.calc[j].lumg =>
          e.calc[i].address # e.calc[j].address /\ e.calc[i].name # e.calc[j].name
    BY <1>4 DEF Sound, Unique
  <2>3. \A i, j \in DOMAIN e.dpd : e.dpd[i].branch = e.dpd[j].branch /\ e.dpd[i].name = e.dpd[j].name => i = j
    BY <1>10 DEF Sound, Unique
  <2>4. /\ \A i, j \in DOMAIN e.branch :
             i # j => e.branch[i].uid # e.branch[j].uid /\ e.branch[i].name # e.branch[j].name
        /\ \A i, j \in DOMAIN e.line : e.line[i] = e.line[j] => i = j
        /\ \A i, j \in DOMAIN e.route : e.route[i] = e.route[j] => i = j
        /\ \A i, j \in DOMAIN e.ring : e.ring[i].branch = e.ring[j].branch /\ e.ring[i].name = e.ring[j].name => i = j
    BY <1>2 DEF Sound, Unique
  <2>5. QED
    BY <2>1, <2>2, <2>3, <2>4 DEF Unique
<1>14. QED
  BY <1>1, <1>2, <1>11, <1>12, <1>13 DEF Sound

LEMMA CreateLineSound ==
  ASSUME NEW d, NEW n \in Nat, Sound(d, n), NEW c \in DOMAIN d.calc, NEW no \in LineNos,
         \A i \in DOMAIN d.line : d.line[i].calc = c => d.line[i].no # no
  PROVE  Sound([d EXCEPT !.line = Over(One(<<n, 0, 0, no>>, [calc |-> c, no |-> no]), @)], n + 1)
<1>1. PICK e : e = [d EXCEPT !.line = Over(One(<<n, 0, 0, no>>, [calc |-> c, no |-> no]), @)]
  BY Zenon
<1>2. PICK new : new = Over(One(<<n, 0, 0, no>>, [calc |-> c, no |-> no]), d.line)
  OBVIOUS
<1>3. /\ e = [branch |-> e.branch, lumg |-> e.lumg, code |-> e.code, calc |-> e.calc, line |-> e.line,
              dpd |-> e.dpd, ring |-> e.ring, route |-> e.route, member |-> e.member, point |-> e.point]
      /\ e.line = new
      /\ e.branch = d.branch /\ e.lumg = d.lumg /\ e.code = d.code /\ e.calc = d.calc /\ e.dpd = d.dpd
      /\ e.ring = d.ring /\ e.route = d.route /\ e.member = d.member /\ e.point = d.point
  <2>1. e = [d EXCEPT !.line = new]
    BY <1>1, <1>2
  <2>2. d = [branch |-> d.branch, lumg |-> d.lumg, code |-> d.code, calc |-> d.calc, line |-> d.line,
             dpd |-> d.dpd, ring |-> d.ring, route |-> d.route, member |-> d.member, point |-> d.point]
    BY DEF Sound
  <2>3. QED
    BY ONLY <2>1, <2>2
<1>4. no \in Nat
  BY TransferAssumption
<1>5. PICK i : i = <<n, 0, 0, no>>
  BY Zenon
<1>6. /\ new = [x \in DOMAIN new |-> new[x]]
      /\ DOMAIN new = DOMAIN d.line \cup {i} /\ i \notin DOMAIN d.line
      /\ new[i] = [calc |-> c, no |-> no]
      /\ \A x \in DOMAIN d.line : new[x] = d.line[x]
  <2>1. i \notin DOMAIN d.line
    BY Zenon, <1>5, NewIsNew DEF Sound
  <2>2. PICK one : one = One(i, [calc |-> c, no |-> no])
    OBVIOUS
  <2>3. DOMAIN one = {i} /\ one[i] = [calc |-> c, no |-> no]
    BY <2>2 DEF One
  <2>4. new = Over(one, d.line)
    BY <1>2, <1>5, <2>2
  <2>5. QED
    BY <2>1, <2>3, <2>4 DEF Over
<1>7. MadeBefore(e, n + 1)
  <2>1. DOMAIN e.line \subseteq DOMAIN d.line \cup {<<n, 0, 0, x>> : x \in Nat}
    BY <1>3, <1>4, <1>5, <1>6
  <2>2. QED
    BY <1>3, <2>1, MadeLater DEF Sound
<1>8. Refers(e)
  <2>1. \A x \in DOMAIN d.line : d.line[x] \in [calc : DOMAIN d.calc, no : Nat]
    BY DEF Sound, Refers
  <2>2. \A x \in DOMAIN e.line : e.line[x] \in [calc : DOMAIN e.calc, no : Nat]
    BY <1>3, <1>4, <1>6, <2>1
  <2>3. e.line \in [DOMAIN e.line -> [calc : DOMAIN e.calc, no : Nat]]
    BY <1>3, <1>6, <2>2
  <2>4. DOMAIN d.line \subseteq DOMAIN e.line
    BY <1>3, <1>6
  <2>5. e.ring \in [DOMAIN e.ring -> [branch : DOMAIN e.branch, name : Nat, members : SUBSET (DOMAIN e.line \cup DOMAIN e.dpd)]]
    <3>1. ASSUME NEW r \in DOMAIN d.ring
          PROVE  d.ring[r] \in [branch : DOMAIN e.branch, name : Nat, members : SUBSET (DOMAIN e.line \cup DOMAIN e.dpd)]
      <4>1. d.ring[r] \in [branch : DOMAIN d.branch, name : Nat, members : SUBSET (DOMAIN d.line \cup DOMAIN d.dpd)]
        BY DEF Sound, Refers
      <4>2. QED
        BY <1>3, <2>4, <4>1
    <3>2. d.ring = [r \in DOMAIN d.ring |-> d.ring[r]]
      BY DEF Sound, Refers
    <3>3. QED
      BY <1>3, <3>1, <3>2
  <2>6. e.point \in [DOMAIN e.point -> [branch : DOMAIN e.branch, name : Nat,
                       line : {Null} \cup DOMAIN e.line \cup DOMAIN e.dpd, history : History]]
    <3>1. ASSUME NEW p \in DOMAIN d.point
          PROVE  d.point[p] \in [branch : DOMAIN e.branch, name : Nat,
                                 line : {Null} \cup DOMAIN e.line \cup DOMAIN e.dpd, history : History]
      <4>1. d.point[p] \in [branch : DOMAIN d.branch, name : Nat,
                            line : {Null} \cup DOMAIN d.line \cup DOMAIN d.dpd, history : History]
        BY DEF Sound, Refers
      <4>2. QED
        BY <1>3, <2>4, <4>1
    <3>2. d.point = [p \in DOMAIN d.point |-> d.point[p]]
      BY DEF Sound, Refers
    <3>3. QED
      BY <1>3, <3>1, <3>2
  <2>7. /\ e.branch \in [DOMAIN e.branch -> [uid : Nat, name : Nat]]
        /\ e.lumg \in [DOMAIN e.lumg -> [branch : DOMAIN e.branch, name : Nat]]
        /\ e.code \in [DOMAIN e.code -> DOMAIN e.lumg]
        /\ e.calc \in [DOMAIN e.calc -> [lumg : DOMAIN e.lumg, address : Nat, name : Nat]]
        /\ e.dpd \in [DOMAIN e.dpd -> [branch : DOMAIN e.branch, name : Nat,
                                       lumg : {Null} \cup DOMAIN e.lumg, history : History]]
        /\ e.route \in [DOMAIN e.route -> [branch : DOMAIN e.branch, number : Nat]]
        /\ e.member \in [DOMAIN e.member -> DOMAIN e.route] /\ DOMAIN e.member \subseteq DOMAIN e.line
        /\ IsFiniteSet(DOMAIN e.point)
    BY <1>3, <2>4 DEF Sound, Refers
  <2>8. QED
    BY <2>3, <2>5, <2>6, <2>7 DEF Refers
<1>9. Unique(e)
  <2>1. \A x \in DOMAIN d.line : d.line[x].calc = c => d.line[x].no # no
    OBVIOUS
  <2>2. new[i].calc = c /\ new[i].no = no
    BY <1>6
  <2>3. \A x, y \in DOMAIN d.line : d.line[x] = d.line[y] => x = y
    BY DEF Sound, Unique
  <2>4. \A x, y \in DOMAIN e.line : e.line[x] = e.line[y] => x = y
    BY <1>3, <1>6, <2>1, <2>2, <2>3
  <2>5. QED
    BY <1>3, <2>4 DEF Sound, Unique
<1>10. QED
  BY <1>1, <1>3, <1>7, <1>8, <1>9 DEF Sound

LEMMA DeleteLineSound ==
  ASSUME NEW d, NEW n \in Nat, Sound(d, n), NEW S
  PROVE  Sound(DropLines(d, S), n + 1)
BY DropLinesSound, SoundLater

LEMMA UpdateRouteSound ==
  ASSUME NEW d, NEW n \in Nat, Sound(d, n), NEW r \in DOMAIN d.route, NEW b,
         NEW made, DOMAIN made \subseteq LinesOf(d, b), \A i \in DOMAIN made : made[i] = r, NEW gone
  PROVE  Sound([d EXCEPT !.member = Over(made, Drop(@, gone))], n + 1)
<1>1. PICK e : e = [d EXCEPT !.member = Over(made, Drop(@, gone))]
  BY Zenon
<1>2. PICK new : new = Over(made, Drop(d.member, gone))
  OBVIOUS
<1>3. /\ e = [branch |-> e.branch, lumg |-> e.lumg, code |-> e.code, calc |-> e.calc, line |-> e.line,
              dpd |-> e.dpd, ring |-> e.ring, route |-> e.route, member |-> e.member, point |-> e.point]
      /\ e.member = new
      /\ e.branch = d.branch /\ e.lumg = d.lumg /\ e.code = d.code /\ e.calc = d.calc /\ e.line = d.line
      /\ e.dpd = d.dpd /\ e.ring = d.ring /\ e.route = d.route /\ e.point = d.point
  <2>1. e = [d EXCEPT !.member = new]
    BY <1>1, <1>2
  <2>2. d = [branch |-> d.branch, lumg |-> d.lumg, code |-> d.code, calc |-> d.calc, line |-> d.line,
             dpd |-> d.dpd, ring |-> d.ring, route |-> d.route, member |-> d.member, point |-> d.point]
    BY DEF Sound
  <2>3. QED
    BY ONLY <2>1, <2>2
<1>4. PICK kept : kept = Drop(d.member, gone)
  OBVIOUS
<1>5. /\ DOMAIN kept \subseteq DOMAIN d.member
      /\ \A i \in DOMAIN kept : kept[i] = d.member[i]
  BY <1>4 DEF Drop, Restrict
<1>6. e.member \in [DOMAIN e.member -> DOMAIN e.route] /\ DOMAIN e.member \subseteq DOMAIN e.line
  <2>3. new = Over(made, kept)
    BY <1>2, <1>4
  <2>4. /\ new = [x \in DOMAIN new |-> new[x]]
        /\ DOMAIN new = DOMAIN made \cup DOMAIN kept
        /\ \A x \in DOMAIN new : new[x] = r \/ (x \in DOMAIN kept /\ new[x] = kept[x])
    BY <2>3 DEF Over
  <2>5. /\ \A i \in DOMAIN d.member : d.member[i] \in DOMAIN d.route
        /\ DOMAIN d.member \subseteq DOMAIN d.line
    BY DEF Sound, Refers
  <2>6. DOMAIN made \subseteq DOMAIN d.line
    BY DEF LinesOf
  <2>7. \A x \in DOMAIN new : new[x] \in DOMAIN d.route
    BY <1>5, <2>4, <2>5
  <2>8. QED
    BY <1>3, <1>5, <2>4, <2>5, <2>6, <2>7
<1>7. MadeBefore(e, n + 1)
  BY <1>3, MadeLater DEF Sound
<1>8. Refers(e)
  BY <1>3, <1>6 DEF Sound, Refers
<1>9. Unique(e)
  BY <1>3 DEF Sound, Unique
<1>10. QED
  BY <1>1, <1>3, <1>7, <1>8, <1>9 DEF Sound

LEMMA UpdateRingSound ==
  ASSUME NEW d, NEW n \in Nat, Sound(d, n), NEW r \in DOMAIN d.ring, NEW line \in DOMAIN d.line \cup DOMAIN d.dpd
  PROVE  Sound([d EXCEPT !.ring[r].members = {line}], n + 1)
<1>1. PICK e : e = [d EXCEPT !.ring[r].members = {line}]
  BY Zenon
<1>2. PICK new : new = [d.ring EXCEPT ![r].members = {line}]
  BY Zenon
<1>3. /\ e = [branch |-> e.branch, lumg |-> e.lumg, code |-> e.code, calc |-> e.calc, line |-> e.line,
              dpd |-> e.dpd, ring |-> e.ring, route |-> e.route, member |-> e.member, point |-> e.point]
      /\ e.ring = new
      /\ e.branch = d.branch /\ e.lumg = d.lumg /\ e.code = d.code /\ e.calc = d.calc /\ e.line = d.line
      /\ e.dpd = d.dpd /\ e.route = d.route /\ e.member = d.member /\ e.point = d.point
  <2>1. e = [d EXCEPT !.ring = new]
    BY <1>1, <1>2
  <2>2. d = [branch |-> d.branch, lumg |-> d.lumg, code |-> d.code, calc |-> d.calc, line |-> d.line,
             dpd |-> d.dpd, ring |-> d.ring, route |-> d.route, member |-> d.member, point |-> d.point]
    BY DEF Sound
  <2>3. QED
    BY ONLY <2>1, <2>2
<1>4. /\ \A x \in DOMAIN d.ring : d.ring[x] \in [branch : DOMAIN d.branch, name : Nat,
                                                    members : SUBSET (DOMAIN d.line \cup DOMAIN d.dpd)]
      /\ d.ring = [x \in DOMAIN d.ring |-> d.ring[x]]
  BY DEF Sound, Refers
<1>5. /\ DOMAIN new = DOMAIN d.ring /\ new = [x \in DOMAIN new |-> new[x]]
      /\ new[r] = [d.ring[r] EXCEPT !.members = {line}]
      /\ \A x \in DOMAIN d.ring \ {r} : new[x] = d.ring[x]
  BY Zenon, <1>2, <1>4
<1>6. /\ \A x \in DOMAIN new : new[x] \in [branch : DOMAIN d.branch, name : Nat,
                                            members : SUBSET (DOMAIN d.line \cup DOMAIN d.dpd)]
      /\ \A x \in DOMAIN new : new[x].branch = d.ring[x].branch /\ new[x].name = d.ring[x].name
  BY <1>4, <1>5
<1>7. MadeBefore(e, n + 1)
  BY <1>3, <1>5, MadeLater DEF Sound
<1>8. Refers(e)
  <2>1. e.ring \in [DOMAIN e.ring -> [branch : DOMAIN e.branch, name : Nat, members : SUBSET (DOMAIN e.line \cup DOMAIN e.dpd)]]
    BY <1>3, <1>5, <1>6
  <2>2. QED
    BY <1>3, <2>1 DEF Sound, Refers
<1>9. Unique(e)
  <2>1. \A i, j \in DOMAIN d.ring : d.ring[i].branch = d.ring[j].branch /\ d.ring[i].name = d.ring[j].name => i = j
    BY DEF Sound, Unique
  <2>2. \A i, j \in DOMAIN e.ring : e.ring[i].branch = e.ring[j].branch /\ e.ring[i].name = e.ring[j].name => i = j
    BY <1>3, <1>5, <1>6, <2>1
  <2>3. QED
    BY <1>3, <2>2 DEF Sound, Unique
<1>10. QED
  BY <1>1, <1>3, <1>7, <1>8, <1>9 DEF Sound

\* Points may change in any way that keeps them typed: they have no unique index.
LEMMA PointsSound ==
  ASSUME NEW d, NEW n \in Nat, Sound(d, n), NEW new, new \in [DOMAIN new -> [branch : DOMAIN d.branch, name : Nat, line : {Null} \cup DOMAIN d.line \cup DOMAIN d.dpd, history : History]],
         DOMAIN new \subseteq DOMAIN d.point \cup {<<n, 0>>}
  PROVE  Sound([d EXCEPT !.point = new], n + 1)
<1>1. PICK e : e = [d EXCEPT !.point = new]
  BY Zenon
<1>3. /\ e = [branch |-> e.branch, lumg |-> e.lumg, code |-> e.code, calc |-> e.calc, line |-> e.line,
              dpd |-> e.dpd, ring |-> e.ring, route |-> e.route, member |-> e.member, point |-> e.point]
      /\ e.point = new
      /\ e.branch = d.branch /\ e.lumg = d.lumg /\ e.code = d.code /\ e.calc = d.calc /\ e.line = d.line
      /\ e.dpd = d.dpd /\ e.ring = d.ring /\ e.route = d.route /\ e.member = d.member
  <2>1. e = [d EXCEPT !.point = new]
    BY <1>1
  <2>2. d = [branch |-> d.branch, lumg |-> d.lumg, code |-> d.code, calc |-> d.calc, line |-> d.line,
             dpd |-> d.dpd, ring |-> d.ring, route |-> d.route, member |-> d.member, point |-> d.point]
    BY DEF Sound
  <2>3. QED
    BY ONLY <2>1, <2>2
<1>7. MadeBefore(e, n + 1)
  BY <1>3, MadeLater DEF Sound
<1>8. Refers(e)
  <2>1. IsFiniteSet(DOMAIN new)
    <3>1. IsFiniteSet(DOMAIN d.point)
      BY DEF Sound, Refers
    <3>2. IsFiniteSet({<<n, 0>>})
      BY Zenon, FS_Singleton
    <3>3. IsFiniteSet(DOMAIN d.point \cup {<<n, 0>>})
      BY Zenon, <3>1, <3>2, FS_Union
    <3>4. QED
      BY <3>3, FS_Subset
  <2>2. QED
    BY <1>3, <2>1 DEF Sound, Refers
<1>9. Unique(e)
  BY <1>3 DEF Sound, Unique
<1>10. QED
  BY <1>1, <1>3, <1>7, <1>8, <1>9 DEF Sound

LEMMA CreatePointSound ==
  ASSUME NEW d, NEW n \in Nat, Sound(d, n), NEW b \in DOMAIN d.branch, NEW h \in Histories
  PROVE  Sound([d EXCEPT !.point = Over(One(<<n, 0>>, [branch |-> b, name |-> 1, line |-> Null, history |-> h]), @)], n + 1)
<1>1. PICK row : row = [branch |-> b, name |-> 1, line |-> Null, history |-> h]
  BY Zenon
<1>2. PICK T : T = [branch : DOMAIN d.branch, name : Nat, line : {Null} \cup DOMAIN d.line \cup DOMAIN d.dpd, history : History]
  BY Zenon
<1>3. row \in T
  BY <1>1, <1>2, TransferAssumption
<1>4. \A p \in DOMAIN d.point : d.point[p] \in T
  BY <1>2 DEF Sound, Refers
<1>5. PICK new : new = Over(One(<<n, 0>>, row), d.point)
  OBVIOUS
<1>6. PICK one : one = One(<<n, 0>>, row)
  OBVIOUS
<1>7. DOMAIN one = {<<n, 0>>} /\ one[<<n, 0>>] = row
  BY <1>6 DEF One
<1>8. /\ new = [x \in DOMAIN new |-> new[x]]
      /\ DOMAIN new = DOMAIN d.point \cup {<<n, 0>>}
      /\ \A x \in DOMAIN new : new[x] = row \/ (x \in DOMAIN d.point /\ new[x] = d.point[x])
  BY <1>5, <1>6, <1>7 DEF Over
<1>9. new \in [DOMAIN new -> T]
  BY <1>3, <1>4, <1>8
<1>10. Sound([d EXCEPT !.point = new], n + 1)
  BY <1>2, <1>8, <1>9, PointsSound
<1>11. QED
  BY <1>1, <1>5, <1>10

LEMMA UpdatePointSound ==
  ASSUME NEW d, NEW n \in Nat, Sound(d, n), NEW p \in DOMAIN d.point
  PROVE  /\ \A h \in Histories : Sound([d EXCEPT !.point[p].history = h], n + 1)
         /\ \A line \in {Null} \cup DOMAIN d.line \cup DOMAIN d.dpd : Sound([d EXCEPT !.point[p].line = line], n + 1)
<1>1. PICK T : T = [branch : DOMAIN d.branch, name : Nat, line : {Null} \cup DOMAIN d.line \cup DOMAIN d.dpd, history : History]
  BY Zenon
<1>2. d.point \in [DOMAIN d.point -> T]
  BY <1>1 DEF Sound, Refers
<1>3. ASSUME NEW h \in Histories PROVE Sound([d EXCEPT !.point[p].history = h], n + 1)
  <2>1. PICK new : new = [d.point EXCEPT ![p].history = h]
    BY Zenon
  <2>2. h \in History
    BY TransferAssumption
  <2>3. [d.point[p] EXCEPT !.history = h] \in T
    BY <1>1, <1>2, <2>2
  <2>4. new \in [DOMAIN new -> T] /\ DOMAIN new = DOMAIN d.point
    BY <1>2, <2>1, <2>3
  <2>5. Sound([d EXCEPT !.point = new], n + 1)
    BY <1>1, <2>4, PointsSound
  <2>6. QED
    BY <2>1, <2>5
<1>4. ASSUME NEW line \in {Null} \cup DOMAIN d.line \cup DOMAIN d.dpd
      PROVE  Sound([d EXCEPT !.point[p].line = line], n + 1)
  <2>1. PICK new : new = [d.point EXCEPT ![p].line = line]
    BY Zenon
  <2>3. [d.point[p] EXCEPT !.line = line] \in T
    BY <1>1, <1>2
  <2>4. new \in [DOMAIN new -> T] /\ DOMAIN new = DOMAIN d.point
    BY <1>2, <2>1, <2>3
  <2>5. Sound([d EXCEPT !.point = new], n + 1)
    BY <1>1, <2>4, PointsSound
  <2>6. QED
    BY <2>1, <2>5
<1>5. QED
  BY Zenon, <1>3, <1>4

LEMMA DeletePointSound ==
  ASSUME NEW d, NEW n \in Nat, Sound(d, n), NEW S
  PROVE  Sound([d EXCEPT !.point = Drop(@, S)], n + 1)
<1>1. PICK T : T = [branch : DOMAIN d.branch, name : Nat, line : {Null} \cup DOMAIN d.line \cup DOMAIN d.dpd, history : History]
  BY Zenon
<1>2. d.point \in [DOMAIN d.point -> T]
  BY <1>1 DEF Sound, Refers
<1>3. PICK new : new = Drop(d.point, S)
  OBVIOUS
<1>4. /\ new = [x \in DOMAIN new |-> new[x]] /\ DOMAIN new \subseteq DOMAIN d.point
      /\ \A x \in DOMAIN new : new[x] = d.point[x]
  BY <1>3 DEF Drop, Restrict
<1>5. new \in [DOMAIN new -> T]
  BY <1>2, <1>4
<1>6. Sound([d EXCEPT !.point = new], n + 1)
  BY <1>1, <1>4, <1>5, PointsSound
<1>7. QED
  BY <1>3, <1>6

(* ---- Steps ---- *)

FilesOK == \A f \in files : FileOK(f)

TransferInv == TransferTypeOK /\ FilesOK

\* An import that is not refused, of a file into the branch b of the tables d.
Merged(d, n, f, b, ids, e) ==
  /\ Sound(d, n) /\ FileOK(f) /\ StandsFor(d, n, f, b, ids) /\ Written(d, f, b, ids, e) /\ Sound(e, n + 1)
  /\ \E lumgMap : ids = Stand(d, n, f, b, lumgMap)
  /\ ~Ambiguous(f.points)

LEMMA ImportEither ==
  ASSUME TransferInv, NEW s \in Servers, import(s)
  PROVE  /\ imports' = imports + 1 /\ files' = files /\ edits' = edits
         /\ \/ db' = db /\ report'.server = s /\ report'.ok = FALSE
            \/ \E f \in files : \E b, ids, e :
                 /\ Merged(db[s], Serial, f, b, ids, e)
                 /\ db' = [db EXCEPT ![s] = e]
                 /\ report' = [server |-> s, ok |-> TRUE, file |-> f, branch |-> b,
                               left |-> Left(db[s], b, ids), extra |-> Extra(db[s], f, ids)]
<1>1. imports' = imports + 1 /\ files' = files /\ edits' = edits
  BY DEF import
<1>0. PICK f \in files : \E pick \in Choices(db[s], f) : import_branch(s, f, pick[1], pick[2])
  BY DEF import
<1>2. PICK pick \in Choices(db[s], f) : import_branch(s, f, pick[1], pick[2])
  BY <1>0
<1>3. PICK choice, lumgMap : choice = pick[1] /\ lumgMap = pick[2]
  OBVIOUS
<1>4. choice \in {FromFile, New} \cup DOMAIN db[s].branch
  BY <1>3 DEF Choices
<1>5. PICK d, n : d = db[s] /\ n = Serial
  OBVIOUS
<1>6. Sound(d, n) /\ n \in Nat /\ FileOK(f)
  BY <1>5 DEF TransferInv, TransferTypeOK, FilesOK, Serial
<1>7. PICK b : b = Branch(d, f, n, choice)
  OBVIOUS
<1>8. import_branch(s, f, choice, lumgMap)
  BY <1>2, <1>3
<1>9. CASE Refuse(s, f)
  BY <1>1, <1>9 DEF Refuse
<1>10. CASE ~Refuse(s, f)
  <2>1. PICK m : m = Merge(d, n, f, choice, lumgMap)
    OBVIOUS
  <2>2. ~Refused(d, f, b, choice, lumgMap) /\ (\E up \in BOOLEAN : ~Collides(d, m.db.calc, up)) /\ Apply(s, f, m)
    BY <1>5, <1>7, <1>8, <1>10, <2>1 DEF import_branch
  <2>3. PICK ids : ids = Stand(d, n, f, b, lumgMap)
    OBVIOUS
  <2>4. StandsFor(d, n, f, b, ids)
    BY <1>4, <1>5, <1>6, <1>7, <2>2, <2>3, MergeStands
  <2>5. PICK e : e = Write(d, f, b, ids)
    OBVIOUS
  <2>6. Written(d, f, b, ids, e)
    BY <2>4, <2>5, WriteIs
  <2>7. m = [branch |-> b, db |-> e, left |-> Left(d, b, ids), extra |-> Extra(d, f, ids)]
    BY <1>7, <2>1, <2>3, <2>5 DEF Merge
  <2>8. m.branch = b /\ m.db = e /\ m.left = Left(d, b, ids) /\ m.extra = Extra(d, f, ids)
    BY ONLY <2>7
  <2>9. Sound(e, n + 1)
    BY <1>6, <2>2, <2>4, <2>6, <2>8, WrittenSound
  <2>10. ~Ambiguous(f.points)
    BY <2>2 DEF Refused
  <2>11. Merged(d, n, f, b, ids, e)
    BY <1>6, <2>3, <2>4, <2>6, <2>9, <2>10 DEF Merged
  <2>12. /\ db' = [db EXCEPT ![s] = e]
         /\ report' = [server |-> s, ok |-> TRUE, file |-> f, branch |-> b,
                       left |-> Left(d, b, ids), extra |-> Extra(d, f, ids)]
    BY <2>2, <2>8 DEF Apply
  <2>13. QED
    BY Zenon, <1>1, <1>5, <2>11, <2>12
<1>11. QED
  BY Zenon, <1>9, <1>10

\* The other steps are an edit of one server, which withdraws the report, or an
\* export, which adds a file.
LEMMA EditedSound ==
  ASSUME TransferInv, NEW s \in Servers, NEW d, Edited(s, d), Sound(d, Serial + 1)
  PROVE  TransferInv' /\ imports' = imports /\ report' = NoReport
<1>1. PICK n : n = Serial
  OBVIOUS
<1>2. n \in Nat /\ edits \in Nat /\ imports \in Nat /\ \A o \in Servers : Sound(db[o], n)
  BY <1>1 DEF TransferInv, TransferTypeOK, Serial
<1>3. db' = [db EXCEPT ![s] = d] /\ report' = NoReport /\ edits' = edits + 1 /\ imports' = imports /\ files' = files
  BY DEF Edited
<1>4. Serial' = n + 1 /\ edits' \in Nat /\ imports' \in Nat
  BY <1>1, <1>2, <1>3 DEF Serial
<1>5. DOMAIN db = Servers
  BY DEF TransferInv, TransferTypeOK
<1>6. ASSUME NEW o \in Servers PROVE Sound(db'[o], n + 1)
  <2>1. db'[o] = IF o = s THEN d ELSE db[o]
    BY <1>3, <1>5
  <2>2. Sound(db[o], n + 1)
    BY <1>2, SoundLater
  <2>3. QED
    BY <1>1, <2>1, <2>2
<1>7. DOMAIN db' = Servers /\ \A o \in Servers : Sound(db'[o], Serial')
  BY <1>3, <1>4, <1>5, <1>6
<1>8. report'.server \in Servers \cup {Null}
  BY <1>3 DEF NoReport
<1>9. TransferTypeOK'
  BY <1>4, <1>7, <1>8 DEF TransferTypeOK
<1>10. FilesOK'
  BY <1>3 DEF TransferInv, FilesOK
<1>11. QED
  BY <1>3, <1>9, <1>10 DEF TransferInv

LEMMA ImportSound ==
  ASSUME TransferInv, NEW s \in Servers, import(s)
  PROVE  TransferInv'
<1>1. PICK n : n = Serial
  OBVIOUS
<1>2. n \in Nat /\ edits \in Nat /\ imports \in Nat /\ \A o \in Servers : Sound(db[o], n)
  BY <1>1 DEF TransferInv, TransferTypeOK, Serial
<1>3. imports' = imports + 1 /\ files' = files /\ edits' = edits
  BY Zenon, ImportEither
<1>4. Serial' = n + 1 /\ edits' \in Nat /\ imports' \in Nat
  BY <1>1, <1>2, <1>3 DEF Serial
<1>5. DOMAIN db = Servers
  BY DEF TransferInv, TransferTypeOK
<1>6. DOMAIN db' = Servers /\ report'.server = s /\ \A o \in Servers : Sound(db'[o], n + 1)
  <2>1. CASE db' = db /\ report'.server = s
    BY <1>2, <1>5, <2>1, SoundLater
  <2>2. CASE \E f \in files : \E b, ids, e :
               /\ Merged(db[s], Serial, f, b, ids, e)
               /\ db' = [db EXCEPT ![s] = e]
               /\ report' = [server |-> s, ok |-> TRUE, file |-> f, branch |-> b,
                             left |-> Left(db[s], b, ids), extra |-> Extra(db[s], f, ids)]
    <3>4. PICK f \in files : \E b, ids, e :
            /\ Merged(db[s], Serial, f, b, ids, e)
            /\ db' = [db EXCEPT ![s] = e]
            /\ report' = [server |-> s, ok |-> TRUE, file |-> f, branch |-> b,
                          left |-> Left(db[s], b, ids), extra |-> Extra(db[s], f, ids)]
      BY Zenon, <2>2
    <3>0. PICK b, ids, e :
            /\ Merged(db[s], Serial, f, b, ids, e)
            /\ db' = [db EXCEPT ![s] = e]
            /\ report' = [server |-> s, ok |-> TRUE, file |-> f, branch |-> b,
                          left |-> Left(db[s], b, ids), extra |-> Extra(db[s], f, ids)]
      BY Zenon, <3>4
    <3>1. Sound(e, n + 1) /\ db' = [db EXCEPT ![s] = e] /\ report'.server = s
      BY <1>1, <3>0 DEF Merged
    <3>2. ASSUME NEW o \in Servers PROVE Sound(db'[o], n + 1)
      <4>1. db'[o] = IF o = s THEN e ELSE db[o]
        BY <1>5, <3>1
      <4>2. Sound(db[o], n + 1)
        BY <1>2, SoundLater
      <4>3. QED
        BY <3>1, <4>1, <4>2
    <3>3. QED
      BY <1>5, <3>1, <3>2
  <2>3. QED
    BY Zenon, <2>1, <2>2, ImportEither
<1>7. TransferTypeOK'
  BY <1>4, <1>6 DEF TransferTypeOK
<1>8. FilesOK'
  BY <1>3 DEF TransferInv, FilesOK
<1>9. QED
  BY <1>7, <1>8 DEF TransferInv

LEMMA ExportSound ==
  ASSUME TransferInv, NEW s \in Servers, export(s)
  PROVE  TransferInv' /\ db' = db /\ report' = report /\ edits' = edits /\ imports' = imports
<1>1. PICK b \in DOMAIN db[s].branch : files' = files \cup {Export(db[s], b)}
  BY DEF export
<1>2. db' = db /\ report' = report /\ edits' = edits /\ imports' = imports
  BY DEF export
<1>3. PICK n \in Nat : n = Serial
  BY DEF TransferInv, TransferTypeOK, Serial
<1>4. Sound(db[s], n)
  BY <1>3 DEF TransferInv, TransferTypeOK
<1>5. FileOK(Export(db[s], b))
  BY <1>4, ExportIsAFile
<1>6. FilesOK'
  BY <1>1, <1>5 DEF TransferInv, FilesOK
<1>7. TransferTypeOK'
  BY <1>2 DEF TransferInv, TransferTypeOK, Serial
<1>8. QED
  BY <1>2, <1>6, <1>7 DEF TransferInv

Edits(s) ==
  \/ update_branch(s) \/ update_lumg(s) \/ delete_lumg(s) \/ update_calc(s)
  \/ create_line(s) \/ delete_line(s) \/ update_route(s) \/ update_ring(s)
  \/ create_point(s) \/ update_point(s) \/ delete_point(s)

LEMMA EditsSound ==
  ASSUME TransferInv, NEW s \in Servers, Edits(s)
  PROVE  TransferInv' /\ imports' = imports /\ report' = NoReport
<1>1. PICK n \in Nat : n = Serial
  BY DEF TransferInv, TransferTypeOK, Serial
<1>2. PICK d : d = db[s]
  OBVIOUS
<1>3. Sound(d, n)
  BY <1>1, <1>2 DEF TransferInv, TransferTypeOK
<1>4. SUFFICES \E e : Edited(s, e) /\ Sound(e, n + 1)
  BY <1>1, EditedSound
<1>5. CASE update_branch(s)
  <2>1. PICK b \in DOMAIN d.branch, name \in BranchNames :
          /\ \A o \in DOMAIN d.branch : d.branch[o].name # name
          /\ Edited(s, [d EXCEPT !.branch[b].name = name])
    BY Zenon, <1>2, <1>5 DEF update_branch
  <2>2. QED
    BY <1>3, <2>1, UpdateBranchSound
<1>6. CASE update_lumg(s)
  <2>1. PICK l \in DOMAIN d.lumg, b \in DOMAIN d.branch, name \in LumgNames :
          /\ LumgsNamed(d, b, name) = {}
          /\ Edited(s, [d EXCEPT !.lumg[l] = [branch |-> b, name |-> name]])
    BY Zenon, <1>2, <1>6 DEF update_lumg
  <2>2. QED
    BY Zenon, <1>3, <2>1, UpdateLumgSound
<1>7. CASE delete_lumg(s)
  <2>1. PICK l \in DOMAIN db[s].lumg :
          LET calcs == {c \in DOMAIN db[s].calc : db[s].calc[c].lumg = l}
              x     == DropLines(db[s], {i \in DOMAIN db[s].line : db[s].line[i].calc \in calcs})
          IN  Edited(s, [x EXCEPT !.lumg = Drop(@, {l}),
                                  !.calc = Drop(@, calcs),
                                  !.code = Drop(@, {e \in DOMAIN @ : @[e] = l}),
                                  !.dpd = SetNull(@, "lumg", {l})])
    BY Zenon, <1>7 DEF delete_lumg
  <2>2. PICK calcs : calcs = {c \in DOMAIN db[s].calc : db[s].calc[c].lumg = l}
    BY Zenon
  <2>3. PICK S : S = {i \in DOMAIN db[s].line : db[s].line[i].calc \in calcs}
    BY Zenon
  <2>4. PICK x : x = DropLines(db[s], S)
    OBVIOUS
  <2>5. /\ Sound(x, n) /\ x.lumg = d.lumg /\ x.calc = d.calc
        /\ DOMAIN x.line = DOMAIN d.line \ S
        /\ \A i \in DOMAIN d.line \ S : x.line[i] = d.line[i]
    BY <1>2, <1>3, <2>4, DropLinesSound
  <2>6. \A i \in DOMAIN x.line : x.line[i].calc \notin calcs
    BY <1>2, <2>3, <2>5
  <2>7. l \in DOMAIN x.lumg /\ calcs = {c \in DOMAIN x.calc : x.calc[c].lumg = l}
    BY <1>2, <2>2, <2>5
  <2>8. PICK y : y = [x EXCEPT !.lumg = Drop(@, {l}),
                               !.calc = Drop(@, calcs),
                               !.code = Drop(@, {e \in DOMAIN @ : @[e] = l}),
                               !.dpd = SetNull(@, "lumg", {l})]
    BY Zenon
  <2>9. Sound(y, n + 1)
    BY Zenon, <2>5, <2>6, <2>7, <2>8, DeleteLumgSound
  <2>10. Edited(s, y)
    BY ZenonT(30), <2>1, <2>2, <2>3, <2>4, <2>8
  <2>11. QED
    BY <2>9, <2>10
<1>8. CASE update_calc(s)
  <2>1. PICK c \in DOMAIN d.calc, a \in Addresses, name \in CalcNames :
          /\ \A o \in DOMAIN d.calc \ {c} :
               d.calc[o].lumg = d.calc[c].lumg => d.calc[o].address # a /\ d.calc[o].name # name
          /\ Edited(s, [d EXCEPT !.calc[c].address = a, !.calc[c].name = name])
    BY ZenonT(30), <1>2, <1>8 DEF update_calc
  <2>2. QED
    BY Zenon, <1>3, <2>1, UpdateCalcSound
<1>9. CASE create_line(s)
  <2>1. PICK c \in DOMAIN d.calc, no \in LineNos :
          /\ \A i \in DOMAIN d.line : d.line[i].calc = c => d.line[i].no # no
          /\ Edited(s, [d EXCEPT !.line = Over(One(<<n, 0, 0, no>>, [calc |-> c, no |-> no]), @)])
    BY <1>1, <1>2, <1>9 DEF create_line
  <2>2. QED
    BY <1>3, <2>1, CreateLineSound
<1>10. CASE delete_line(s)
  <2>1. PICK i \in DOMAIN d.line : Edited(s, DropLines(d, {i}))
    BY Zenon, <1>2, <1>10 DEF delete_line
  <2>2. QED
    BY <1>3, <2>1, DeleteLineSound
<1>11. CASE update_route(s)
  <2>1. PICK r \in DOMAIN db[s].route : \E members \in (SUBSET LinesOf(db[s], db[s].route[r].branch)) \ {{}} :
          Edited(s, [db[s] EXCEPT !.member = Over([i \in members |-> r], Drop(@, {i \in DOMAIN @ : @[i] = r}))])
    BY Zenon, <1>11 DEF update_route
  <2>2. PICK members \in SUBSET LinesOf(db[s], db[s].route[r].branch) :
          Edited(s, [db[s] EXCEPT !.member = Over([i \in members |-> r], Drop(@, {i \in DOMAIN @ : @[i] = r}))])
    BY Zenon, <2>1
  <2>3. PICK made : made = [i \in members |-> r]
    BY Zenon
  <2>4. PICK gone : gone = {i \in DOMAIN db[s].member : db[s].member[i] = r}
    BY Zenon
  <2>5. Edited(s, [db[s] EXCEPT !.member = Over(made, Drop(@, gone))])
    BY <2>2, <2>3, <2>4
  <2>6. DOMAIN made \subseteq LinesOf(d, d.route[r].branch) /\ \A i \in DOMAIN made : made[i] = r
    BY <1>2, <2>3
  <2>7. QED
    BY Zenon, <1>2, <1>3, <2>5, <2>6, UpdateRouteSound
<1>12. CASE update_ring(s)
  <2>1. PICK r \in DOMAIN d.ring, line \in DOMAIN d.line \cup DOMAIN d.dpd :
          Edited(s, [d EXCEPT !.ring[r].members = {line}])
    BY Zenon, <1>2, <1>12 DEF update_ring
  <2>2. QED
    BY <1>3, <2>1, UpdateRingSound
<1>13. CASE create_point(s)
  <2>1. PICK b \in DOMAIN d.branch, h \in Histories :
          Edited(s, [d EXCEPT !.point = Over(One(<<n, 0>>, [branch |-> b, name |-> 1, line |-> Null, history |-> h]), @)])
    BY <1>1, <1>2, <1>13 DEF create_point
  <2>2. QED
    BY <1>3, <2>1, CreatePointSound
<1>14. CASE update_point(s)
  <2>1. PICK p \in DOMAIN d.point :
          \/ \E h \in Histories : Edited(s, [d EXCEPT !.point[p].history = h])
          \/ \E line \in {Null} \cup DOMAIN d.line \cup DOMAIN d.dpd : Edited(s, [d EXCEPT !.point[p].line = line])
    BY Zenon, <1>2, <1>14 DEF update_point
  <2>2. QED
    BY Zenon, <1>3, <2>1, UpdatePointSound
<1>15. CASE delete_point(s)
  <2>1. PICK p \in DOMAIN d.point : Edited(s, [d EXCEPT !.point = Drop(@, {p})])
    BY Zenon, <1>2, <1>15 DEF delete_point
  <2>2. QED
    BY <1>3, <2>1, DeletePointSound
<1>16. QED
  BY <1>5, <1>6, <1>7, <1>8, <1>9, <1>10, <1>11, <1>12, <1>13, <1>14, <1>15 DEF Edits

LEMMA TransferSteps ==
  ASSUME TransferNext
  PROVE  \E s \in Servers : export(s) \/ import(s) \/ Edits(s)
BY DEF TransferNext, Edits

LEMMA TransferInvStands == TransferSpec => []TransferInv
<1>1. TransferInit => TransferInv
  <2>1. SUFFICES ASSUME TransferInit PROVE TransferInv
    OBVIOUS
  <2>2. Serial = 1 /\ edits \in Nat /\ imports \in Nat
    BY <2>1 DEF TransferInit, Serial
  <2>3. DOMAIN db = Servers /\ \A s \in Servers : Sound(db[s], Serial)
    BY <2>1, <2>2, TransferAssumption DEF TransferInit
  <2>4. report.server \in Servers \cup {Null} /\ FilesOK
    BY <2>1 DEF TransferInit, NoReport, FilesOK
  <2>5. QED
    BY <2>2, <2>3, <2>4 DEF TransferInv, TransferTypeOK
<1>2. TransferInv /\ [TransferNext]_transfer => TransferInv'
  <2>1. SUFFICES ASSUME TransferInv, [TransferNext]_transfer PROVE TransferInv'
    OBVIOUS
  <2>2. CASE TransferNext
    <3>1. PICK s \in Servers : export(s) \/ import(s) \/ Edits(s)
      BY <2>2, TransferSteps
    <3>2. QED
      BY <2>1, <3>1, ExportSound, ImportSound, EditsSound
  <2>3. CASE UNCHANGED transfer
    BY <2>1, <2>3 DEF transfer, TransferInv, TransferTypeOK, FilesOK, Serial
  <2>4. QED
    BY <2>1, <2>2, <2>3
<1>3. QED
  BY <1>1, <1>2, PTL DEF TransferSpec

\* Every server's tables are sound after any step: ids are fresh, keys are unique
\* within a branch, and each row refers to rows that exist, which the foreign keys
\* of the tables and the order in which _write stores them are to guarantee.
THEOREM TransferTypes == TransferSpec => []TransferTypeOK
<1>1. TransferInv => TransferTypeOK
  BY DEF TransferInv
<1>2. QED
  BY <1>1, TransferInvStands, PTL

\* import_branch changes nothing that another branch of the server would export,
\* even when the administrator has mapped a name to a row of another branch: such
\* a mapping is refused, and every row is sought within the target branch.
THEOREM OnlyItsBranch == TransferSpec => OthersUntouched
<1>1. ASSUME TransferInv, TransferNext, Applied', imports' # imports
      PROVE  \A o \in DOMAIN db[report'.server].branch \ {report'.branch} :
               Export(db'[report'.server], o) = Export(db[report'.server], o)
  <2>1. PICK s \in Servers : import(s)
    BY <1>1, TransferSteps, ExportSound, EditsSound
  <2>0. PICK f \in files : \E b, ids, e :
          /\ Merged(db[s], Serial, f, b, ids, e)
          /\ db' = [db EXCEPT ![s] = e]
          /\ report' = [server |-> s, ok |-> TRUE, file |-> f, branch |-> b,
                        left |-> Left(db[s], b, ids), extra |-> Extra(db[s], f, ids)]
    BY <1>1, <2>1, ImportEither DEF Applied
  <2>2. PICK b, ids, e :
          /\ Merged(db[s], Serial, f, b, ids, e)
          /\ db' = [db EXCEPT ![s] = e]
          /\ report' = [server |-> s, ok |-> TRUE, file |-> f, branch |-> b,
                        left |-> Left(db[s], b, ids), extra |-> Extra(db[s], f, ids)]
    BY Zenon, <2>0
  <2>3. report'.server = s /\ report'.branch = b
    BY <2>2
  <2>4. db'[s] = e
    BY <1>1, <2>2 DEF TransferInv, TransferTypeOK
  <2>5. PICK n \in Nat : n = Serial
    BY <1>1 DEF TransferInv, TransferTypeOK, Serial
  <2>6. \A o \in DOMAIN db[s].branch \ {b} : Export(e, o) = Export(db[s], o)
    BY <2>2, <2>5, OthersStay DEF Merged
  <2>7. QED
    BY <2>3, <2>4, <2>6
<1> DEFINE Kept ==
      Applied' /\ imports' # imports =>
        \A b \in DOMAIN db[report'.server].branch \ {report'.branch} :
          Export(db'[report'.server], b) = Export(db[report'.server], b)
<1>2. TransferInv /\ [TransferNext]_transfer => [Kept]_transfer
  BY <1>1
<1> HIDE DEF Kept
<1>3. TransferSpec => [][Kept]_transfer
  BY <1>2, TransferInvStands, PTL DEF TransferSpec
<1>4. QED
  BY <1>3 DEF OthersUntouched, Kept

(* ---- The report of an import ---- *)

LEMMA OverExtends ==
  ASSUME NEW g \in History, NEW h
  PROVE  Extends(Over(g, h), g)
<1>1. PICK o : o = Over(g, h)
  OBVIOUS
<1>2. DOMAIN g \subseteq DOMAIN o /\ \A t \in DOMAIN g : o[t] = g[t]
  BY <1>1 DEF Over
<1>3. g = [t \in DOMAIN g |-> g[t]]
  BY DEF History
<1>4. Restrict(o, DOMAIN g) = [t \in DOMAIN g |-> o[t]]
  BY DEF Restrict
<1>5. Restrict(o, DOMAIN g) = g
  BY <1>2, <1>3, <1>4
<1>6. QED
  BY <1>1, <1>2, <1>5 DEF Extends

\* Where the rows of the branch come from.
ComeFrom(d, f, b, ids, e) ==
  /\ \A l \in LumgsOf(e, b) :
       \/ \E x \in f.lumgs : l = ids.lumg[x]
       \/ l \in LumgsOf(d, b) \ Range(ids.lumg) /\ e.lumg[l] = d.lumg[l]
  /\ \A c \in DOMAIN e.calc :
       \/ \E k \in f.calcs : c = ids.calc[k]
       \/ c \in DOMAIN d.calc \ Range(ids.calc) /\ e.calc[c] = d.calc[c]
  /\ \A i \in DOMAIN e.line :
       \/ \E x \in f.lines : i = ids.line[x]
       \/ i \in DOMAIN d.line \ Range(ids.line) /\ e.line[i] = d.line[i]
  /\ \A i \in In(e.dpd, b) :
       \/ \E x \in f.dpd : i = ids.dpd[x]
       \/ i \in In(d.dpd, b) \ Range(ids.dpd) /\ e.dpd[i] = d.dpd[i]
  /\ \A i \in In(e.ring, b) :
       \/ \E x \in f.rings : i = ids.ring[x]
       \/ i \in In(d.ring, b) \ Range(ids.ring) /\ e.ring[i] = d.ring[i]
  /\ \A i \in In(e.route, b) :
       \/ \E x \in f.routes : i = ids.route[x]
       \/ i \in In(d.route, b) \ Range(ids.route) /\ e.route[i] = d.route[i]
  /\ \A i \in In(e.point, b) :
       \/ \E k \in DOMAIN f.points : i = ids.point[k]
       \/ i \in In(d.point, b) \ Range(ids.point) /\ e.point[i] = d.point[i]

LEMMA RowsComeFrom ==
  ASSUME NEW d, NEW n \in Nat, NEW f, NEW b, NEW ids, NEW e, Merged(d, n, f, b, ids, e)
  PROVE  ComeFrom(d, f, b, ids, e)
<1>1. StandsFor(d, n, f, b, ids) /\ Written(d, f, b, ids, e)
  BY DEF Merged
<1>2. /\ DOMAIN ids.lumg = f.lumgs /\ DOMAIN ids.calc = f.calcs /\ DOMAIN ids.line = f.lines
      /\ DOMAIN ids.dpd = f.dpd /\ DOMAIN ids.ring = f.rings /\ DOMAIN ids.route = f.routes
      /\ DOMAIN ids.point = DOMAIN f.points
  BY <1>1 DEF StandsFor, LumgsStand, CalcsStand, LinesStand, NamedStand, RoutesStand, PointsStand
<1>3. \A l \in LumgsOf(e, b) :
        \/ \E x \in f.lumgs : l = ids.lumg[x]
        \/ l \in LumgsOf(d, b) \ Range(ids.lumg) /\ e.lumg[l] = d.lumg[l]
  <2>1. PICK rows : Laid(e.lumg, d.lumg, ids.lumg, rows)
    BY <1>1 DEF Written
  <2>2. QED
    BY <1>2, <2>1 DEF Laid, LumgsOf, Range
<1>4. \A c \in DOMAIN e.calc :
        \/ \E k \in f.calcs : c = ids.calc[k]
        \/ c \in DOMAIN d.calc \ Range(ids.calc) /\ e.calc[c] = d.calc[c]
  <2>1. PICK rows : Laid(e.calc, d.calc, ids.calc, rows)
    BY <1>1 DEF Written
  <2>2. QED
    BY <1>2, <2>1 DEF Laid, Range
<1>5. \A i \in DOMAIN e.line :
        \/ \E x \in f.lines : i = ids.line[x]
        \/ i \in DOMAIN d.line \ Range(ids.line) /\ e.line[i] = d.line[i]
  <2>1. PICK rows : Laid(e.line, d.line, ids.line, rows)
    BY <1>1 DEF Written
  <2>2. QED
    BY <1>2, <2>1 DEF Laid, Range
<1>6. \A i \in In(e.dpd, b) :
        \/ \E x \in f.dpd : i = ids.dpd[x]
        \/ i \in In(d.dpd, b) \ Range(ids.dpd) /\ e.dpd[i] = d.dpd[i]
  <2>1. PICK rows : Laid(e.dpd, d.dpd, ids.dpd, rows)
    BY <1>1 DEF Written
  <2>2. QED
    BY <1>2, <2>1 DEF Laid, Range, In
<1>7. \A i \in In(e.ring, b) :
        \/ \E x \in f.rings : i = ids.ring[x]
        \/ i \in In(d.ring, b) \ Range(ids.ring) /\ e.ring[i] = d.ring[i]
  <2>1. PICK rows : Laid(e.ring, d.ring, ids.ring, rows)
    BY <1>1 DEF Written
  <2>2. QED
    BY <1>2, <2>1 DEF Laid, Range, In
<1>8. \A i \in In(e.route, b) :
        \/ \E x \in f.routes : i = ids.route[x]
        \/ i \in In(d.route, b) \ Range(ids.route) /\ e.route[i] = d.route[i]
  <2>1. PICK rows : Laid(e.route, d.route, ids.route, rows)
    BY <1>1 DEF Written
  <2>2. QED
    BY <1>2, <2>1 DEF Laid, Range, In
<1>9. \A i \in In(e.point, b) :
        \/ \E k \in DOMAIN f.points : i = ids.point[k]
        \/ i \in In(d.point, b) \ Range(ids.point) /\ e.point[i] = d.point[i]
  <2>1. PICK rows : Laid(e.point, d.point, ids.point, rows)
    BY <1>1 DEF Written
  <2>2. QED
    BY <1>2, <2>1 DEF Laid, Range, In
<1>10. QED
  BY ONLY <1>3, <1>4, <1>5, <1>6, <1>7, <1>8, <1>9 DEF ComeFrom

\* The rows that the file's names stand for bear those names in the branch.
NamesStand(f, b, ids, e) ==
  /\ \A x \in f.lumgs : ids.lumg[x] \in LumgsOf(e, b) /\ e.lumg[ids.lumg[x]].name = x
  /\ \A k \in f.calcs : ids.calc[k] \in CalcsOf(e, b) /\ CalcKey(e, ids.calc[k]) = k
  /\ \A x \in f.lines : ids.line[x] \in LinesOf(e, b) /\ PhysicalRef(e, ids.line[x]) = x

LEMMA NamesAreRows ==
  ASSUME NEW d, NEW n \in Nat, NEW f, NEW b, NEW ids, NEW e, Merged(d, n, f, b, ids, e)
  PROVE  NamesStand(f, b, ids, e)
<1>1. StandsFor(d, n, f, b, ids) /\ Written(d, f, b, ids, e) /\ FileOK(f)
  BY DEF Merged
<1>2. FileRows(d, f, b, ids, e)
  BY <1>1, FileRowsAre
<1>3. \A x \in f.lumgs : ids.lumg[x] \in LumgsOf(e, b) /\ e.lumg[ids.lumg[x]].name = x
  BY Zenon, <1>2 DEF FileRows, LumgsOf
<1>4. ASSUME NEW k \in f.calcs PROVE ids.calc[k] \in CalcsOf(e, b) /\ CalcKey(e, ids.calc[k]) = k
  <2>1. /\ ids.calc[k] \in DOMAIN e.calc /\ e.calc[ids.calc[k]].lumg = ids.lumg[k[1]]
        /\ e.calc[ids.calc[k]].address = k[2] /\ e.calc[ids.calc[k]].name = k[3]
    BY Zenon, <1>2 DEF FileRows
  <2>2. k \in f.lumgs \X Nat \X Nat
    BY <1>1 DEF FileOK
  <2>3. k[1] \in f.lumgs /\ k = <<k[1], k[2], k[3]>>
    BY <2>2
  <2>4. ids.lumg[k[1]] \in LumgsOf(e, b) /\ e.lumg[ids.lumg[k[1]]].name = k[1]
    BY <1>3, <2>3
  <2>5. QED
    BY <2>1, <2>3, <2>4 DEF CalcsOf, CalcKey
<1>5. ASSUME NEW x \in f.lines PROVE ids.line[x] \in LinesOf(e, b) /\ PhysicalRef(e, ids.line[x]) = x
  <2>1. ids.line[x] \in DOMAIN e.line /\ e.line[ids.line[x]].calc = ids.of[x] /\ e.line[ids.line[x]].no = x[3]
    BY Zenon, <1>2 DEF FileRows
  <2>2. PICK c \in f.calcs : c[1] = x[1] /\ c[2] = x[2] /\ ids.of[x] = ids.calc[c]
    BY <1>1 DEF StandsFor, LinesStand
  <2>3. ids.calc[c] \in CalcsOf(e, b) /\ CalcKey(e, ids.calc[c]) = c
    BY <1>4
  <2>4. c \in f.lumgs \X Nat \X Nat /\ x \in f.lumgs \X Nat \X Nat
    BY <1>1 DEF FileOK
  <2>5. x = <<x[1], x[2], x[3]>>
    BY <2>4
  <2>6. e.lumg[e.calc[ids.calc[c]].lumg].name = c[1] /\ e.calc[ids.calc[c]].address = c[2]
    <3>1. <<e.lumg[e.calc[ids.calc[c]].lumg].name, e.calc[ids.calc[c]].address, e.calc[ids.calc[c]].name>> = c
      BY SMTT(30), <2>3 DEF CalcKey
    <3>2. QED
      BY SMTT(30), <3>1
  <2>7. QED
    BY <2>1, <2>2, <2>3, <2>5, <2>6 DEF LinesOf, PhysicalRef
<1>6. QED
  BY <1>3, <1>4, <1>5 DEF NamesStand

\* What a report says of the rows that the file does not have.
Tells(f, b, left, e) ==
  /\ \A l \in LumgsOf(e, b) : e.lumg[l].name \in f.lumgs \/ l \in left.lumg
  /\ \A c \in CalcsOf(e, b) :
       CalcKey(e, c) \in f.calcs \/ c \in left.calc \/ e.calc[c].lumg \in left.lumg
  /\ \A i \in LinesOf(e, b) :
       \/ PhysicalRef(e, i) \in f.lines
       \/ i \in left.line
       \/ e.line[i].calc \in left.calc
       \/ e.calc[e.line[i].calc].lumg \in left.lumg
  /\ \A i \in In(e.dpd, b) : i \in left.dpd \/ \E x \in f.dpd : x.name = e.dpd[i].name
  /\ \A i \in In(e.point, b) :
       \/ i \in left.point
       \/ \E k \in DOMAIN f.points :
            f.points[k].name = e.point[i].name /\ Extends(e.point[i].history, f.points[k].history)

LEMMA ImportTells ==
  ASSUME NEW d, NEW n \in Nat, NEW f, NEW b, NEW ids, NEW e, Merged(d, n, f, b, ids, e),
         NEW left, left = Left(d, b, ids)
  PROVE  Tells(f, b, left, e)
<1>1. StandsFor(d, n, f, b, ids) /\ Written(d, f, b, ids, e) /\ FileOK(f)
  BY DEF Merged
<1>2. FileRows(d, f, b, ids, e)
  BY <1>1, FileRowsAre
<1>20. ComeFrom(d, f, b, ids, e) /\ NamesStand(f, b, ids, e)
  BY RowsComeFrom, NamesAreRows
<1>3. /\ left.lumg = LumgsOf(d, b) \ Range(ids.lumg)
      /\ left.calc = {c \in DOMAIN d.calc : d.calc[c].lumg \in Range(ids.lumg)} \ Range(ids.calc)
      /\ left.line = {i \in DOMAIN d.line : d.line[i].calc \in Range(ids.calc)} \ Range(ids.line)
      /\ left.dpd = In(d.dpd, b) \ Range(ids.dpd)
      /\ left.point = In(d.point, b) \ Range(ids.point)
  BY DEF Left, LeftCalcs
<1>4. \A l \in LumgsOf(e, b) : (\E x \in f.lumgs : l = ids.lumg[x]) \/ l \in left.lumg
  BY <1>3, <1>20 DEF ComeFrom
<1>5. \A l \in LumgsOf(e, b) : e.lumg[l].name \in f.lumgs \/ l \in left.lumg
  BY <1>4, <1>20 DEF NamesStand
<1>6. /\ \A x \in f.lumgs : ids.lumg[x] \in Range(ids.lumg)
      /\ \A k \in f.calcs : ids.calc[k] \in Range(ids.calc)
  BY <1>1 DEF StandsFor, LumgsStand, CalcsStand, Range
<1>7. ASSUME NEW c \in CalcsOf(e, b)
      PROVE  (\E k \in f.calcs : c = ids.calc[k]) \/ c \in left.calc \/ e.calc[c].lumg \in left.lumg
  <2>1. c \in DOMAIN e.calc /\ e.calc[c].lumg \in LumgsOf(e, b)
    BY DEF CalcsOf
  <2>2. CASE c \in DOMAIN d.calc \ Range(ids.calc) /\ e.calc[c] = d.calc[c]
    BY <1>3, <1>4, <1>6, <2>1, <2>2
  <2>3. QED
    BY <2>1, <2>2, <1>20 DEF ComeFrom
<1>8. \A c \in CalcsOf(e, b) : CalcKey(e, c) \in f.calcs \/ c \in left.calc \/ e.calc[c].lumg \in left.lumg
  BY <1>7, <1>20 DEF NamesStand
<1>9. ASSUME NEW i \in LinesOf(e, b)
      PROVE  \/ PhysicalRef(e, i) \in f.lines
             \/ i \in left.line
             \/ e.line[i].calc \in left.calc
             \/ e.calc[e.line[i].calc].lumg \in left.lumg
  <2>1. i \in DOMAIN e.line /\ e.line[i].calc \in CalcsOf(e, b)
    BY DEF LinesOf
  <2>2. CASE \E x \in f.lines : i = ids.line[x]
    BY <2>2, <1>20 DEF NamesStand
  <2>3. CASE i \in DOMAIN d.line \ Range(ids.line) /\ e.line[i] = d.line[i]
    BY <1>3, <1>6, <1>7, <2>1, <2>3
  <2>4. QED
    BY <2>1, <2>2, <2>3, <1>20 DEF ComeFrom
<1>10. \A i \in In(e.dpd, b) : i \in left.dpd \/ \E x \in f.dpd : x.name = e.dpd[i].name
  <2>1. \A x \in f.dpd : e.dpd[ids.dpd[x]].name = x.name
    BY Zenon, <1>2 DEF FileRows
  <2>2. \A i \in In(e.dpd, b) : (\E x \in f.dpd : i = ids.dpd[x]) \/ i \in left.dpd
    BY <1>3, <1>20 DEF ComeFrom
  <2>3. QED
    BY <2>1, <2>2
<1>11. ASSUME NEW i \in In(e.point, b)
       PROVE  \/ i \in left.point
              \/ \E k \in DOMAIN f.points :
                   f.points[k].name = e.point[i].name /\ Extends(e.point[i].history, f.points[k].history)
  <2>1. CASE \E k \in DOMAIN f.points : i = ids.point[k]
    <3>1. PICK k \in DOMAIN f.points : i = ids.point[k]
      BY <2>1
    <3>2. /\ e.point[i].name = f.points[k].name
          /\ e.point[i].history = Over(f.points[k].history, HistoryOf(d.point, ids.point[k]))
      BY Zenon, <1>2, <3>1 DEF FileRows
    <3>3. f.points[k].history \in History
      BY <1>1 DEF FileOK
    <3>4. Extends(e.point[i].history, f.points[k].history)
      BY <3>2, <3>3, OverExtends
    <3>5. QED
      BY <3>2, <3>4
  <2>2. CASE i \in In(d.point, b) \ Range(ids.point)
    BY <1>3, <2>2
  <2>3. QED
    BY <2>1, <2>2, <1>20 DEF ComeFrom
<1>12. QED
  BY ONLY <1>5, <1>8, <1>9, <1>10, <1>11 DEF Tells

\* A report is of the last import: what is true of one when it is written stays true
\* until an edit withdraws it.
LEMMA AppliedStep ==
  ASSUME TransferInv, TransferNext, Applied'
  PROVE  \/ db' = db /\ report' = report /\ Serial' = Serial /\ Applied
         \/ \E n \in Nat : \E d, ids :
              /\ Merged(d, n, report'.file, report'.branch, ids, db'[report'.server])
              /\ Serial' = n + 1
              /\ report'.left = Left(d, report'.branch, ids)
              /\ report'.extra = Extra(d, report'.file, ids)
<1>1. PICK s \in Servers : export(s) \/ import(s) \/ Edits(s)
  BY TransferSteps
<1>2. CASE export(s)
  BY <1>2, ExportSound DEF Applied, Serial
<1>3. CASE Edits(s)
  <2>1. report'.server = Null
    BY <1>3, EditsSound DEF NoReport
  <2>2. QED
    BY <2>1 DEF Applied
<1>4. CASE import(s)
  <2>0. PICK f \in files : \E b, ids, e :
          /\ Merged(db[s], Serial, f, b, ids, e)
          /\ db' = [db EXCEPT ![s] = e]
          /\ report' = [server |-> s, ok |-> TRUE, file |-> f, branch |-> b,
                        left |-> Left(db[s], b, ids), extra |-> Extra(db[s], f, ids)]
    BY <1>4, ImportEither DEF Applied
  <2>1. PICK b, ids, e :
          /\ Merged(db[s], Serial, f, b, ids, e)
          /\ db' = [db EXCEPT ![s] = e]
          /\ report' = [server |-> s, ok |-> TRUE, file |-> f, branch |-> b,
                        left |-> Left(db[s], b, ids), extra |-> Extra(db[s], f, ids)]
    BY Zenon, <2>0
  <2>2. db'[s] = e
    BY <2>1 DEF TransferInv, TransferTypeOK
  <2>3. Serial \in Nat /\ Serial' = Serial + 1
    <3>1. imports' = imports + 1 /\ edits' = edits
      BY <1>4 DEF import
    <3>2. imports \in Nat /\ edits \in Nat
      BY DEF TransferInv, TransferTypeOK
    <3>3. QED
      BY <3>1, <3>2 DEF Serial
  <2>4. /\ report'.server = s /\ report'.file = f /\ report'.branch = b
        /\ report'.left = Left(db[s], b, ids) /\ report'.extra = Extra(db[s], f, ids)
    BY <2>1
  <2>5. PICK d, n : d = db[s] /\ n = Serial
    BY <2>3
  <2>6. /\ n \in Nat
        /\ Merged(d, n, report'.file, report'.branch, ids, db'[report'.server])
        /\ Serial' = n + 1
        /\ report'.left = Left(d, report'.branch, ids)
        /\ report'.extra = Extra(d, report'.file, ids)
    BY <2>1, <2>2, <2>3, <2>4, <2>5
  <2>7. QED
    BY <2>6
<1>5. QED
  BY <1>1, <1>2, <1>3, <1>4

\* What the branch has and the file has not is in the report of import_branch, by
\* itself or by the lumg, the calculator or the line it hangs from.
THEOREM NothingIsLeftUnseen == TransferSpec => []LeftoversAreTold
<1>1. TransferInit => LeftoversAreTold
  BY DEF TransferInit, NoReport, Applied, LeftoversAreTold
<1>2. TransferInv /\ LeftoversAreTold /\ [TransferNext]_transfer => LeftoversAreTold'
  <2>1. SUFFICES ASSUME TransferInv, LeftoversAreTold, [TransferNext]_transfer, Applied'
                 PROVE  LeftoversAreTold'
    BY SMTT(30) DEF LeftoversAreTold
  <2>2. CASE db' = db /\ report' = report
    BY <2>1, <2>2 DEF LeftoversAreTold, Applied
  <2>3. CASE \E n \in Nat : \E d, ids :
               /\ Merged(d, n, report'.file, report'.branch, ids, db'[report'.server])
               /\ report'.left = Left(d, report'.branch, ids)
    <3>0. PICK n \in Nat : \E d, ids :
            /\ Merged(d, n, report'.file, report'.branch, ids, db'[report'.server])
            /\ report'.left = Left(d, report'.branch, ids)
      BY <2>3
    <3>1. PICK d, ids :
            /\ Merged(d, n, report'.file, report'.branch, ids, db'[report'.server])
            /\ report'.left = Left(d, report'.branch, ids)
      BY <3>0
    <3>2. Tells(report'.file, report'.branch, report'.left, db'[report'.server])
      BY <3>1, ImportTells
    <3>3. QED
      BY <3>2 DEF LeftoversAreTold, Tells
  <2>4. CASE UNCHANGED transfer
    BY <2>2, <2>4 DEF transfer
  <2>5. QED
    BY <2>1, <2>2, <2>3, <2>4, AppliedStep
<1>3. QED
  BY <1>1, <1>2, TransferInvStands, PTL DEF TransferSpec

(* ---- What an import carries ---- *)

\* A reference stands for a row that bears it in the branch.
LEMMA RefsGoBack ==
  ASSUME NEW d, NEW n \in Nat, NEW f, NEW b, NEW ids, NEW e, Merged(d, n, f, b, ids, e)
  PROVE  \A r \in {Null} \cup f.lines \cup DpdRefs(f) : Ref(e, b, ids.row[r]) = r
<1>1. StandsFor(d, n, f, b, ids) /\ Written(d, f, b, ids, e) /\ FileOK(f) /\ Sound(e, n + 1)
  BY DEF Merged
<1>2. FileRows(d, f, b, ids, e)
  BY <1>1, FileRowsAre
<1>3. NamesStand(f, b, ids, e)
  BY NamesAreRows
<1>4. RowsStand(f, ids)
  BY <1>1 DEF StandsFor
<1>5. n + 1 \in Nat
  OBVIOUS
<1>6. /\ \A i \in LinesOf(e, b) : Ref(e, b, i) = PhysicalRef(e, i)
      /\ \A i \in In(e.dpd, b) : Ref(e, b, i) = <<e.dpd[i].name>>
      /\ \A r : r \notin LinesOf(e, b) /\ r \notin In(e.dpd, b) => Ref(e, b, r) = Null
      /\ Null \notin LinesOf(e, b) /\ Null \notin In(e.dpd, b)
  BY SMTT(30), <1>1, <1>5, References
<1>7. \A r \in f.lines : Ref(e, b, ids.row[r]) = r
  BY <1>3, <1>4, <1>6 DEF NamesStand, RowsStand
<1>8. ASSUME NEW r \in DpdRefs(f) PROVE Ref(e, b, ids.row[r]) = r
  <2>1. PICK x \in f.dpd : r = <<x.name>>
    BY DEF DpdRefs
  <2>2. ids.row[r] = ids.dpd[x]
    BY <1>4, <2>1 DEF RowsStand
  <2>3. ids.dpd[x] \in In(e.dpd, b) /\ e.dpd[ids.dpd[x]].name = x.name
    BY Zenon, <1>2 DEF FileRows, In
  <2>4. QED
    BY <1>6, <2>1, <2>2, <2>3
<1>9. Ref(e, b, ids.row[Null]) = Null
  BY <1>4, <1>6 DEF RowsStand
<1>10. QED
  BY <1>7, <1>8, <1>9

\* A route of the file has its lines after the import.
MembersStand(f, ids, e) ==
  \A x \in f.routes : \A r \in x.members :
    ids.row[r] \in DOMAIN e.member /\ e.member[ids.row[r]] = ids.route[x]

LEMMA MembersCome ==
  ASSUME NEW d, NEW n \in Nat, NEW f, NEW b, NEW ids, NEW e, Merged(d, n, f, b, ids, e)
  PROVE  MembersStand(f, ids, e)
<1>1. ASSUME NEW x \in f.routes, NEW r \in x.members
      PROVE  ids.row[r] \in DOMAIN e.member /\ e.member[ids.row[r]] = ids.route[x]
  <2>1. StandsFor(d, n, f, b, ids) /\ Written(d, f, b, ids, e) /\ FileOK(f)
    BY DEF Merged
  <2>2. PICK i : i = ids.row[r]
    OBVIOUS
  <2>3. i \in Lines(f, ids)
    BY <2>2 DEF Lines
  <2>4. PICK y \in f.routes : (\E q \in y.members : ids.row[q] = i) /\ e.member[i] = ids.route[y]
    <3>1. \A z \in Lines(f, ids) : \E y \in f.routes : (\E q \in y.members : ids.row[q] = z) /\ e.member[z] = ids.route[y]
      BY Zenon, <2>1 DEF Written
    <3>2. QED
      BY <2>3, <3>1
  <2>5. PICK q \in y.members : ids.row[q] = i
    BY <2>4
  <2>6. r \in f.lines /\ q \in f.lines
    BY <2>1 DEF FileOK
  <2>7. ids.line[r] = ids.line[q]
    BY <2>1, <2>2, <2>5, <2>6 DEF StandsFor, RowsStand
  <2>8. r = q
    BY <2>1, <2>6, <2>7 DEF StandsFor, LinesStand, IsInjective
  <2>9. x = y
    <3>1. x.members \cap y.members # {}
      BY <2>8
    <3>2. QED
      BY <2>1, <3>1 DEF FileOK
  <2>10. DOMAIN e.member = DOMAIN d.member \cup Lines(f, ids)
    BY <2>1 DEF Written
  <2>11. QED
    BY <2>2, <2>3, <2>4, <2>9, <2>10
<1>2. QED
  BY <1>1 DEF MembersStand

\* What ImportCarries says of a file, and of the branch as it would be exported.
CarriedRows(f, g) ==
  /\ g.uid = f.uid /\ g.name = f.name
  /\ f.lumgs \subseteq g.lumgs /\ f.calcs \subseteq g.calcs /\ f.lines \subseteq g.lines
  /\ \A x \in f.dpd : \E y \in g.dpd :
       y.name = x.name /\ y.lumg = x.lumg /\ Extends(y.history, x.history)
  /\ \A x \in f.rings : \E y \in g.rings : y.name = x.name /\ x.members \subseteq y.members
  /\ \A x \in f.routes : \E y \in g.routes : y.number = x.number /\ x.members \subseteq y.members

CarriedPoints(f, g) ==
  \A k \in DOMAIN f.points :
    /\ \E i \in DOMAIN g.points :
         /\ g.points[i].name = f.points[k].name
         /\ g.points[i].ref = f.points[k].ref
         /\ Extends(g.points[i].history, f.points[k].history)
    /\ Cardinality({j \in DOMAIN f.points : f.points[j].name = f.points[k].name}) <=
       Cardinality({i \in DOMAIN g.points : g.points[i].name = f.points[k].name})

LEMMA RowsCarried ==
  ASSUME NEW d, NEW n \in Nat, NEW f, NEW b, NEW ids, NEW e, Merged(d, n, f, b, ids, e)
  PROVE  CarriedRows(f, Export(e, b))
<1>1. StandsFor(d, n, f, b, ids) /\ Written(d, f, b, ids, e) /\ FileOK(f) /\ Sound(e, n + 1)
  BY DEF Merged
<1>2. FileRows(d, f, b, ids, e) /\ NamesStand(f, b, ids, e) /\ RowsStand(f, ids)
  BY <1>1, FileRowsAre, NamesAreRows DEF StandsFor
<1>3. PICK g : g = Export(e, b)
  OBVIOUS
<1>4. /\ g.uid = e.branch[b].uid /\ g.name = e.branch[b].name
      /\ g.lumgs = {e.lumg[l].name : l \in LumgsOf(e, b)}
      /\ g.calcs = {CalcKey(e, c) : c \in CalcsOf(e, b)}
      /\ g.lines = {PhysicalRef(e, i) : i \in LinesOf(e, b)}
      /\ g.dpd = {DpdLine(e, b, i) : i \in In(e.dpd, b)}
      /\ g.rings = {Ring(e, b, i) : i \in In(e.ring, b)}
      /\ g.routes = {Route(e, b, i) : i \in In(e.route, b)}
  BY <1>3 DEF Export
<1>5. g.uid = f.uid /\ g.name = f.name
  <2>1. e.branch[b] = [uid |-> f.uid, name |-> f.name]
    BY <1>1 DEF Written
  <2>2. QED
    BY <1>4, <2>1
<1>6. f.lumgs \subseteq g.lumgs /\ f.calcs \subseteq g.calcs /\ f.lines \subseteq g.lines
  BY <1>2, <1>4 DEF NamesStand
<1>7. \A r \in {Null} \cup f.lines \cup DpdRefs(f) : Ref(e, b, ids.row[r]) = r
  BY RefsGoBack
<1>8. Null \notin f.lines \cup DpdRefs(f) /\ Null \notin f.lumgs
  <2>1. \A r \in f.lines : r \in Nat \X Nat \X Nat
    BY <1>1 DEF FileOK
  <2>2. \A x \in f.dpd : x.name \in Nat
    BY <1>1 DEF FileOK
  <2>3. f.lumgs \subseteq Nat
    BY <1>1 DEF FileOK
  <2>4. QED
    BY <2>1, <2>2, <2>3, NullIsNone DEF DpdRefs
<1>9. ASSUME NEW x \in f.dpd
      PROVE  \E y \in g.dpd : y.name = x.name /\ y.lumg = x.lumg /\ Extends(y.history, x.history)
  <2>1. PICK i : i = ids.dpd[x]
    OBVIOUS
  <2>2. /\ i \in In(e.dpd, b) /\ e.dpd[i].name = x.name /\ e.dpd[i].lumg = NamedLumg(ids, x.lumg)
        /\ e.dpd[i].history = Over(x.history, HistoryOf(d.dpd, i))
    BY Zenon, <1>2, <2>1 DEF FileRows, In
  <2>3. x.lumg \in {Null} \cup f.lumgs /\ x.history \in History
    BY <1>1 DEF FileOK
  <2>4. LumgName(e, b, e.dpd[i].lumg) = x.lumg
    <3>1. CASE x.lumg = Null
      <4>1. Null \notin DOMAIN e.lumg
        <5>1. MadeBefore(e, n + 1) /\ n + 1 \in Nat
          BY <1>1 DEF Sound
        <5>2. QED
          BY <5>1, LinesAreNotDpd
      <4>2. QED
        BY <2>2, <3>1, <4>1 DEF NamedLumg, LumgName, LumgsOf
    <3>2. CASE x.lumg \in f.lumgs
      <4>1. e.dpd[i].lumg = ids.lumg[x.lumg]
        BY <1>8, <2>2, <3>2 DEF NamedLumg
      <4>2. QED
        BY <1>2, <3>2, <4>1 DEF NamesStand, LumgName
    <3>3. QED
      BY <2>3, <3>1, <3>2
  <2>5. PICK y : y = DpdLine(e, b, i)
    OBVIOUS
  <2>6. y \in g.dpd /\ y.name = e.dpd[i].name /\ y.lumg = LumgName(e, b, e.dpd[i].lumg) /\ y.history = e.dpd[i].history
    BY <1>4, <2>2, <2>5 DEF DpdLine
  <2>7. Extends(y.history, x.history)
    BY <2>2, <2>3, <2>6, OverExtends
  <2>8. QED
    BY <2>2, <2>4, <2>6, <2>7
<1>10. ASSUME NEW x \in f.rings
       PROVE  \E y \in g.rings : y.name = x.name /\ x.members \subseteq y.members
  <2>1. PICK i : i = ids.ring[x]
    OBVIOUS
  <2>2. /\ i \in In(e.ring, b) /\ e.ring[i].name = x.name
        /\ \A r \in x.members : ids.row[r] \in e.ring[i].members
    <3>1. /\ i \in DOMAIN e.ring /\ e.ring[i].branch = b /\ e.ring[i].name = x.name
          /\ e.ring[i].members = {ids.row[r] : r \in x.members} \cup MembersOf(d.ring, ids.ring[x])
      BY Zenon, <1>2, <2>1 DEF FileRows
    <3>2. \A r \in x.members : ids.row[r] \in {ids.row[q] : q \in x.members}
      OBVIOUS
    <3>3. QED
      BY <3>1, <3>2 DEF In
  <2>3. x.members \subseteq f.lines \cup DpdRefs(f)
    BY <1>1 DEF FileOK
  <2>4. PICK y : y = Ring(e, b, i)
    OBVIOUS
  <2>5. y \in g.rings /\ y.name = e.ring[i].name /\ y.members = Refs(e, b, e.ring[i].members)
    BY <1>4, <2>2, <2>4 DEF Ring
  <2>6. \A r \in x.members : r \in y.members
    BY <1>7, <1>8, <2>2, <2>3, <2>5 DEF Refs
  <2>7. QED
    BY <2>2, <2>5, <2>6
<1>11. ASSUME NEW x \in f.routes
       PROVE  \E y \in g.routes : y.number = x.number /\ x.members \subseteq y.members
  <2>1. PICK i : i = ids.route[x]
    OBVIOUS
  <2>2. i \in In(e.route, b) /\ e.route[i].number = x.number
    BY Zenon, <1>2, <2>1 DEF FileRows, In
  <2>3. PICK on : on = {z \in DOMAIN e.member : e.member[z] = i}
    BY Zenon
  <2>4. \A r \in x.members : ids.row[r] \in on
    <3>0. MembersStand(f, ids, e)
      BY MembersCome
    <3>1. \A r \in x.members : ids.row[r] \in DOMAIN e.member /\ e.member[ids.row[r]] = ids.route[x]
      BY <3>0 DEF MembersStand
    <3>2. QED
      BY <2>1, <2>3, <3>1
  <2>5. PICK y : y = Route(e, b, i)
    OBVIOUS
  <2>6. y \in g.routes /\ y.number = e.route[i].number /\ y.members = Refs(e, b, on)
    BY Zenon, <1>4, <2>2, <2>3, <2>5 DEF Route
  <2>7. x.members \subseteq f.lines
    BY <1>1 DEF FileOK
  <2>8. \A r \in x.members : r \in y.members
    BY <1>7, <1>8, <2>4, <2>6, <2>7 DEF Refs
  <2>9. QED
    BY <2>2, <2>6, <2>8
<1>12. CarriedRows(f, g)
  BY <1>5, <1>6, <1>9, <1>10, <1>11 DEF CarriedRows
<1>13. QED
  BY <1>3, <1>12

LEMMA PointsCarried ==
  ASSUME NEW d, NEW n \in Nat, NEW f, NEW b, NEW ids, NEW e, Merged(d, n, f, b, ids, e)
  PROVE  CarriedPoints(f, Export(e, b))
<1>1. StandsFor(d, n, f, b, ids) /\ Written(d, f, b, ids, e) /\ FileOK(f) /\ Sound(e, n + 1)
  BY DEF Merged
<1>2. FileRows(d, f, b, ids, e)
  BY <1>1, FileRowsAre
<1>3. PICK g : g = Export(e, b)
  OBVIOUS
<1>4. /\ DOMAIN g.points = In(e.point, b)
      /\ \A i \in In(e.point, b) : /\ g.points[i].name = e.point[i].name
                                   /\ g.points[i].ref = Ref(e, b, e.point[i].line)
                                   /\ g.points[i].history = e.point[i].history
  <2>1. g.points = [i \in In(e.point, b) |-> Point(e, b, i)]
    BY <1>3 DEF Export
  <2>2. QED
    BY <2>1 DEF Point
<1>5. \A k \in DOMAIN f.points :
        /\ ids.point[k] \in In(e.point, b)
        /\ e.point[ids.point[k]].name = f.points[k].name
        /\ e.point[ids.point[k]].line = ids.row[f.points[k].ref]
        /\ e.point[ids.point[k]].history = Over(f.points[k].history, HistoryOf(d.point, ids.point[k]))
  BY Zenon, <1>2 DEF FileRows, In
<1>6. ASSUME NEW k \in DOMAIN f.points
      PROVE  \E i \in DOMAIN g.points :
               /\ g.points[i].name = f.points[k].name
               /\ g.points[i].ref = f.points[k].ref
               /\ Extends(g.points[i].history, f.points[k].history)
  <2>1. f.points[k].ref \in {Null} \cup f.lines \cup DpdRefs(f) /\ f.points[k].history \in History
    BY <1>1 DEF FileOK
  <2>2. Ref(e, b, ids.row[f.points[k].ref]) = f.points[k].ref
    BY <2>1, RefsGoBack
  <2>3. Extends(e.point[ids.point[k]].history, f.points[k].history)
    BY <1>5, <2>1, OverExtends
  <2>4. QED
    BY <1>4, <1>5, <2>2, <2>3
<1>7. ASSUME NEW k \in DOMAIN f.points
      PROVE  Cardinality({j \in DOMAIN f.points : f.points[j].name = f.points[k].name}) <=
             Cardinality({i \in DOMAIN g.points : g.points[i].name = f.points[k].name})
  <2>1. PICK A, B : /\ A = {j \in DOMAIN f.points : f.points[j].name = f.points[k].name}
                    /\ B = {i \in DOMAIN g.points : g.points[i].name = f.points[k].name}
    BY Zenon
  <2>2. IsFiniteSet(B)
    <3>1. IsFiniteSet(DOMAIN e.point)
      BY <1>1 DEF Sound, Refers
    <3>2. B \subseteq DOMAIN e.point
      BY <1>4, <2>1 DEF In
    <3>3. QED
      BY <3>1, <3>2, FS_Subset
  <2>3. PICK to : to = [j \in A |-> ids.point[j]]
    BY Zenon
  <2>4. \A j \in A : ids.point[j] \in B
    BY <1>4, <1>5, <2>1
  <2>5. \A i, j \in A : ids.point[i] = ids.point[j] => i = j
    BY <1>1, <2>1 DEF StandsFor, PointsStand, IsInjective
  <2>6. to \in Injection(A, B)
    <3>1. to \in [A -> B]
      BY <2>3, <2>4
    <3>2. \A i, j \in A : to[i] = to[j] => i = j
      BY <2>3, <2>5
    <3>3. QED
      BY <3>1, <3>2 DEF Injection, IsInjective
  <2>7. Cardinality(A) <= Cardinality(B)
    BY <2>2, <2>6, FS_Injection
  <2>8. QED
    BY <2>1, <2>7
<1>8. CarriedPoints(f, g)
  BY Zenon, <1>6, <1>7 DEF CarriedPoints
<1>9. QED
  BY <1>3, <1>8

\* After an import that _validate let through, the branch exports every row of the
\* file under its name, with its references, members and history.
THEOREM EveryRowComes == TransferSpec => []ImportCarries
<1>1. TransferInit => ImportCarries
  BY DEF TransferInit, NoReport, Applied, ImportCarries
<1>2. TransferInv /\ ImportCarries /\ [TransferNext]_transfer => ImportCarries'
  <2>1. SUFFICES ASSUME TransferInv, ImportCarries, [TransferNext]_transfer, Applied'
                 PROVE  ImportCarries'
    BY Zenon DEF ImportCarries
  <2>2. CASE db' = db /\ report' = report
    BY <2>1, <2>2 DEF ImportCarries, Applied
  <2>3. CASE \E n \in Nat : \E d, ids : Merged(d, n, report'.file, report'.branch, ids, db'[report'.server])
    <3>1. PICK n \in Nat : \E d, ids : Merged(d, n, report'.file, report'.branch, ids, db'[report'.server])
      BY <2>3
    <3>2. PICK d, ids : Merged(d, n, report'.file, report'.branch, ids, db'[report'.server])
      BY <3>1
    <3>3. PICK g : g = Export(db'[report'.server], report'.branch)
      OBVIOUS
    <3>4. CarriedRows(report'.file, g) /\ CarriedPoints(report'.file, g)
      BY <3>2, <3>3, RowsCarried, PointsCarried
    <3>5. QED
      BY SMTT(30), <3>3, <3>4 DEF ImportCarries, CarriedRows, CarriedPoints
  <2>4. CASE UNCHANGED transfer
    BY <2>2, <2>4 DEF transfer
  <2>5. QED
    BY <2>1, <2>2, <2>3, <2>4, AppliedStep
<1>3. QED
  BY <1>1, <1>2, TransferInvStands, PTL DEF TransferSpec

(* ---- A file imported once more ---- *)

\* Both imports find the same rows.
SameIds(f, ids, anew) ==
  /\ \A x \in f.lumgs : anew.lumg[x] = ids.lumg[x]
  /\ \A k \in f.calcs : anew.calc[k] = ids.calc[k]
  /\ \A x \in f.lines : anew.of[x] = ids.of[x] /\ anew.line[x] = ids.line[x]
  /\ \A x \in f.dpd : anew.dpd[x] = ids.dpd[x]
  /\ \A x \in f.rings : anew.ring[x] = ids.ring[x]
  /\ \A x \in f.routes : anew.route[x] = ids.route[x]
  /\ \A k \in DOMAIN f.points : anew.point[k] = ids.point[k]
  /\ \A r \in {Null} \cup f.lines \cup DpdRefs(f) : anew.row[r] = ids.row[r]

\* A point that kept nothing of its own has the key of the file, and one that did is
\* the only one of its name.
LEMMA PointFoundAgain ==
  ASSUME NEW d, NEW n \in Nat, NEW f, NEW b, NEW ids, NEW e, Merged(d, n, f, b, ids, e),
         ~Ambiguous(BranchPoints(e, b)),
         \A i \in Extra(d, f, ids), j \in DOMAIN BranchPoints(e, b) :
           BranchPoints(e, b)[j].name = BranchPoints(e, b)[i].name => i = j,
         NEW k \in DOMAIN f.points, NEW m
  PROVE  PointId(e, f, b, m, k) = ids.point[k]
<1>1. StandsFor(d, n, f, b, ids) /\ Written(d, f, b, ids, e) /\ FileOK(f)
  BY DEF Merged
<1>2. FileRows(d, f, b, ids, e)
  BY <1>1, FileRowsAre
<1>3. \A x \in DOMAIN f.points :
        /\ ids.point[x] \in In(e.point, b) /\ e.point[ids.point[x]].name = f.points[x].name
        /\ e.point[ids.point[x]].history = Over(f.points[x].history, HistoryOf(d.point, ids.point[x]))
  BY Zenon, <1>2 DEF FileRows, In
<1>4. PICK i, p : i = ids.point[k] /\ p = f.points[k]
  OBVIOUS
<1>5. PICK ps : ps = BranchPoints(e, b)
  OBVIOUS
<1>6. DOMAIN ps = In(e.point, b) /\ \A j \in In(e.point, b) : ps[j] = e.point[j]
  <2>1. In(e.point, b) \subseteq DOMAIN e.point
    BY DEF In
  <2>2. QED
    BY <1>5, <2>1 DEF BranchPoints, Restrict
<1>7. PICK byKey : byKey = {j \in In(e.point, b) : enterprise_key(e.point[j]) = enterprise_key(f.points[k])}
  BY Zenon
<1>8. PICK byName : byName = {j \in In(e.point, b) : e.point[j].name = f.points[k].name}
  BY Zenon
<1>9. PICK unique : unique = (Cardinality(byName) = 1 /\ \A j \in DOMAIN f.points : f.points[j].name = f.points[k].name => j = k)
  OBVIOUS
<1>10. PointId(e, f, b, m, k) = IF byKey = {} /\ unique THEN CHOOSE j \in byName : TRUE ELSE Only(byKey, <<m, k>>)
  <2>1. PointId(e, f, b, m, k) =
          IF /\ {j \in In(e.point, b) : enterprise_key(e.point[j]) = enterprise_key(f.points[k])} = {}
             /\ Cardinality({j \in In(e.point, b) : e.point[j].name = f.points[k].name}) = 1
             /\ \A j \in DOMAIN f.points : f.points[j].name = f.points[k].name => j = k
          THEN CHOOSE z \in {j \in In(e.point, b) : e.point[j].name = f.points[k].name} : TRUE
          ELSE Only({j \in In(e.point, b) : enterprise_key(e.point[j]) = enterprise_key(f.points[k])}, <<m, k>>)
    BY DEF PointId
  <2>2. QED
    BY Zenon, <1>7, <1>8, <1>9, <2>1
<1>11. i \in In(e.point, b) /\ e.point[i].name = p.name /\ i \in byName
  BY <1>3, <1>4, <1>8
<1>12. byKey = {i} => Only(byKey, <<m, k>>) = i
  BY DEF Only
<1>13. CASE DOMAIN HistoryOf(d.point, i) \subseteq DOMAIN p.history
  <2>1. e.point[i].history = p.history
    <3>1. p.history \in History
      BY <1>1, <1>4 DEF FileOK
    <3>2. p.history = [t \in DOMAIN p.history |-> p.history[t]]
      BY <3>1 DEF History
    <3>3. PICK h : h = Over(p.history, HistoryOf(d.point, i))
      OBVIOUS
    <3>4. h = [t \in DOMAIN h |-> h[t]] /\ DOMAIN h = DOMAIN p.history /\ \A t \in DOMAIN h : h[t] = p.history[t]
      BY <1>13, <3>3 DEF Over
    <3>5. h = p.history
      BY <3>2, <3>4
    <3>6. QED
      BY Zenon, <1>3, <1>4, <3>3, <3>5
  <2>2. enterprise_key(e.point[i]) = enterprise_key(p)
    BY <1>11, <2>1 DEF enterprise_key
  <2>3. \A j \in byKey : j = i
    <3>1. SUFFICES ASSUME NEW j \in byKey, j # i PROVE FALSE
      OBVIOUS
    <3>2. j \in DOMAIN ps /\ i \in DOMAIN ps /\ enterprise_key(ps[j]) = enterprise_key(ps[i])
      BY <1>4, <1>6, <1>7, <1>11, <2>2
    <3>3. Ambiguous(ps)
      BY <3>1, <3>2 DEF Ambiguous, SameKey
    <3>4. QED
      BY <1>5, <3>3
  <2>4. byKey = {i}
    BY <1>4, <1>7, <1>11, <2>2, <2>3
  <2>5. QED
    BY <1>4, <1>10, <1>12, <2>4
<1>14. CASE ~(DOMAIN HistoryOf(d.point, i) \subseteq DOMAIN p.history)
  <2>1. i \in Extra(d, f, ids)
    BY <1>4, <1>14 DEF Extra
  <2>2. \A j \in DOMAIN ps : ps[j].name = ps[i].name => i = j
    BY <1>5, <2>1
  <2>3. byName = {i}
    BY <1>4, <1>6, <1>8, <1>11, <2>2
  <2>4. \A j \in DOMAIN f.points : f.points[j].name = p.name => j = k
    <3>1. SUFFICES ASSUME NEW j \in DOMAIN f.points, f.points[j].name = p.name PROVE j = k
      OBVIOUS
    <3>2. ids.point[j] = i
      BY <1>3, <1>4, <1>8, <2>3, <3>1
    <3>3. IsInjective(ids.point) /\ DOMAIN ids.point = DOMAIN f.points
      BY <1>1 DEF StandsFor, PointsStand
    <3>4. QED
      BY <1>4, <3>2, <3>3 DEF IsInjective
  <2>5. unique
    <3>1. Cardinality(byName) = 1
      BY Zenon, <2>3, FS_Singleton
    <3>2. QED
      BY Zenon, <1>4, <1>9, <2>4, <3>1
  <2>6. (CHOOSE j \in byName : TRUE) = i
    BY <2>3
  <2>7. byKey = {} \/ byKey = {i}
    <3>1. byKey \subseteq byName
      <4>1. \A j \in byKey : e.point[j].name = p.name
        BY <1>4, <1>7 DEF enterprise_key
      <4>2. QED
        BY <1>4, <1>7, <1>8, <4>1
    <3>2. QED
      BY <2>3, <3>1
  <2>8. QED
    BY Zenon, <1>4, <1>10, <1>12, <2>5, <2>6, <2>7
<1>15. QED
  BY <1>13, <1>14

LEMMA FoundAgain ==
  ASSUME NEW d, NEW n \in Nat, NEW f, NEW b, NEW ids, NEW e, Merged(d, n, f, b, ids, e),
         NEW m, NEW anew, StandsFor(e, m, f, b, anew),
         \A k \in DOMAIN f.points : anew.point[k] = ids.point[k]
  PROVE  SameIds(f, ids, anew)
<1>1. StandsFor(d, n, f, b, ids) /\ Written(d, f, b, ids, e) /\ FileOK(f)
  BY DEF Merged
<1>2. FileRows(d, f, b, ids, e)
  BY <1>1, FileRowsAre
<1>3. ASSUME NEW x \in f.lumgs PROVE anew.lumg[x] = ids.lumg[x]
  <2>1. ids.lumg[x] \in LumgsOf(e, b) /\ e.lumg[ids.lumg[x]].name = x
    BY Zenon, <1>2 DEF FileRows, LumgsOf
  <2>2. QED
    BY <2>1 DEF StandsFor, LumgsStand
<1>4. ASSUME NEW k \in f.calcs PROVE anew.calc[k] = ids.calc[k]
  <2>1. k[1] \in f.lumgs
    BY <1>1 DEF FileOK
  <2>2. /\ ids.calc[k] \in DOMAIN e.calc /\ e.calc[ids.calc[k]].lumg = anew.lumg[k[1]]
        /\ e.calc[ids.calc[k]].address = k[2]
    BY ZenonT(30), <1>2, <1>3, <2>1 DEF FileRows
  <2>3. QED
    BY <2>2 DEF StandsFor, CalcsStand
<1>5. ASSUME NEW x \in f.lines PROVE anew.of[x] = ids.of[x] /\ anew.line[x] = ids.line[x]
  <2>1. PICK c \in f.calcs : c[1] = x[1] /\ c[2] = x[2] /\ ids.of[x] = ids.calc[c]
    BY <1>1 DEF StandsFor, LinesStand
  <2>2. PICK c2 \in f.calcs : c2[1] = x[1] /\ c2[2] = x[2] /\ anew.of[x] = anew.calc[c2]
    BY DEF StandsFor, LinesStand
  <2>3. c = c2
    BY <1>1, <2>1, <2>2 DEF FileOK
  <2>4. anew.of[x] = ids.of[x]
    BY <1>4, <2>1, <2>2, <2>3
  <2>5. ids.line[x] \in DOMAIN e.line /\ e.line[ids.line[x]].calc = anew.of[x] /\ e.line[ids.line[x]].no = x[3]
    BY Zenon, <1>2, <2>4 DEF FileRows
  <2>6. QED
    BY <2>4, <2>5 DEF StandsFor, LinesStand
<1>6. ASSUME NEW x \in f.dpd PROVE anew.dpd[x] = ids.dpd[x]
  <2>1. ids.dpd[x] \in In(e.dpd, b) /\ e.dpd[ids.dpd[x]].name = x.name
    BY Zenon, <1>2 DEF FileRows, In
  <2>2. NamedStand(e.dpd, m, b, f.dpd, anew.dpd)
    BY DEF StandsFor
  <2>3. QED
    BY <2>1, <2>2 DEF NamedStand
<1>7. ASSUME NEW x \in f.rings PROVE anew.ring[x] = ids.ring[x]
  <2>1. ids.ring[x] \in In(e.ring, b) /\ e.ring[ids.ring[x]].name = x.name
    BY Zenon, <1>2 DEF FileRows, In
  <2>2. NamedStand(e.ring, m, b, f.rings, anew.ring)
    BY DEF StandsFor
  <2>3. QED
    BY <2>1, <2>2 DEF NamedStand
<1>8. ASSUME NEW x \in f.routes PROVE anew.route[x] = ids.route[x]
  <2>1. ids.route[x] \in In(e.route, b) /\ e.route[ids.route[x]].number = x.number
    BY Zenon, <1>2 DEF FileRows, In
  <2>2. RoutesStand(e, m, f, b, anew)
    BY DEF StandsFor
  <2>3. QED
    BY <2>1, <2>2 DEF RoutesStand
<1>9. ASSUME NEW r \in {Null} \cup f.lines \cup DpdRefs(f) PROVE anew.row[r] = ids.row[r]
  <2>1. RowsStand(f, ids) /\ RowsStand(f, anew)
    BY <1>1 DEF StandsFor
  <2>2. CASE r = Null
    BY <2>1, <2>2 DEF RowsStand
  <2>3. CASE r \in f.lines
    BY <1>5, <2>1, <2>3 DEF RowsStand
  <2>4. CASE r \in DpdRefs(f)
    BY <1>6, <2>1, <2>4 DEF RowsStand, DpdRefs
  <2>5. QED
    BY <2>2, <2>3, <2>4
<1>10. QED
  BY <1>3, <1>4, <1>5, <1>6, <1>7, <1>8, <1>9 DEF SameIds

LEMMA LaidAgain ==
  ASSUME NEW new, NEW table, NEW ids, NEW rows, Laid(new, table, ids, rows), table = [i \in DOMAIN table |-> table[i]],
         \A k \in DOMAIN ids : ids[k] \in DOMAIN table /\ new[ids[k]] = table[ids[k]]
  PROVE  new = table
<1>1. Range(ids) \subseteq DOMAIN table /\ \A i \in Range(ids) : new[i] = table[i]
  BY DEF Range
<1>2. /\ new = [i \in DOMAIN new |-> new[i]] /\ DOMAIN new = DOMAIN table \cup Range(ids)
      /\ \A i \in DOMAIN table \ Range(ids) : new[i] = table[i]
  BY DEF Laid
<1>3. DOMAIN new = DOMAIN table /\ \A i \in DOMAIN table : new[i] = table[i]
  BY <1>1, <1>2
<1>4. QED
  BY <1>2, <1>3

LEMMA OverAgain ==
  ASSUME NEW g, NEW h
  PROVE  Over(g, Over(g, h)) = Over(g, h)
<1>1. PICK o : o = Over(g, h)
  OBVIOUS
<1>2. /\ DOMAIN o = DOMAIN g \cup DOMAIN h /\ o = [x \in DOMAIN o |-> o[x]]
      /\ \A x \in DOMAIN g : o[x] = g[x]
  BY <1>1 DEF Over
<1>3. PICK q : q = Over(g, o)
  OBVIOUS
<1>4. /\ DOMAIN q = DOMAIN g \cup DOMAIN o /\ q = [x \in DOMAIN q |-> q[x]]
      /\ \A x \in DOMAIN g : q[x] = g[x]
      /\ \A x \in DOMAIN o \ DOMAIN g : q[x] = o[x]
  BY <1>3 DEF Over
<1>5. DOMAIN q = DOMAIN o /\ \A x \in DOMAIN o : q[x] = o[x]
  BY <1>2, <1>4
<1>6. QED
  BY <1>1, <1>2, <1>3, <1>4, <1>5

\* The tables of a sound server are functions.
Functional(d) ==
  /\ d.branch = [x \in DOMAIN d.branch |-> d.branch[x]] /\ d.lumg = [x \in DOMAIN d.lumg |-> d.lumg[x]]
  /\ d.code = [x \in DOMAIN d.code |-> d.code[x]] /\ d.calc = [x \in DOMAIN d.calc |-> d.calc[x]]
  /\ d.line = [x \in DOMAIN d.line |-> d.line[x]] /\ d.dpd = [x \in DOMAIN d.dpd |-> d.dpd[x]]
  /\ d.ring = [x \in DOMAIN d.ring |-> d.ring[x]] /\ d.route = [x \in DOMAIN d.route |-> d.route[x]]
  /\ d.member = [x \in DOMAIN d.member |-> d.member[x]] /\ d.point = [x \in DOMAIN d.point |-> d.point[x]]

LEMMA SoundIsFunctional ==
  ASSUME NEW d, NEW n, Sound(d, n)
  PROVE  Functional(d)
<1>1. d.branch = [x \in DOMAIN d.branch |-> d.branch[x]]
  BY DEF Sound, Refers
<1>2. d.lumg = [x \in DOMAIN d.lumg |-> d.lumg[x]]
  BY DEF Sound, Refers
<1>3. d.code = [x \in DOMAIN d.code |-> d.code[x]]
  BY DEF Sound, Refers
<1>4. d.calc = [x \in DOMAIN d.calc |-> d.calc[x]]
  BY DEF Sound, Refers
<1>5. d.line = [x \in DOMAIN d.line |-> d.line[x]]
  BY DEF Sound, Refers
<1>6. d.dpd = [x \in DOMAIN d.dpd |-> d.dpd[x]]
  BY DEF Sound, Refers
<1>7. d.ring = [x \in DOMAIN d.ring |-> d.ring[x]]
  BY DEF Sound, Refers
<1>8. d.route = [x \in DOMAIN d.route |-> d.route[x]]
  BY DEF Sound, Refers
<1>9. d.member = [x \in DOMAIN d.member |-> d.member[x]]
  BY DEF Sound, Refers
<1>10. d.point = [x \in DOMAIN d.point |-> d.point[x]]
  BY DEF Sound, Refers
<1>11. QED
  BY <1>1, <1>2, <1>3, <1>4, <1>5, <1>6, <1>7, <1>8, <1>9, <1>10 DEF Functional

\* What the same rows are written with is what they hold.
LEMMA WrittenAgain ==
  ASSUME NEW d, NEW n \in Nat, NEW f, NEW b, NEW ids, NEW e, Merged(d, n, f, b, ids, e),
         NEW m \in Nat, NEW anew, StandsFor(e, m, f, b, anew), SameIds(f, ids, anew),
         NEW e2, Written(e, f, b, anew, e2)
  PROVE  e2 = e
<1>1. StandsFor(d, n, f, b, ids) /\ Written(d, f, b, ids, e) /\ FileOK(f) /\ Sound(e, n + 1)
  BY DEF Merged
<1>2. FileRows(d, f, b, ids, e)
  BY <1>1, FileRowsAre
<1>3. FileRows(e, f, b, anew, e2)
  BY <1>1, FileRowsAre
<1>4. Functional(e)
  BY <1>1, SoundIsFunctional
<1>5. /\ DOMAIN anew.lumg = f.lumgs /\ DOMAIN anew.calc = f.calcs /\ DOMAIN anew.line = f.lines
      /\ DOMAIN anew.dpd = f.dpd /\ DOMAIN anew.ring = f.rings /\ DOMAIN anew.route = f.routes
      /\ DOMAIN anew.point = DOMAIN f.points
  BY DEF StandsFor, LumgsStand, CalcsStand, LinesStand, NamedStand, RoutesStand, PointsStand
<1>6. e2.branch = e.branch
  <2>1. /\ e2.branch = [x \in DOMAIN e2.branch |-> e2.branch[x]]
        /\ DOMAIN e2.branch = DOMAIN e.branch \cup {b}
        /\ e2.branch[b] = [uid |-> f.uid, name |-> f.name]
        /\ \A x \in DOMAIN e.branch \ {b} : e2.branch[x] = e.branch[x]
    BY DEF Written
  <2>2. b \in DOMAIN e.branch /\ e.branch[b] = [uid |-> f.uid, name |-> f.name]
    BY Zenon, <1>1 DEF Written
  <2>3. DOMAIN e2.branch = DOMAIN e.branch /\ \A x \in DOMAIN e.branch : e2.branch[x] = e.branch[x]
    BY <2>1, <2>2
  <2>4. QED
    BY <1>4, <2>1, <2>3 DEF Functional
<1>7. e2.lumg = e.lumg
  <2>1. PICK rows : Laid(e2.lumg, e.lumg, anew.lumg, rows)
    BY DEF Written
  <2>2. ASSUME NEW x \in f.lumgs
        PROVE  anew.lumg[x] \in DOMAIN e.lumg /\ e2.lumg[anew.lumg[x]] = e.lumg[anew.lumg[x]]
    <3>1. ids.lumg[x] \in DOMAIN e.lumg /\ e.lumg[ids.lumg[x]] = [branch |-> b, name |-> x]
      BY SMTT(30), <1>2 DEF FileRows
    <3>2. e2.lumg[anew.lumg[x]] = [branch |-> b, name |-> x]
      BY <1>3 DEF FileRows
    <3>3. anew.lumg[x] = ids.lumg[x]
      BY DEF SameIds
    <3>4. QED
      BY <3>1, <3>2, <3>3
  <2>3. QED
    BY <1>4, <1>5, <2>1, <2>2, LaidAgain DEF Functional
<1>8. e2.calc = e.calc
  <2>1. PICK rows : Laid(e2.calc, e.calc, anew.calc, rows)
    BY DEF Written
  <2>2. ASSUME NEW k \in f.calcs
        PROVE  anew.calc[k] \in DOMAIN e.calc /\ e2.calc[anew.calc[k]] = e.calc[anew.calc[k]]
    <3>1. k[1] \in f.lumgs
      BY <1>1 DEF FileOK
    <3>2. anew.calc[k] = ids.calc[k] /\ anew.lumg[k[1]] = ids.lumg[k[1]]
      BY <3>1 DEF SameIds
    <3>3. /\ ids.calc[k] \in DOMAIN e.calc
          /\ e.calc[ids.calc[k]] = [lumg |-> ids.lumg[k[1]], address |-> k[2], name |-> k[3]]
      BY SMTT(30), <1>2 DEF FileRows
    <3>4. e2.calc[anew.calc[k]] = [lumg |-> anew.lumg[k[1]], address |-> k[2], name |-> k[3]]
      BY <1>3 DEF FileRows
    <3>5. QED
      BY <3>2, <3>3, <3>4
  <2>3. QED
    BY <1>4, <1>5, <2>1, <2>2, LaidAgain DEF Functional
<1>9. e2.line = e.line
  <2>1. PICK rows : Laid(e2.line, e.line, anew.line, rows)
    BY DEF Written
  <2>2. ASSUME NEW x \in f.lines
        PROVE  anew.line[x] \in DOMAIN e.line /\ e2.line[anew.line[x]] = e.line[anew.line[x]]
    <3>1. ids.line[x] \in DOMAIN e.line /\ e.line[ids.line[x]] = [calc |-> ids.of[x], no |-> x[3]]
      BY SMTT(30), <1>2 DEF FileRows
    <3>2. e2.line[anew.line[x]] = [calc |-> anew.of[x], no |-> x[3]]
      BY SMTT(30), <1>3 DEF FileRows
    <3>3. anew.line[x] = ids.line[x] /\ anew.of[x] = ids.of[x]
      BY DEF SameIds
    <3>4. QED
      BY <3>1, <3>2, <3>3
  <2>3. QED
    BY <1>4, <1>5, <2>1, <2>2, LaidAgain DEF Functional
<1>10. e2.dpd = e.dpd
  <2>1. PICK rows : Laid(e2.dpd, e.dpd, anew.dpd, rows)
    BY DEF Written
  <2>2. ASSUME NEW x \in f.dpd
        PROVE  anew.dpd[x] \in DOMAIN e.dpd /\ e2.dpd[anew.dpd[x]] = e.dpd[anew.dpd[x]]
    <3>1. x.lumg \in {Null} \cup f.lumgs
      BY <1>1 DEF FileOK
    <3>2. anew.dpd[x] = ids.dpd[x] /\ NamedLumg(anew, x.lumg) = NamedLumg(ids, x.lumg)
      BY <3>1 DEF SameIds, NamedLumg
    <3>3. /\ ids.dpd[x] \in DOMAIN e.dpd
          /\ e.dpd[ids.dpd[x]] = [branch |-> b, name |-> x.name, lumg |-> NamedLumg(ids, x.lumg),
                                  history |-> Over(x.history, HistoryOf(d.dpd, ids.dpd[x]))]
          /\ e.dpd[ids.dpd[x]].history = Over(x.history, HistoryOf(d.dpd, ids.dpd[x]))
      BY SMTT(30), <1>2 DEF FileRows
    <3>4. e2.dpd[anew.dpd[x]] = [branch |-> b, name |-> x.name, lumg |-> NamedLumg(anew, x.lumg),
                                  history |-> Over(x.history, HistoryOf(e.dpd, anew.dpd[x]))]
      BY SMTT(30), <1>3 DEF FileRows
    <3>5. HistoryOf(e.dpd, anew.dpd[x]) = Over(x.history, HistoryOf(d.dpd, ids.dpd[x]))
      BY <3>2, <3>3 DEF HistoryOf
    <3>6. Over(x.history, HistoryOf(e.dpd, anew.dpd[x])) = Over(x.history, HistoryOf(d.dpd, ids.dpd[x]))
      BY <3>5, OverAgain
    <3>7. QED
      BY <3>2, <3>3, <3>4, <3>6
  <2>3. QED
    BY <1>4, <1>5, <2>1, <2>2, LaidAgain DEF Functional
<1>11. e2.ring = e.ring
  <2>1. PICK rows : Laid(e2.ring, e.ring, anew.ring, rows)
    BY DEF Written
  <2>2. ASSUME NEW x \in f.rings
        PROVE  anew.ring[x] \in DOMAIN e.ring /\ e2.ring[anew.ring[x]] = e.ring[anew.ring[x]]
    <3>1. PICK named, named2 : named = {ids.row[r] : r \in x.members} /\ named2 = {anew.row[r] : r \in x.members}
      BY Zenon
    <3>2. named2 = named
      <4>1. x.members \subseteq f.lines \cup DpdRefs(f)
        BY <1>1 DEF FileOK
      <4>2. \A r \in x.members : anew.row[r] = ids.row[r]
        BY <4>1 DEF SameIds
      <4>3. QED
        BY <3>1, <4>2
    <3>3. anew.ring[x] = ids.ring[x]
      BY DEF SameIds
    <3>4. /\ ids.ring[x] \in DOMAIN e.ring
          /\ e.ring[ids.ring[x]] = [branch |-> b, name |-> x.name, members |-> named \cup MembersOf(d.ring, ids.ring[x])]
          /\ e.ring[ids.ring[x]].members = named \cup MembersOf(d.ring, ids.ring[x])
      BY SMTT(30), <1>2, <3>1 DEF FileRows
    <3>5. e2.ring[anew.ring[x]] = [branch |-> b, name |-> x.name, members |-> named2 \cup MembersOf(e.ring, anew.ring[x])]
      BY Zenon, <1>3, <3>1 DEF FileRows
    <3>6. MembersOf(e.ring, anew.ring[x]) = named \cup MembersOf(d.ring, ids.ring[x])
      BY <3>3, <3>4 DEF MembersOf
    <3>7. named2 \cup MembersOf(e.ring, anew.ring[x]) = named \cup MembersOf(d.ring, ids.ring[x])
      BY <3>2, <3>6
    <3>8. QED
      BY <3>3, <3>4, <3>5, <3>7
  <2>3. QED
    BY <1>4, <1>5, <2>1, <2>2, LaidAgain DEF Functional
<1>12. e2.route = e.route
  <2>1. PICK rows : Laid(e2.route, e.route, anew.route, rows)
    BY DEF Written
  <2>2. ASSUME NEW x \in f.routes
        PROVE  anew.route[x] \in DOMAIN e.route /\ e2.route[anew.route[x]] = e.route[anew.route[x]]
    <3>1. ids.route[x] \in DOMAIN e.route /\ e.route[ids.route[x]] = [branch |-> b, number |-> x.number]
      BY SMTT(30), <1>2 DEF FileRows
    <3>2. e2.route[anew.route[x]] = [branch |-> b, number |-> x.number]
      BY SMTT(30), <1>3 DEF FileRows
    <3>3. anew.route[x] = ids.route[x]
      BY DEF SameIds
    <3>4. QED
      BY <3>1, <3>2, <3>3
  <2>3. QED
    BY <1>4, <1>5, <2>1, <2>2, LaidAgain DEF Functional
<1>13. e2.point = e.point
  <2>1. PICK rows : Laid(e2.point, e.point, anew.point, rows)
    BY DEF Written
  <2>2. ASSUME NEW k \in DOMAIN f.points
        PROVE  anew.point[k] \in DOMAIN e.point /\ e2.point[anew.point[k]] = e.point[anew.point[k]]
    <3>1. f.points[k].ref \in {Null} \cup f.lines \cup DpdRefs(f)
      BY <1>1 DEF FileOK
    <3>2. anew.point[k] = ids.point[k] /\ anew.row[f.points[k].ref] = ids.row[f.points[k].ref]
      BY <3>1 DEF SameIds
    <3>3. /\ ids.point[k] \in DOMAIN e.point
          /\ e.point[ids.point[k]] = [branch |-> b, name |-> f.points[k].name, line |-> ids.row[f.points[k].ref],
                                      history |-> Over(f.points[k].history, HistoryOf(d.point, ids.point[k]))]
          /\ e.point[ids.point[k]].history = Over(f.points[k].history, HistoryOf(d.point, ids.point[k]))
      BY SMTT(30), <1>2 DEF FileRows
    <3>4. e2.point[anew.point[k]] = [branch |-> b, name |-> f.points[k].name, line |-> anew.row[f.points[k].ref],
                                      history |-> Over(f.points[k].history, HistoryOf(e.point, anew.point[k]))]
      BY ZenonT(30), <1>3 DEF FileRows
    <3>5. HistoryOf(e.point, anew.point[k]) = Over(f.points[k].history, HistoryOf(d.point, ids.point[k]))
      BY <3>2, <3>3 DEF HistoryOf
    <3>6. Over(f.points[k].history, HistoryOf(e.point, anew.point[k])) =
          Over(f.points[k].history, HistoryOf(d.point, ids.point[k]))
      BY <3>5, OverAgain
    <3>7. QED
      BY <3>2, <3>3, <3>4, <3>6
  <2>3. QED
    BY <1>4, <1>5, <2>1, <2>2, LaidAgain DEF Functional
<1>14. e2.code = e.code
  <2>1. PICK codes : codes = {x[2] : x \in f.codes}
    BY Zenon
  <2>2. DOMAIN e.code = DOMAIN d.code \cup codes
    BY Zenon, <1>1, <2>1 DEF Written
  <2>3. /\ DOMAIN e2.code = DOMAIN e.code \cup codes
        /\ \A x \in DOMAIN e.code : e2.code[x] = e.code[x]
        /\ e2.code = [x \in DOMAIN e2.code |-> e2.code[x]]
    BY <2>1 DEF Written
  <2>4. QED
    BY <1>4, <2>2, <2>3 DEF Functional
<1>15. e2.member = e.member
  <2>1. MembersStand(f, ids, e)
    BY MembersCome
  <2>2. /\ e2.member = [x \in DOMAIN e2.member |-> e2.member[x]]
        /\ DOMAIN e2.member = DOMAIN e.member \cup Lines(f, anew)
        /\ \A i \in DOMAIN e.member \ Lines(f, anew) : e2.member[i] = e.member[i]
    BY DEF Written
  <2>3. \A i \in Lines(f, anew) : \E x \in f.routes : (\E r \in x.members : anew.row[r] = i) /\ e2.member[i] = anew.route[x]
    BY DEF Written
  <2>4. ASSUME NEW i \in Lines(f, anew) PROVE i \in DOMAIN e.member /\ e2.member[i] = e.member[i]
    <3>1. PICK x \in f.routes : (\E r \in x.members : anew.row[r] = i) /\ e2.member[i] = anew.route[x]
      BY <2>3
    <3>2. PICK r \in x.members : anew.row[r] = i
      BY <3>1
    <3>3. r \in f.lines
      BY <1>1 DEF FileOK
    <3>4. ids.row[r] = i /\ anew.route[x] = ids.route[x]
      BY <3>2, <3>3 DEF SameIds
    <3>5. QED
      BY <2>1, <3>1, <3>4 DEF MembersStand
  <2>5. DOMAIN e2.member = DOMAIN e.member /\ \A i \in DOMAIN e.member : e2.member[i] = e.member[i]
    BY <2>2, <2>4
  <2>6. QED
    BY <1>4, <2>2, <2>5 DEF Functional
<1>16. e2 = [branch |-> e2.branch, lumg |-> e2.lumg, code |-> e2.code, calc |-> e2.calc, line |-> e2.line,
             dpd |-> e2.dpd, ring |-> e2.ring, route |-> e2.route, member |-> e2.member, point |-> e2.point]
  BY DEF Written
<1>17. e = [branch |-> e.branch, lumg |-> e.lumg, code |-> e.code, calc |-> e.calc, line |-> e.line,
            dpd |-> e.dpd, ring |-> e.ring, route |-> e.route, member |-> e.member, point |-> e.point]
  BY Zenon, <1>1 DEF Written
<1>18. QED
  BY ONLY <1>6, <1>7, <1>8, <1>9, <1>10, <1>11, <1>12, <1>13, <1>14, <1>15, <1>16, <1>17

\* Silent, before step m.
SilentAt(d, f, m) ==
  /\ ~Refused(d, f, Branch(d, f, m, FromFile), FromFile, Unmapped)
  /\ \A up \in BOOLEAN : ~Collides(d, Merge(d, m, f, FromFile, Unmapped).db.calc, up)
  /\ Merge(d, m, f, FromFile, Unmapped).db = d

LEMMA SilentAgain ==
  ASSUME NEW d, NEW n \in Nat, NEW f, NEW b, NEW ids, NEW e, Merged(d, n, f, b, ids, e),
         ~Ambiguous(BranchPoints(e, b)),
         \A i \in Extra(d, f, ids), j \in DOMAIN BranchPoints(e, b) :
           BranchPoints(e, b)[j].name = BranchPoints(e, b)[i].name => i = j
  PROVE  SilentAt(e, f, n + 1)
<1>1. PICK m \in Nat : m = n + 1
  OBVIOUS
<1>2. StandsFor(d, n, f, b, ids) /\ Written(d, f, b, ids, e) /\ FileOK(f) /\ Sound(e, m) /\ ~Ambiguous(f.points)
  BY <1>1 DEF Merged
<1>3. b \in DOMAIN e.branch /\ e.branch[b].uid = f.uid /\ e.branch[b].name = f.name
  <2>1. e.branch[b] = [uid |-> f.uid, name |-> f.name] /\ DOMAIN e.branch = DOMAIN d.branch \cup {b}
    BY <1>2 DEF Written
  <2>2. QED
    BY <2>1
<1>4. ByUid(e, f) = {b} /\ ByName(e, f) = {b}
  <2>1. \A i, j \in DOMAIN e.branch :
          i # j => e.branch[i].uid # e.branch[j].uid /\ e.branch[i].name # e.branch[j].name
    BY <1>2 DEF Sound, Unique
  <2>2. QED
    BY <1>3, <2>1 DEF ByUid, ByName
<1>5. Target(e, f, FromFile) = {b}
  <2>1. FromFile # New
    BY TransferAssumption
  <2>2. QED
    BY <1>4, <2>1 DEF Target
<1>6. Branch(e, f, m, FromFile) = b
  BY <1>5 DEF Branch
<1>7. ~Refused(e, f, b, FromFile, Unmapped)
  <2>1. ~TargetRefused(e, f, FromFile)
    BY <1>4, <1>5 DEF TargetRefused
  <2>2. DOMAIN Unmapped = {}
    BY DEF Unmapped
  <2>3. ~LumgsRefused(e, f, b, Unmapped)
    BY <2>2 DEF LumgsRefused
  <2>4. QED
    BY <1>2, <2>1, <2>3 DEF Refused
<1>8. PICK anew : anew = Stand(e, m, f, b, Unmapped)
  OBVIOUS
<1>9. StandsFor(e, m, f, b, anew)
  BY <1>2, <1>6, <1>7, <1>8, MergeStands
<1>10. \A k \in DOMAIN f.points : anew.point[k] = ids.point[k]
  <2>1. anew.point = [k \in DOMAIN f.points |-> PointId(e, f, b, m, k)]
    BY <1>8 DEF Stand
  <2>2. ASSUME NEW k \in DOMAIN f.points PROVE PointId(e, f, b, m, k) = ids.point[k]
    BY PointFoundAgain
  <2>3. QED
    BY <2>1, <2>2
<1>11. SameIds(f, ids, anew)
  BY <1>9, <1>10, FoundAgain
<1>12. PICK e2 : e2 = Write(e, f, b, anew)
  OBVIOUS
<1>13. Written(e, f, b, anew, e2)
  BY <1>9, <1>12, WriteIs
<1>14. e2 = e
  BY <1>9, <1>11, <1>13, WrittenAgain
<1>15. PICK merge : merge = Merge(e, m, f, FromFile, Unmapped)
  OBVIOUS
<1>16. merge.db = e
  <2>1. merge = [branch |-> b, db |-> Write(e, f, b, anew), left |-> Left(e, b, anew), extra |-> Extra(e, f, anew)]
    BY <1>6, <1>8, <1>15 DEF Merge
  <2>2. QED
    BY Zenon, <1>12, <1>14, <2>1
<1>17. \A up \in BOOLEAN : ~Collides(e, e.calc, up)
  <2>1. \A i, j \in DOMAIN e.calc : i # j /\ e.calc[i].lumg = e.calc[j].lumg => e.calc[i].name # e.calc[j].name
    BY <1>2 DEF Sound, Unique
  <2>2. QED
    BY <2>1 DEF Collides
<1>18. QED
  BY <1>1, <1>6, <1>7, <1>15, <1>16, <1>17 DEF SilentAt

\* The same file once more finds the branch by its transfer id and each row by its
\* key, and writes the tables as they are, unless a metering point kept an entry of
\* its own beside a namesake.
THEOREM AnotherImportIsSilent == TransferSpec => []SecondImportIsSilent
<1>1. TransferInit => SecondImportIsSilent
  BY DEF TransferInit, NoReport, Applied, SecondImportIsSilent
<1>2. TransferInv /\ SecondImportIsSilent /\ [TransferNext]_transfer => SecondImportIsSilent'
  <2>1. SUFFICES ASSUME TransferInv, SecondImportIsSilent, [TransferNext]_transfer, Applied'
                 PROVE  SecondImportIsSilent'
    BY DEF SecondImportIsSilent
  <2>2. CASE db' = db /\ report' = report /\ Serial' = Serial
    BY <2>1, <2>2 DEF SecondImportIsSilent, Applied, Silent
  <2>3. CASE \E n \in Nat : \E d, ids :
               /\ Merged(d, n, report'.file, report'.branch, ids, db'[report'.server])
               /\ Serial' = n + 1
               /\ report'.extra = Extra(d, report'.file, ids)
    <3>0. PICK n \in Nat : \E d, ids :
            /\ Merged(d, n, report'.file, report'.branch, ids, db'[report'.server])
            /\ Serial' = n + 1
            /\ report'.extra = Extra(d, report'.file, ids)
      BY <2>3
    <3>1. PICK d, ids :
            /\ Merged(d, n, report'.file, report'.branch, ids, db'[report'.server])
            /\ Serial' = n + 1
            /\ report'.extra = Extra(d, report'.file, ids)
      BY <3>0
    <3>2. SUFFICES ASSUME ~Ambiguous(BranchPoints(db'[report'.server], report'.branch)),
                          \A i \in report'.extra, j \in DOMAIN BranchPoints(db'[report'.server], report'.branch) :
                            BranchPoints(db'[report'.server], report'.branch)[j].name =
                            BranchPoints(db'[report'.server], report'.branch)[i].name => i = j
                   PROVE  Silent(db[report.server], report.file)'
      BY DEF SecondImportIsSilent
    <3>3. SilentAt(db'[report'.server], report'.file, n + 1)
      BY <3>1, <3>2, SilentAgain
    <3>4. QED
      BY <3>1, <3>3 DEF SilentAt, Silent
  <2>4. CASE UNCHANGED transfer
    BY <2>2, <2>4 DEF transfer, Serial
  <2>5. QED
    BY <2>1, <2>2, <2>3, <2>4, AppliedStep
<1>3. QED
  BY <1>1, <1>2, TransferInvStands, PTL DEF TransferSpec

(* ---------------- The poller ---------------- *)

USE DEF PollerAssumption, NoneAssumption
USE PollerAssumption, NoneAssumption

(* ---- Types ---- *)

\* What the lock's steps leave is a lock.
LEMMA LockTypes ==
  ASSUME Lock!TypeOK
  PROVE  /\ \A h \in {"poller", "manual"} :
              Lock!Grant(h) \/ Lock!Return(h) \/ Lock!Die(h) => Lock!TypeOK'
         /\ Lock!Lapse => Lock!TypeOK'
         /\ UNCHANGED lock => Lock!TypeOK'
BY DEF Lock!TypeOK, Lock!Grant, Lock!Return, Lock!Die, Lock!Lapse, lock

\* The copy of a file that lies on the share has a key.
LEMMA KeyType ==
  ASSUME TypeOK, NEW f \in Files, share[f] # None
  PROVE  share[f] \in Copies /\ Key(f) \in Keys
BY DEF TypeOK, Copies, Key, Keys

LEMMA TypeInit ==
  ASSUME Init
  PROVE  TypeOK
<1>1. 0 \in 0 .. MaxTroubles  OBVIOUS
<1>2. Lock!TypeOK  BY DEF Init, Lock!Init, Lock!TypeOK
<1>3. /\ share \in [Files -> Copies \cup {None}]
      /\ copies \in [Files -> {0} \cup Versions]
  BY DEF Init
<1> QED  BY <1>1, <1>2, <1>3 DEF Init, TypeOK, Steps

LEMMA TypeStep ==
  ASSUME TypeOK, [Next]_vars
  PROVE  TypeOK'
<1> USE DEF disk, poller, lock, ghost
<1>1. ASSUME NEW f \in Files, NEW kind \in Kinds, copy(f, kind) PROVE TypeOK'
  <2>1. copies[f] + 1 \in 1 .. MaxCopies[f] /\ copies[f] + 1 \in Versions
    BY <1>1 DEF copy, TypeOK, Versions
  <2>2. copies' \in [Files -> {0} \cup Versions] /\ copies'[f] = copies[f] + 1
    BY <1>1, <2>1 DEF copy, TypeOK
  <2>3. [version |-> copies'[f], kind |-> kind, settled |-> FALSE] \in Copies
    BY <2>1, <2>2 DEF Copies
  <2>4. share' \in [Files -> Copies \cup {None}]
    BY <1>1, <2>3 DEF copy, TypeOK
  <2> QED  BY <1>1, <2>2, <2>4, LockTypes DEF copy, TypeOK
<1>2. ASSUME NEW f \in Files, remove(f) PROVE TypeOK'
  BY <1>2, LockTypes DEF remove, TypeOK
<1>3. ASSUME NEW p \in Paths, blink(p) \/ remount(p) PROVE TypeOK'
  BY <1>3, LockTypes DEF blink, remount, Trouble, TypeOK
<1>4. CASE list
  <2>1. \A f \in Files : Visible(f) => share[f].settled \in BOOLEAN /\ Key(f) \in Keys
    BY KeyType DEF Visible, Copies
  <2>2. listing' \subseteq [key : Keys, settled : BOOLEAN]
    BY <1>4, <2>1 DEF list
  <2> QED  BY <1>4, <2>2, LockTypes DEF list, TypeOK, Steps
<1>5. CASE scan
  <2>1. Wanted \subseteq Keys  BY DEF Wanted, TypeOK
  <2>2. DEFINE broken == {k \in Wanted : ~Opens(k[1])}
  <2>3. pending' \subseteq Keys /\ blamed' \subseteq Keys
    BY <1>5, <2>1 DEF scan, TypeOK
  <2>4. \A k \in broken : [key |-> k, status |-> "broken", age |-> 0] \in Row
    BY <2>1 DEF Row
  <2>5. log' \subseteq Row
    BY <1>5, <2>4 DEF scan, TypeOK
  <2>6. step' \in Steps  BY <1>5 DEF scan, Steps
  <2> QED  BY <1>5, <2>3, <2>5, <2>6, LockTypes DEF scan, TypeOK
<1>6. CASE acquire
  <2>1. Lock!TypeOK'  BY <1>6, LockTypes DEF acquire, TypeOK
  <2> QED  BY <1>6, <2>1 DEF acquire, TypeOK, Steps
<1>7. ASSUME NEW p \in Paths, process_path_group(p) PROVE TypeOK'
  <2>1. Unpacked(p) \subseteq Keys
    BY KeyType DEF Unpacked, Visible, Targets, PendingOn, TypeOK, Keys
  <2>2. PendingOn(p) \subseteq Keys  BY DEF PendingOn, TypeOK
  <2>3. /\ failed' \subseteq Paths /\ troubles' \in 0 .. MaxTroubles
        /\ read' \subseteq Keys /\ again' \subseteq Keys /\ blamed' \subseteq Keys
    <3>1. CASE path_missing(p)  BY <1>7, <3>1 DEF path_missing, TypeOK
    <3>2. CASE ingest(p)  BY <1>7, <2>1, <2>2, <3>2 DEF ingest, TypeOK
    <3>3. CASE \E routed \in BOOLEAN : engine_fails(p, routed)
      BY <1>7, <2>2, <3>3 DEF engine_fails, Trouble, TypeOK
    <3> QED  BY <1>7, <3>1, <3>2, <3>3 DEF process_path_group
  <2> QED  BY <1>7, <2>3, LockTypes DEF process_path_group, TypeOK, Steps
<1>8. CASE update_raises
  BY <1>8, LockTypes DEF update_raises, Trouble, TypeOK, Steps
<1>9. CASE finalize
  <2>1. Lock!TypeOK'  BY <1>9, LockTypes DEF finalize, TypeOK
  <2> QED  BY <1>9, <2>1 DEF finalize, Trouble, TypeOK, Steps
<1>10. CASE log_
  <2>1. \A k \in pending : [key |-> k, status |-> log_status(k), age |-> 0] \in Row
    BY DEF TypeOK, Row, log_status
  <2>2. log' \subseteq Row  BY <1>10, <2>1 DEF log_, TypeOK
  <2> QED  BY <1>10, <2>2, LockTypes DEF log_, TypeOK, Steps
<1>11. CASE crash
  <2>1. Lock!TypeOK'  BY <1>11, LockTypes DEF crash, TypeOK
  <2> QED  BY <1>11, <2>1 DEF crash, Trouble, TypeOK, Steps
<1>12. CASE manual_begin
  <2>1. Lock!TypeOK'  BY <1>12, LockTypes DEF manual_begin, TypeOK
  <2> QED  BY <1>12, <2>1 DEF manual_begin, Trouble, TypeOK
<1>13. CASE manual_end
  <2>1. Lock!TypeOK'  BY <1>13, LockTypes DEF manual_end, TypeOK
  <2>2. {Key(f) : f \in {g \in Files : Visible(g) /\ share[g].kind = "whole"}} \subseteq Keys
    BY KeyType DEF Visible
  <2> QED  BY <1>13, <2>1, <2>2 DEF manual_end, TypeOK
<1>14. CASE lapse
  <2>1. Lock!TypeOK'  BY <1>14, LockTypes DEF lapse, TypeOK
  <2> QED  BY <1>14, <2>1 DEF lapse, Trouble, TypeOK
<1>15. CASE tick
  <2>1. \A r \in log : [r EXCEPT !.age = Older(@)] \in Row
    BY DEF TypeOK, Row, Older
  <2>2. log' \subseteq Row  BY <1>15, <2>1 DEF tick
  <2>3. \A f \in Files : share[f] # None => [share[f] EXCEPT !.settled = TRUE] \in Copies
    BY KeyType DEF Copies
  <2>4. share' \in [Files -> Copies \cup {None}]  BY <1>15, <2>3 DEF tick
  <2> QED  BY <1>15, <2>2, <2>4, LockTypes DEF tick, TypeOK
<1>16. CASE UNCHANGED vars
  BY <1>16, LockTypes DEF vars, TypeOK
<1> QED
  BY <1>1, <1>2, <1>3, <1>4, <1>5, <1>6, <1>7, <1>8, <1>9, <1>10, <1>11, <1>12, <1>13,
     <1>14, <1>15, <1>16 DEF Next, PollerNext

\* The share, the log, the run and the lock keep their types.
THEOREM PollerTypes == Spec => []TypeOK
<1>1. Init => TypeOK  BY TypeInit
<1>2. TypeOK /\ [Next]_vars => TypeOK'  BY TypeStep
<1> QED  BY <1>1, <1>2, PTL DEF Spec

(* ---- The log against the share ---- *)

\* A copy on the share is the newest there was, and every key anybody remembers is
\* that of a copy there has been.
Seen(k) == k[2] <= copies[k[1]]

Versioned ==
  /\ \A f \in Files : share[f] # None => share[f].version = copies[f]
  /\ \A l \in listing : Seen(l.key)
  /\ \A k \in pending : Seen(k)
  /\ \A r \in log : Seen(r.key)

\* A copy logged as read lies where it lay, and the one row of its key says so.
KnownLies == \A m \in known : Lying(m)

KnownRow ==
  \A m \in known : \E r \in log :
    /\ r.key = m /\ r.status = "ok"
    /\ \A s \in log : s.key = m => s = r

\* A listing lasts until it is gone through; when it has anything of a folder it has
\* all that is known there, and of a file it names the copy that is known.
KnownListed ==
  /\ step # "listed" => listing = {}
  /\ step = "listed" => \A m \in known, l \in listing :
       PathOf[l.key[1]] = PathOf[m[1]] => \E n \in listing : n.key = m
  /\ \A m \in known, l \in listing : l.key[1] = m[1] => l.key = m

\* A run takes no file of which a copy is known, and never goes to work for nothing.
KnownSpared ==
  /\ \A m \in known, k \in pending : k[1] # m[1]
  /\ step \in {"scanned", "working"} => pending # {}

\* Of a folder that was gone through without being reported, what is whole was read,
\* or a failure nobody reports struck it.
Done(p) == p \in grouped \/ step \in {"ending", "logging"}

WorkDone ==
  \A k \in pending :
    step \in {"working", "ending", "logging"} /\ Done(PathOf[k[1]]) /\ PathOf[k[1]] \notin failed /\ Whole(k)
      => k \in read \cup blamed

\* A copy that was replaced or taken away does not come back: what lies on the share
\* after a step lay there before it, or is newer than every key remembered.
LEMMA StaysGone ==
  ASSUME TypeOK, Versioned, [Next]_vars, NEW k \in Keys, Seen(k)
  PROVE  /\ Seen(k)'
         /\ Lying(k)' => Lying(k) /\ share'[k[1]].kind = share[k[1]].kind
<1> USE DEF Keys
<1>1. ASSUME NEW f \in Files, NEW kind \in Kinds, copy(f, kind)
      PROVE  /\ Seen(k)'
             /\ Lying(k)' => Lying(k) /\ share'[k[1]].kind = share[k[1]].kind
  <2>1. k[1] \in Files /\ k[2] \in Nat /\ copies[f] \in Nat
    BY DEF TypeOK, Versions
  <2>2. CASE k[1] = f
    <3>1. copies'[f] = copies[f] + 1 /\ share'[f].version = copies[f] + 1
      BY <1>1 DEF copy, TypeOK
    <3>2. k[2] <= copies[f]  BY <2>2 DEF Seen
    <3>3. Seen(k)'  BY <2>1, <2>2, <3>1, <3>2 DEF Seen
    <3>4. Key(f)' # k  BY <2>1, <3>1, <3>2 DEF Key
    <3> QED  BY <2>2, <3>3, <3>4 DEF Lying
  <2>3. CASE k[1] # f
    <3>1. copies'[k[1]] = copies[k[1]] /\ share'[k[1]] = share[k[1]]
      BY <1>1, <2>1, <2>3 DEF copy, TypeOK
    <3> QED  BY <3>1 DEF Seen, Lying, Key
  <2> QED  BY <2>2, <2>3
<1>2. ASSUME NEW f \in Files, remove(f)
      PROVE  /\ Seen(k)'
             /\ Lying(k)' => Lying(k) /\ share'[k[1]].kind = share[k[1]].kind
  <2>1. copies' = copies /\ (share'[k[1]] = share[k[1]] \/ share'[k[1]] = None)
    BY <1>2 DEF remove, TypeOK
  <2> QED  BY <2>1 DEF Seen, Lying, Key
<1>3. CASE tick
  <2>1. copies' = copies  BY <1>3 DEF tick
  <2>2. CASE share[k[1]] = None
    <3>1. share'[k[1]] = None  BY <1>3, <2>2 DEF tick
    <3> QED  BY <2>1, <3>1 DEF Seen, Lying
  <2>3. CASE share[k[1]] # None
    <3>1. share[k[1]] \in Copies  BY <2>3, KeyType
    <3>2. share'[k[1]] = [share[k[1]] EXCEPT !.settled = TRUE]  BY <1>3, <2>3 DEF tick
    <3>3. share'[k[1]].version = share[k[1]].version /\ share'[k[1]].kind = share[k[1]].kind
      BY <3>1, <3>2 DEF Copies
    <3> QED  BY <2>1, <2>3, <3>3 DEF Seen, Lying, Key
  <2> QED  BY <2>2, <2>3
<1>4. CASE share' = share /\ copies' = copies
  BY <1>4 DEF Seen, Lying, Key
<1> QED
  BY <1>1, <1>2, <1>3, <1>4 DEF Next, PollerNext, vars, disk, blink, remount, list, scan,
     acquire, process_path_group, update_raises, finalize, log_, crash, manual_begin,
     manual_end, lapse

LEMMA VersionedStep ==
  ASSUME TypeOK, Versioned, [Next]_vars
  PROVE  Versioned'
<1>1. \A f \in Files : share'[f] # None => share'[f].version = copies'[f]
  <2>1. ASSUME NEW g \in Files, NEW kind \in Kinds, copy(g, kind), NEW f \in Files, share'[f] # None
        PROVE  share'[f].version = copies'[f]
    BY <2>1 DEF copy, TypeOK, Versioned
  <2>2. ASSUME NEW g \in Files, remove(g), NEW f \in Files, share'[f] # None
        PROVE  share'[f].version = copies'[f]
    BY <2>2 DEF remove, TypeOK, Versioned
  <2>3. ASSUME tick, NEW f \in Files, share'[f] # None
        PROVE  share'[f].version = copies'[f]
    <3>1. share[f] # None  BY <2>3 DEF tick
    <3>2. share[f] \in Copies  BY <3>1, KeyType
    <3>3. share'[f] = [share[f] EXCEPT !.settled = TRUE] /\ copies' = copies
      BY <2>3, <3>1 DEF tick
    <3> QED  BY <3>1, <3>2, <3>3 DEF Copies, Versioned
  <2>4. CASE share' = share /\ copies' = copies
    BY <2>4 DEF Versioned
  <2> QED
    BY <2>1, <2>2, <2>3, <2>4 DEF Next, PollerNext, vars, disk, blink, remount, list, scan,
       acquire, process_path_group, update_raises, finalize, log_, crash, manual_begin,
       manual_end, lapse
<1>2. \A k \in Keys : Seen(k) => Seen(k)'
  BY StaysGone
<1>3. \A k \in Wanted : k \in Keys /\ Seen(k)
  BY DEF Wanted, TypeOK, Versioned
<1>4. \A l \in listing' : Seen(l.key)'
  <2>1. CASE list
    <3>1. \A f \in Files : Visible(f) => Seen(Key(f))
      BY DEF Visible, Seen, Key, Versioned, TypeOK, Versions
    <3>2. copies' = copies  BY <2>1 DEF list, disk
    <3> QED  BY <2>1, <3>1, <3>2 DEF list, Seen
  <2>2. CASE listing' = listing \/ listing' = {}
    BY <1>2, <2>2 DEF Versioned, TypeOK
  <2> QED
    BY <2>1, <2>2 DEF Next, PollerNext, vars, poller, copy, remove, blink, remount, scan,
       acquire, process_path_group, update_raises, finalize, log_, crash, manual_begin,
       manual_end, lapse, tick
<1>5. \A k \in pending' : Seen(k)'
  <2>1. pending' \subseteq pending \cup Wanted
    BY DEF Next, PollerNext, vars, poller, copy, remove, blink, remount, list, scan,
       acquire, process_path_group, update_raises, finalize, log_, crash, manual_begin,
       manual_end, lapse, tick
  <2> QED  BY <1>2, <1>3, <2>1 DEF Versioned, TypeOK
<1>6. \A r \in log' : Seen(r.key)'
  <2>1. \A r \in log' : r.key \in Wanted \cup pending \/ \E s \in log : s.key = r.key
    <3>1. CASE scan  BY <3>1 DEF scan
    <3>2. CASE log_  BY <3>2 DEF log_
    <3>3. CASE tick  BY <3>3 DEF tick, TypeOK, Row
    <3>4. CASE log' = log  BY <3>4
    <3> QED
      BY <3>1, <3>2, <3>3, <3>4 DEF Next, PollerNext, vars, copy, remove, blink, remount, list,
         acquire, process_path_group, update_raises, finalize, crash, manual_begin,
         manual_end, lapse
  <2>2. \A s \in log : s.key \in Keys /\ Seen(s.key)  BY DEF TypeOK, Row, Versioned
  <2>3. \A k \in pending : k \in Keys /\ Seen(k)  BY DEF TypeOK, Versioned
  <2>4. \A r \in log' : r.key \in Keys /\ Seen(r.key)  BY <1>3, <2>1, <2>2, <2>3
  <2> QED  BY <1>2, <2>4
<1> QED  BY <1>1, <1>4, <1>5, <1>6 DEF Versioned

(* ---- What is known is not read again ---- *)

LEMMA KnownLiesStep ==
  ASSUME TypeOK, KnownLies, [Next]_vars
  PROVE  KnownLies'
<1>1. ASSUME NEW f \in Files, NEW kind \in Kinds, copy(f, kind) PROVE KnownLies'
  <2>1. \A g \in Files : g # f => share'[g] = share[g]  BY <1>1 DEF copy, TypeOK
  <2>2. \A m \in known' : m \in known /\ m[1] \in Files /\ m[1] # f
    BY <1>1 DEF copy, TypeOK, Keys
  <2> QED  BY <2>1, <2>2 DEF KnownLies, Lying, Key
<1>2. ASSUME NEW f \in Files, remove(f) PROVE KnownLies'
  <2>1. \A g \in Files : g # f => share'[g] = share[g]  BY <1>2 DEF remove, TypeOK
  <2>2. \A m \in known' : m \in known /\ m[1] \in Files /\ m[1] # f
    BY <1>2 DEF remove, TypeOK, Keys
  <2> QED  BY <2>1, <2>2 DEF KnownLies, Lying, Key
<1>3. CASE log_
  BY <1>3 DEF log_, disk, KnownLies, Lying, Key
<1>4. CASE tick
  <2> SUFFICES ASSUME NEW m \in known PROVE Lying(m)'
    BY <1>4 DEF tick, ghost, KnownLies
  <2>1. m[1] \in Files /\ share[m[1]] # None /\ Key(m[1]) = m
    BY DEF KnownLies, Lying, TypeOK, Keys
  <2>2. share[m[1]] \in Copies  BY <2>1, KeyType
  <2>3. share'[m[1]] = [share[m[1]] EXCEPT !.settled = TRUE]  BY <1>4, <2>1 DEF tick
  <2>4. share'[m[1]] \in Copies /\ share'[m[1]].version = share[m[1]].version
    BY <2>2, <2>3 DEF Copies
  <2>5. share'[m[1]] # None  BY <2>4
  <2> QED  BY <2>1, <2>4, <2>5 DEF Lying, Key
<1>5. CASE share' = share /\ known' = known
  BY <1>5 DEF KnownLies, Lying, Key
<1> QED
  BY <1>1, <1>2, <1>3, <1>4, <1>5 DEF Next, PollerNext, vars, disk, ghost, blink, remount,
     list, scan, acquire, process_path_group, path_missing, ingest, engine_fails,
     update_raises, finalize, crash, manual_begin, manual_end, lapse

\* What is known is handled, whatever its row ages to.
LEMMA KnownHandled ==
  ASSUME TypeOK, KnownRow, NEW m \in known
  PROVE  Handled(m)
<1>1. PICK r \in log : r.key = m /\ r.status = "ok" /\ \A s \in log : s.key = m => s = r
  BY DEF KnownRow
<1>2. r.age <= r.age  BY DEF TypeOK, Row
<1>3. r \in Newest(log)  BY <1>1, <1>2 DEF Newest
<1> QED  BY <1>1, <1>3 DEF Handled

LEMMA KnownRowStep ==
  ASSUME TypeOK, KnownRow, KnownListed, KnownSpared, [Next]_vars
  PROVE  KnownRow'
<1>1. CASE scan
  <2> SUFFICES ASSUME NEW m \in known
               PROVE  \E r \in log' : /\ r.key = m /\ r.status = "ok"
                                      /\ \A s \in log' : s.key = m => s = r
    BY <1>1 DEF scan, KnownRow
  <2>1. PICK r \in log : r.key = m /\ r.status = "ok" /\ \A s \in log : s.key = m => s = r
    BY DEF KnownRow
  <2>2. m \notin Wanted  BY KnownHandled DEF Wanted
  <2>3. r \notin Forgotten
    <3> SUFFICES ASSUME r \in Forgotten PROVE FALSE
      OBVIOUS
    <3>1. PICK l \in listing : PathOf[l.key[1]] = PathOf[m[1]]
      BY <2>1 DEF Forgotten
    <3>2. PICK n \in listing : n.key = m
      BY <1>1, <3>1 DEF scan, KnownListed
    <3> QED  BY <2>1, <3>2 DEF Forgotten
  <2>4. r \in log'  BY <1>1, <2>3 DEF scan
  <2>5. \A s \in log' : s.key = m => s \in log  BY <1>1, <2>2 DEF scan
  <2> QED  BY <2>1, <2>4, <2>5
<1>2. CASE log_
  <2> SUFFICES ASSUME NEW m \in known'
               PROVE  \E r \in log' : /\ r.key = m /\ r.status = "ok"
                                      /\ \A s \in log' : s.key = m => s = r
    BY DEF KnownRow
  <2>1. CASE m \in known
    <3>1. PICK r \in log : r.key = m /\ r.status = "ok" /\ \A s \in log : s.key = m => s = r
      BY <2>1 DEF KnownRow
    <3>2. \A k \in pending : k[1] # m[1]  BY <2>1 DEF KnownSpared
    <3>3. r \in log'  BY <1>2, <3>1, <3>2 DEF log_
    <3>4. \A s \in log' : s.key = m => s \in log  BY <1>2, <3>2 DEF log_
    <3> QED  BY <3>1, <3>3, <3>4
  <2>2. CASE m \notin known
    <3>1. m \in pending /\ log_status(m) = "ok"  BY <1>2, <2>2 DEF log_
    <3> DEFINE r == [key |-> m, status |-> log_status(m), age |-> 0]
    <3>2. r \in log'  BY <1>2, <3>1 DEF log_
    <3>3. \A s \in log' : s.key = m => s = r  BY <1>2, <3>1 DEF log_
    <3> QED  BY <3>1, <3>2, <3>3
  <2> QED  BY <2>1, <2>2
<1>3. CASE tick
  <2> SUFFICES ASSUME NEW m \in known
               PROVE  \E r \in log' : /\ r.key = m /\ r.status = "ok"
                                      /\ \A s \in log' : s.key = m => s = r
    BY <1>3 DEF tick, ghost, KnownRow
  <2>1. PICK r \in log : r.key = m /\ r.status = "ok" /\ \A s \in log : s.key = m => s = r
    BY DEF KnownRow
  <2> DEFINE older(q) == [q EXCEPT !.age = Older(@)]
  <2>2. \A q \in log : older(q).key = q.key /\ older(q).status = q.status
    BY DEF TypeOK, Row
  <2>3. log' = {older(q) : q \in log}  BY <1>3 DEF tick
  <2> HIDE DEF older
  <2>4. older(r) \in log' /\ older(r).key = m /\ older(r).status = "ok"  BY <2>1, <2>2, <2>3
  <2>5. \A s \in log' : s.key = m => s = older(r)  BY <2>1, <2>2, <2>3
  <2> QED  BY <2>4, <2>5
<1>4. CASE log' = log /\ known' \subseteq known
  BY <1>4 DEF KnownRow
<1> QED
  BY <1>1, <1>2, <1>3, <1>4 DEF Next, PollerNext, vars, ghost, copy, remove, blink, remount,
     list, acquire, process_path_group, update_raises, finalize, crash, manual_begin,
     manual_end, lapse

LEMMA KnownListedStep ==
  ASSUME TypeOK, KnownLies, KnownListed, [Next]_vars
  PROVE  KnownListed'
<1>1. CASE list
  <2> DEFINE entry(f) == [key |-> Key(f), settled |-> share[f].settled]
  <2>1. known' = known /\ step' = "listed" /\ listing' = {entry(f) : f \in {g \in Files : Visible(g)}}
    BY <1>1 DEF list, ghost
  <2>2. \A m \in known : m[1] \in Files /\ Key(m[1]) = m /\ share[m[1]] # None
    BY DEF KnownLies, Lying, TypeOK, Keys
  <2>3. ASSUME NEW m \in known, NEW l \in listing', PathOf[l.key[1]] = PathOf[m[1]]
        PROVE  \E n \in listing' : n.key = m
    <3>1. PICK f \in Files : Visible(f) /\ l = entry(f)  BY <2>1
    <3>2. l.key[1] = f  BY <3>1 DEF Key
    <3>3. Visible(m[1])  BY <2>2, <2>3, <3>1, <3>2 DEF Visible
    <3>4. entry(m[1]) \in listing'  BY <2>1, <2>2, <3>3
    <3>5. entry(m[1]).key = m  BY <2>2
    <3> QED  BY <3>4, <3>5
  <2>4. ASSUME NEW m \in known, NEW l \in listing', l.key[1] = m[1] PROVE l.key = m
    <3>1. PICK f \in Files : l = entry(f)  BY <2>1
    <3>2. l.key = Key(f) /\ l.key[1] = f  BY <3>1 DEF Key
    <3> QED  BY <2>2, <2>4, <3>2
  <2> QED  BY <2>1, <2>3, <2>4 DEF KnownListed
<1>2. CASE listing' = {} /\ step' # "listed"
  BY <1>2 DEF KnownListed
<1>3. CASE listing' = listing /\ step' = step /\ known' \subseteq known
  BY <1>3 DEF KnownListed
<1>4. ASSUME step # "listed", step' # "listed", listing' = listing PROVE KnownListed'
  BY <1>4 DEF KnownListed
<1> QED
  BY <1>1, <1>2, <1>3, <1>4 DEF Next, PollerNext, vars, ghost, poller, copy, remove, blink,
     remount, scan, acquire, process_path_group, update_raises, finalize, log_, crash,
     manual_begin, manual_end, lapse, tick

LEMMA KnownSparedStep ==
  ASSUME TypeOK, KnownRow, KnownListed, KnownSpared, [Next]_vars
  PROVE  KnownSpared'
<1>1. CASE scan
  <2>1. ASSUME NEW m \in known, NEW k \in Wanted PROVE k[1] # m[1]
    <3>1. PICK l \in listing : l.key = k /\ ~Handled(k)  BY DEF Wanted
    <3>2. k[1] = m[1] => k = m  BY <3>1 DEF KnownListed
    <3> QED  BY <3>1, <3>2, KnownHandled
  <2>2. pending' \subseteq Wanted /\ known' = known  BY <1>1 DEF scan
  <2>3. step' \in {"scanned", "working"} => pending' # {}  BY <1>1 DEF scan
  <2> QED  BY <2>1, <2>2, <2>3 DEF KnownSpared
<1>2. CASE pending' = {} /\ step' = "idle"
  BY <1>2 DEF KnownSpared
<1>3. CASE pending' = pending /\ known' \subseteq known /\ (step' = step \/ step' \notin {"scanned", "working"})
  BY <1>3 DEF KnownSpared
<1>4. ASSUME pending' = pending, known' = known, step \in {"scanned", "working"}
      PROVE  KnownSpared'
  BY <1>4 DEF KnownSpared
<1> QED
  BY <1>1, <1>2, <1>3, <1>4 DEF Next, PollerNext, vars, ghost, poller, copy, remove, blink,
     remount, list, acquire, process_path_group, update_raises, finalize, log_, crash,
     manual_begin, manual_end, lapse, tick

KnownInv == KnownLies /\ KnownRow /\ KnownListed /\ KnownSpared

LEMMA KnownInit ==
  ASSUME Init
  PROVE  KnownInv
BY DEF Init, KnownInv, KnownLies, KnownRow, KnownListed, KnownSpared

LEMMA KnownStep ==
  ASSUME TypeOK, KnownInv, [Next]_vars
  PROVE  KnownInv'
BY KnownLiesStep, KnownRowStep, KnownListedStep, KnownSparedStep DEF KnownInv

\* Of a folder that something is read in, nothing known is unpacked.
LEMMA NamedAlone ==
  ASSUME TypeOK, KnownSpared, NEW p \in Paths, PendingOn(p) # {}
  PROVE  Unpacked(p) \cap known = {}
<1>1. ASSUME NEW u \in Unpacked(p), u \in known PROVE FALSE
  <2>1. PICK f \in Targets(p) : u = Key(f)  BY <1>1 DEF Unpacked
  <2>2. PICK k \in pending : f = k[1]  BY <2>1 DEF Targets, PendingOn
  <2>3. u[1] = f  BY <2>1 DEF Key
  <2> QED  BY <1>1, <2>2, <2>3 DEF KnownSpared
<1> QED  BY <1>1

LEMMA AgainStep ==
  ASSUME TypeOK, KnownInv, [Next]_vars
  PROVE  \A k \in again' \ again : PendingOn(PathOf[k[1]]) = {} /\ pending # {}
<1>1. ASSUME NEW p \in Paths, process_path_group(p), NEW k \in again' \ again
      PROVE  PendingOn(PathOf[k[1]]) = {} /\ pending # {}
  <2>1. k \in Unpacked(p) \cap known
    BY <1>1 DEF process_path_group, path_missing, ingest, engine_fails
  <2>2. PendingOn(p) = {}  BY <2>1, NamedAlone DEF KnownInv
  <2>3. PICK f \in Files : f \in Targets(p) /\ k = Key(f)
    BY <2>1, <2>2 DEF Unpacked, Targets
  <2>4. PathOf[k[1]] = p  BY <2>2, <2>3 DEF Targets, Key
  <2>5. pending # {}  BY <1>1 DEF process_path_group, KnownInv, KnownSpared
  <2> QED  BY <2>2, <2>4, <2>5
<1>2. CASE again' = again
  BY <1>2
<1> QED
  BY <1>1, <1>2 DEF Next, PollerNext, vars, ghost, copy, remove, blink, remount, list, scan,
     acquire, update_raises, finalize, log_, crash, manual_begin, manual_end, lapse, tick

\* What is read a second time lies in a folder none of the new archives are in
\* (update_hostlibs: no names on a path mean every archive of it), whatever is
\* replaced, fails, dies or is asked for by hand.
THEOREM OnlyElsewhere == Spec => AgainElsewhere
<1>1. Init => KnownInv  BY KnownInit
<1>2. TypeOK /\ KnownInv /\ [Next]_vars => KnownInv'  BY KnownStep
<1>3. TypeOK /\ KnownInv /\ [Next]_vars =>
        [\A k \in again' \ again : PendingOn(PathOf[k[1]]) = {} /\ pending # {}]_vars
  BY AgainStep
<1> QED  BY <1>1, <1>2, <1>3, PollerTypes, PTL DEF Spec, AgainElsewhere

(* ---- What the log shuts out ---- *)

\* A whole copy that a step left whole was whole before it.
LEMMA WasWhole ==
  ASSUME TypeOK, Versioned, [Next]_vars, NEW k \in Keys, Seen(k)
  PROVE  Whole(k)' => Whole(k)
BY StaysGone DEF Whole

\* Nothing is forgotten of what was read or blamed.
LEMMA Remembered ==
  ASSUME [Next]_vars
  PROVE  read \subseteq read' /\ blamed \subseteq blamed'
BY DEF Next, PollerNext, vars, ghost, copy, remove, blink, remount, list, scan, acquire,
   process_path_group, path_missing, ingest, engine_fails, update_raises, finalize, log_,
   crash, manual_begin, manual_end, lapse, tick

LEMMA WorkDoneStep ==
  ASSUME TypeOK, Versioned, WorkDone, [Next]_vars
  PROVE  WorkDone'
<1>1. \A k \in pending : k \in Keys /\ Seen(k) /\ k[1] \in Files /\ PathOf[k[1]] \in Paths
  BY DEF TypeOK, Versioned, Keys
<1>2. \A k \in pending : Whole(k)' => Whole(k)
  BY <1>1, WasWhole
<1>3. ASSUME NEW p \in Paths, process_path_group(p) PROVE WorkDone'
  <2>1. step = "working" /\ grouped' = grouped \cup {p} /\ pending' = pending
    BY <1>3 DEF process_path_group
  <2>2. step' # "working" => grouped' = Paths
    BY <1>3 DEF process_path_group
  <2> SUFFICES ASSUME NEW k \in pending, Done(PathOf[k[1]])', PathOf[k[1]] \notin failed', Whole(k)'
               PROVE  k \in read' \cup blamed'
    BY <2>1 DEF WorkDone
  <2>3. PathOf[k[1]] \in grouped'
    BY <1>1, <2>2 DEF Done
  <2>4. failed \subseteq failed'
    BY <1>3 DEF process_path_group, path_missing, ingest, engine_fails
  <2>5. Whole(k)  BY <1>2
  <2>6. CASE PathOf[k[1]] \in grouped
    <3>1. k \in read \cup blamed
      BY <2>1, <2>4, <2>5, <2>6 DEF WorkDone, Done
    <3> QED  BY <3>1, Remembered
  <2>7. CASE PathOf[k[1]] = p
    <3>1. k \in PendingOn(p)  BY <2>7 DEF PendingOn
    <3>2. ~path_missing(p)  BY <2>7 DEF path_missing
    <3>3. CASE ingest(p)
      <4>1. CASE p \in reachable
        <5>1. k[1] \in Targets(p) /\ k[1] \in Files  BY <1>1, <3>1 DEF Targets
        <5>2. Visible(k[1]) /\ share[k[1]].kind = "whole" /\ Key(k[1]) = k
          BY <2>5, <2>7, <4>1 DEF Visible, Whole, Lying
        <5>3. k \in Unpacked(p)  BY <5>1, <5>2 DEF Unpacked
        <5> QED  BY <3>3, <5>3 DEF ingest
      <4>2. CASE p \notin reachable
        BY <3>1, <3>3, <4>2 DEF ingest
      <4> QED  BY <4>1, <4>2
    <3>4. CASE \E routed \in BOOLEAN : engine_fails(p, routed)
      BY <2>7, <3>1, <3>4 DEF engine_fails
    <3> QED  BY <1>3, <3>2, <3>3, <3>4 DEF process_path_group
  <2> QED  BY <2>1, <2>3, <2>6, <2>7
<1>4. CASE update_raises
  <2>1. pending' = pending /\ blamed' = blamed \cup pending  BY <1>4 DEF update_raises
  <2> QED  BY <2>1 DEF WorkDone
<1>5. CASE acquire
  <2>1. step' # "working" \/ (grouped' = {} /\ step' = "working")  BY <1>5 DEF acquire
  <2>2. step' \in {"working", "idle"}  BY <1>5 DEF acquire
  <2> QED  BY <2>1, <2>2 DEF WorkDone, Done
<1>6. ASSUME pending' = pending, failed' = failed, grouped' = grouped,
             step' = step \/ (step = "ending" /\ step' = "logging") \/ step' \notin {"working", "ending", "logging"}
      PROVE  WorkDone'
  <2> SUFFICES ASSUME NEW k \in pending, step' \in {"working", "ending", "logging"},
                      Done(PathOf[k[1]])', PathOf[k[1]] \notin failed, Whole(k)'
               PROVE  k \in read' \cup blamed'
    BY <1>6 DEF WorkDone
  <2>1. Whole(k)  BY <1>2
  <2>2. step \in {"working", "ending", "logging"} /\ Done(PathOf[k[1]])
    BY <1>6 DEF Done
  <2>3. k \in read \cup blamed  BY <2>1, <2>2 DEF WorkDone
  <2> QED  BY <2>3, Remembered
<1>7. CASE step' \in {"idle", "scanned"}
  BY <1>7 DEF WorkDone
<1> QED
  BY <1>3, <1>4, <1>5, <1>6, <1>7 DEF Next, PollerNext, vars, poller, copy, remove, blink,
     remount, list, scan, finalize, log_, crash, manual_begin, manual_end, lapse, tick

LEMMA ShutOutStep ==
  ASSUME TypeOK, Versioned, WorkDone, OnlyBlamedAreShutOut, [Next]_vars
  PROVE  OnlyBlamedAreShutOut'
<1>1. \A r \in log : r.key \in Keys /\ Seen(r.key)
  BY DEF TypeOK, Row, Versioned
<1>2. \A r \in log : Whole(r.key)' => Whole(r.key)
  BY <1>1, WasWhole
<1>3. \A r \in log : r.status # "error" /\ Whole(r.key)' => r.key \in read' \cup blamed'
  BY <1>2, Remembered DEF OnlyBlamedAreShutOut
<1>4. CASE scan
  <2>1. ASSUME NEW k \in Wanted, ~Opens(k[1]), Whole(k)' PROVE k \in blamed'
    <3>1. k \in Keys /\ k[1] \in Files  BY DEF Wanted, TypeOK, Keys
    <3>2. share' = share  BY <1>4 DEF scan, disk
    <3>3. share[k[1]] # None /\ share[k[1]].kind = "whole"
      BY <2>1, <3>2 DEF Whole, Lying
    <3>4. PathOf[k[1]] \notin reachable  BY <2>1, <3>3 DEF Opens, Visible
    <3> QED  BY <1>4, <2>1, <3>4 DEF scan
  <2>2. \A r \in log' : r \in log \/ \E k \in Wanted : ~Opens(k[1]) /\ r.key = k
    BY <1>4 DEF scan
  <2> QED  BY <1>3, <2>1, <2>2 DEF OnlyBlamedAreShutOut
<1>5. CASE log_
  <2>1. ASSUME NEW k \in pending, log_status(k) # "error", Whole(k)' PROVE k \in read' \cup blamed'
    <3>1. PathOf[k[1]] \notin failed  BY <2>1 DEF log_status
    <3>2. Whole(k)  BY <2>1, WasWhole DEF TypeOK, Versioned
    <3>3. step = "logging"  BY <1>5 DEF log_
    <3>4. k \in read \cup blamed  BY <3>1, <3>2, <3>3 DEF WorkDone, Done
    <3> QED  BY <3>4, Remembered
  <2>2. \A r \in log' : r \in log \/ \E k \in pending : r.key = k /\ r.status = log_status(k)
    BY <1>5 DEF log_
  <2> QED  BY <1>3, <2>1, <2>2 DEF OnlyBlamedAreShutOut
<1>6. CASE tick
  <2>1. \A r \in log' : \E s \in log : r.key = s.key /\ r.status = s.status
    BY <1>6 DEF tick, TypeOK, Row
  <2> QED  BY <1>3, <2>1 DEF OnlyBlamedAreShutOut
<1>7. CASE log' = log
  BY <1>3, <1>7 DEF OnlyBlamedAreShutOut
<1> QED
  BY <1>4, <1>5, <1>6, <1>7 DEF Next, PollerNext, vars, copy, remove, blink, remount, list,
     acquire, process_path_group, update_raises, finalize, crash, manual_begin, manual_end,
     lapse

ShutOutInv == Versioned /\ WorkDone /\ OnlyBlamedAreShutOut

\* The log shuts a whole copy out that was never read only when the share was away,
\* a run failed as a whole, or an engine failed outside the routed mode, for any
\* folders, files, copies and failures.
THEOREM ShutOut == Spec => []OnlyBlamedAreShutOut
<1>1. Init => ShutOutInv
  BY DEF Init, ShutOutInv, Versioned, WorkDone, OnlyBlamedAreShutOut
<1>2. TypeOK /\ ShutOutInv /\ [Next]_vars => ShutOutInv'
  BY VersionedStep, WorkDoneStep, ShutOutStep DEF ShutOutInv
<1>3. ShutOutInv => OnlyBlamedAreShutOut  BY DEF ShutOutInv
<1> QED  BY <1>1, <1>2, <1>3, PollerTypes, PTL DEF Spec
=============================================================================
