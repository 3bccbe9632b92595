-------------------------- MODULE DpdRefresh_proofs --------------------------
(***************************************************************************)
(* What the refreshes of the correctors' archive leave in it, for any       *)
(* number of devices, runs, overtaken locks, failures and polls by hand.    *)
(***************************************************************************)
EXTENDS DpdRefresh, TLAPS, WellFoundedInduction, FiniteSetTheorems

USE DEF CalendarAssumption, RefreshAssumption
USE CalendarAssumption, RefreshAssumption

(* ---- The largest and the smallest of a set of days ---- *)

\* A set of naturals that is not empty has a least member.
LEMMA LeastOf ==
  ASSUME NEW S \in SUBSET Nat, S # {}
  PROVE  \E x \in S : \A y \in S : x <= y
<1>1. PICK x \in S : \A y \in S : ~ (<<y, x>> \in OpToRel(<, Nat))
  BY WFMin, NatLessThanWellFounded
<1>2. ASSUME NEW y \in S PROVE x <= y
  <2>1. x \in Nat /\ y \in Nat  OBVIOUS
  <2>2. y < x => <<y, x>> \in OpToRel(<, Nat)  BY <2>1, Zenon DEF OpToRel
  <2>3. ~ (y < x)  BY <1>1, <2>2, Zenon
  <2> QED  BY <2>1, <2>3
<1> QED  BY <1>2

\* The library's Min and Max of a set of integers with a bound are among its members.
LEMMA MinIn ==
  ASSUME NEW S \in SUBSET Int, S # {}, NEW b \in Int, \A y \in S : b <= y
  PROVE  Min(S) \in S /\ \A y \in S : Min(S) <= y
<1> DEFINE T == {n \in Nat : b + n \in S}
<1>1. PICK s \in S : TRUE  OBVIOUS
<1>2. s \in Int /\ b <= s /\ s - b \in Nat /\ b + (s - b) = s  BY <1>1
<1>3. s - b \in T  BY <1>1, <1>2
<1>4. PICK x \in T : \A y \in T : x <= y  BY <1>3, LeastOf
<1>5. b + x \in S  BY <1>4
<1>6. ASSUME NEW y \in S PROVE b + x <= y
  <2>1. y \in Int /\ y - b \in Nat /\ b + (y - b) = y  OBVIOUS
  <2>2. y - b \in T  BY <2>1
  <2>3. x <= y - b /\ x \in Nat  BY <2>2, <1>4
  <2> QED  BY <2>1, <2>3
<1> QED  BY <1>5, <1>6 DEF Min

LEMMA MaxIn ==
  ASSUME NEW S \in SUBSET Int, S # {}, NEW b \in Int, \A y \in S : y <= b
  PROVE  Max(S) \in S /\ \A y \in S : Max(S) >= y
<1> DEFINE T == {n \in Nat : b - n \in S}
<1>1. PICK s \in S : TRUE  OBVIOUS
<1>2. s \in Int /\ s <= b /\ b - s \in Nat /\ b - (b - s) = s  BY <1>1
<1>3. b - s \in T  BY <1>1, <1>2
<1>4. PICK x \in T : \A y \in T : x <= y  BY <1>3, LeastOf
<1>5. b - x \in S  BY <1>4
<1>6. ASSUME NEW y \in S PROVE b - x >= y
  <2>1. y \in Int /\ b - y \in Nat /\ b - (b - y) = y  OBVIOUS
  <2>2. b - y \in T  BY <2>1
  <2>3. x <= b - y /\ x \in Nat  BY <2>2, <1>4
  <2> QED  BY <2>1, <2>3
<1> QED  BY <1>5, <1>6 DEF Max

(* ---- Gas days ---- *)

\* A moment belongs to the gas day that opened last.
LEMMA OpeningDay ==
  ASSUME NEW t \in Int, NEW k \in Int
  PROVE  day_of(t) \in Int /\ (Opening(k) <= t <=> k <= day_of(t))
<1> DEFINE L == DayLength
           q == t \div L
           m == t % L
           d == day_of(t)
<1>1. /\ L \in Nat \ {0} /\ ContractHour \in 0 .. L - 1
      /\ q \in Int /\ m \in 0 .. L - 1 /\ t = L * q + m
  OBVIOUS
<1>2. d = IF m < ContractHour THEN q - 1 ELSE q  BY DEF day_of
<1>3. d \in Int  BY <1>1, <1>2
<1>4. L * d + ContractHour <= t /\ t < L * d + L + ContractHour
  <2>1. CASE m < ContractHour
    <3>1. L * d = L * q - L  BY <1>1, <1>2, <2>1
    <3> QED  BY <1>1, <2>1, <3>1
  <2>2. CASE ~(m < ContractHour)
    BY <1>1, <1>2, <2>2
  <2> QED  BY <2>1, <2>2
<1>5. Opening(k) = L * k + ContractHour  BY <1>1 DEF Opening
<1>6. CASE k <= d
  <2>1. L * k <= L * d  BY <1>1, <1>3, <1>6
  <2>2. L * k \in Int /\ L * d \in Int  BY <1>1, <1>3
  <2> QED  BY <1>1, <1>3, <1>4, <1>5, <1>6, <2>1, <2>2
<1>7. CASE ~(k <= d)
  <2>1. L * (d + 1) <= L * k  BY <1>1, <1>3, <1>7
  <2>2. L * (d + 1) = L * d + L  BY <1>1, <1>3
  <2>3. L * k \in Int /\ L * d \in Int  BY <1>1, <1>3
  <2> QED  BY ONLY t \in Int, k \in Int, <1>1, <1>3, <1>4, <1>5, <1>7, <2>1, <2>2, <2>3
<1> QED  BY <1>3, <1>6, <1>7

\* The date of a moment, and the gas day it belongs to, which may be the one before.
LEMMA DateOf ==
  ASSUME NEW t \in Int, NEW k \in Int
  PROVE  /\ t \div DayLength \in Int
         /\ k * DayLength <= t <=> k <= t \div DayLength
         /\ day_of(t) <= t \div DayLength /\ t \div DayLength <= day_of(t) + 1
<1> DEFINE L == DayLength
           q == t \div L
           m == t % L
<1>1. /\ L \in Nat \ {0} /\ q \in Int /\ m \in 0 .. L - 1 /\ t = L * q + m
  OBVIOUS
<1>2. day_of(t) = IF m < ContractHour THEN q - 1 ELSE q  BY DEF day_of
<1> HIDE DEF q, m
<1>3. k * L = L * k /\ L * k \in Int /\ L * q \in Int  BY <1>1
<1>4. CASE k <= q
  <2>1. L * k <= L * q  BY <1>1, <1>4
  <2> QED  BY <1>1, <1>3, <1>4, <2>1, <1>2 DEF q
<1>5. CASE ~(k <= q)
  <2>1. L * (q + 1) <= L * k  BY <1>1, <1>5
  <2>2. L * (q + 1) = L * q + L  BY <1>1
  <2> QED  BY <1>1, <1>3, <1>5, <2>1, <2>2, <1>2 DEF q
<1> QED  BY <1>4, <1>5

\* The openings of the days follow each other.
LEMMA OpeningsGrow ==
  ASSUME NEW j \in Int, NEW k \in Int
  PROVE  /\ Opening(j) \in Int /\ Opening(0) = ContractHour
         /\ j <= k <=> Opening(j) <= Opening(k)
         /\ j * DayLength <= Opening(j) /\ Opening(j) < (j + 1) * DayLength
         /\ j * DayLength \in Int /\ (j + 1) * DayLength \in Int
<1> DEFINE L == DayLength
<1>1. L \in Nat \ {0} /\ ContractHour \in 0 .. L - 1  OBVIOUS
<1>2. /\ Opening(j) = L * j + ContractHour /\ Opening(k) = L * k + ContractHour /\ Opening(0) = ContractHour
      /\ j * L = L * j /\ L * j \in Int /\ L * k \in Int /\ (j + 1) * L = L * j + L
  BY <1>1 DEF Opening
<1> HIDE DEF L
<1>3. CASE j <= k
  <2>1. L * j <= L * k  BY <1>1, <1>3
  <2> QED  BY <1>1, <1>2, <1>3, <2>1 DEF L
<1>4. CASE ~(j <= k)
  <2>1. L * (k + 1) <= L * j  BY <1>1, <1>4
  <2>2. L * (k + 1) = L * k + L  BY <1>1
  <2> QED  BY <1>1, <1>2, <1>4, <2>1, <2>2 DEF L
<1> QED  BY <1>3, <1>4

\* Of the chunks of a stretch one holds each of its days.
LEMMA ChunkOf ==
  ASSUME NEW period, NEW d, NEW start \in Int, NEW stop \in Int, NEW k \in start .. stop
  PROVE  \E q \in Chunks(period, d, start, stop) :
           q.period = period /\ q.device = d /\ q.first <= k /\ k <= q.last /\ q.first \in Int /\ q.last \in Int
<1> DEFINE C == ChunkDays
           m == (k - start) % C
           f == k - m
<1>1. C \in Nat \ {0} /\ k - start \in Nat  OBVIOUS
<1>2. m \in 0 .. C - 1 /\ k - start = C * ((k - start) \div C) + m /\ (k - start) \div C \in Nat
  BY <1>1
<1>3. f \in start .. stop /\ f <= k /\ k <= f + C - 1
  <2>1. C * ((k - start) \div C) >= 0  BY <1>1, <1>2
  <2> HIDE DEF m
  <2> QED  BY <1>1, <1>2, <2>1
<1>4. (f - start) % C = 0
  <2>1. f - start = C * ((k - start) \div C)  BY <1>2
  <2>2. ASSUME NEW n \in Nat PROVE (C * n) % C = 0  BY <1>1
  <2> QED  BY <1>2, <2>1, <2>2
<1> DEFINE q == [period |-> period, device |-> d, first |-> f, last |-> Min({f + C - 1, stop})]
<1>5. q \in Chunks(period, d, start, stop)  BY <1>3, <1>4 DEF Chunks
<1>6. Min({f + C - 1, stop}) \in {f + C - 1, stop}
  <2> DEFINE S == {f + C - 1, stop}
             b == IF f + C - 1 <= stop THEN f + C - 1 ELSE stop
  <2>1. f \in Int /\ f + C - 1 \in Int  BY <1>1, <1>3
  <2> HIDE DEF f
  <2>2. S \in SUBSET Int /\ S # {} /\ b \in Int /\ \A y \in S : b <= y  BY <2>1
  <2>3. Min(S) \in S  BY ONLY <2>2, MinIn
  <2> QED  BY <2>3
<1> HIDE DEF f, m
<1>7. q.first <= k /\ k <= q.last /\ q.first \in Int /\ q.last \in Int  BY <1>1, <1>3, <1>6
<1> QED  BY <1>5, <1>7

(* ---- The invariant ---- *)

\* What a process is in the middle of.
Run == [at : {"begun", "polling"}, since : Nat \cup {Routine}, until : Nat, todo : SUBSET Poll,
        ends : UNION {[D -> Days] : D \in SUBSET Devices}, began : Int, clean : BOOLEAN, failed : BOOLEAN]

Row == [status : {"idle", "running", "done", "error"}, started : Int, updated : Int]

Typed ==
  /\ now \in 0 .. Horizon
  /\ times \in (SUBSET (0 .. DayLength - 1)) \ {{}}
  /\ row \in Row /\ row.started <= now /\ row.updated <= now
  /\ run \in [Runners -> Run \cup {Idle}]
  /\ assigned \in [Devices -> Seq(Window)] /\ \A d \in Devices : assigned[d] # <<>>
  /\ hourly \subseteq Devices \X Hours
  /\ settled \subseteq daily /\ daily \subseteq Devices \X Days
  /\ astray \subseteq Devices

\* While no lock was overtaken, a run at work is alone and its row says so.
AloneInv ==
  ~shared => \/ Working = {}
             \/ row.status = "running" /\ \E r \in Runners : Working = {r}

\* Nothing is stored that has not been measured yet.
PastInv ==
  /\ \A d \in Devices, h \in Hours : <<d, h>> \in hourly => h < now
  /\ \A d \in Devices, k \in Days : <<d, k>> \in daily => Opening(k) < now

\* An hour is stored, or left out by something that is blamed for it; a day likewise, once
\* it has been read after its end.
Told(d, h) == <<d, h>> \in hourly \/ <<"hourly", d, day_of(h)>> \in lost
Took(d, k) == <<d, k>> \in settled \/ <<"daily", d, k>> \in lost

ToldBelow(d, m) == \A h \in Hours : h < m => Told(d, h)
TookBelow(d, j) == \A k \in Days : k < j => Took(d, k)

\* No hole below an hour that is stored, nor before the gas day that opens on its date,
\* from which the next routine run carries on; none below a day that is stored.
HoleInv ==
  \A d \in Devices \ astray :
    /\ \A g \in Hours : <<d, g>> \in hourly => ToldBelow(d, g) /\ ToldBelow(d, Opening(g \div DayLength))
    /\ \A j \in Days : <<d, j>> \in daily => TookBelow(d, j)

Asks(r, d, h)    == \E q \in run[r].todo : /\ q.period = "hourly" /\ q.device = d
                                           /\ Opening(q.first) <= h /\ h < Opening(q.last + 1)
AsksDay(r, d, k) == \E q \in run[r].todo : /\ q.period = "daily" /\ q.device = d
                                           /\ q.first <= k /\ k <= q.last

\* A request that comes before p in its device's order.
AsksFirst(r, p, h) ==
  \E q \in run[r].todo : /\ q.period = "hourly" /\ q.device = p.device /\ q.first < p.first
                         /\ Opening(q.first) <= h /\ h < Opening(q.last + 1)
AsksDayFirst(r, p, k) ==
  \E q \in run[r].todo : /\ q.period = "daily" /\ q.device = p.device /\ q.first < p.first
                         /\ q.first <= k /\ k <= q.last

AtWork(r)  == run[r] # Idle /\ run[r].at = "polling"
Routinely(r) == AtWork(r) /\ run[r].since = Routine

\* No request reaches past the day it was planned on.
ReachOf(r) == AtWork(r) =>
  /\ run[r].began <= now
  /\ \A p \in run[r].todo : p.first <= p.last /\ p.last <= Today

\* What lies below a request of a routine run is told, or asked for before it.
OrderOf(r) == Routinely(r) =>
  \A p \in run[r].todo : p.device \notin astray =>
    /\ p.period = "hourly" =>
         \A h \in Hours : h < Opening(p.first) => Told(p.device, h) \/ AsksFirst(r, p, h)
    /\ p.period = "daily" =>
         \A k \in Days : k < p.first => Took(p.device, k) \/ AsksDayFirst(r, p, k)

\* What a routine run has to know of it has told, or will ask for.
CatchOf(r) == Routinely(r) /\ run[r].clean =>
  \A d \in DOMAIN run[r].ends \ astray :
    /\ \A h \in Reached(r, d) : Told(d, h) \/ Asks(r, d, h)
    /\ \A k \in Days : k < run[r].ends[d] /\ Opening(k + 1) <= run[r].began => Took(d, k) \/ AsksDay(r, d, k)

\* The hours of a chosen period are stored, or will be asked for.
RereadOf(r) == AtWork(r) /\ run[r].since # Routine /\ run[r].clean =>
  \A d \in DOMAIN run[r].ends \ astray : \A h \in Hours :
    Opening(run[r].since) <= h /\ h < Opening(run[r].until + 1) /\ h < run[r].began
      => <<d, h>> \in hourly \/ Asks(r, d, h)

RunOf(r) == ReachOf(r) /\ OrderOf(r) /\ CatchOf(r) /\ RereadOf(r)
RunsInv == \A r \in Runners : RunOf(r)

IInv == Typed /\ AloneInv /\ PastInv /\ HoleInv /\ RunsInv

(* ---- What one step leaves ---- *)

\* Nothing told is forgotten, of the devices whose archive was not wiped.
Grows ==
  /\ now <= now' /\ astray \subseteq astray'
  /\ \A d \in Devices \ astray' :
       /\ \A h \in Hours : <<d, h>> \in hourly => <<d, h>> \in hourly'
       /\ \A h \in Hours : (h < now \/ h < Opening(Today)) /\ Told(d, h) => Told(d, h)'
       /\ \A k \in Days : k < Today /\ Took(d, k) => Took(d, k)'

\* What a request asks for is told by the step; it is brought when it was answered.
Covered(q) ==
  q.device \notin astray' =>
    /\ q.period = "hourly" =>
         \A h \in Hours : Opening(q.first) <= h /\ h < Opening(q.last + 1) /\ (h < now \/ h < Opening(Today))
                          => Told(q.device, h)'
    /\ q.period = "daily" =>
         \A k \in Days : q.first <= k /\ k <= q.last /\ k < Today => Took(q.device, k)'
Brought(q) ==
  q.device \notin astray' /\ q.period = "hourly" =>
    \A h \in Hours : Opening(q.first) <= h /\ h < Opening(q.last + 1) /\ h < now
                     => <<q.device, h>> \in hourly'

\* Hours and days of the model are integers, and what has gone by lies before today.
LEMMA Calendar ==
  ASSUME Typed
  PROVE  /\ now \in Int /\ Today \in Days /\ Days \subseteq Nat /\ Hours \subseteq Nat
         /\ Opening(Today) \in Int
         /\ \A h \in Hours : h < now => h \div DayLength <= Today
         /\ \A h \in Hours : day_of(h) \in Days
         /\ \A k \in Int : Opening(k + 1) <= now => k < Today
         /\ \A k \in Int : Opening(k) < now => k <= Today
         /\ \A k \in Int : k < Today => Opening(k) < now
<1>1. now \in 0 .. Horizon /\ Horizon \in Nat /\ DayLength \in Nat \ {0}  BY DEF Typed
<1>2. Today \in Int /\ Today * DayLength <= now /\ \A k \in Int : k * DayLength <= now <=> k <= Today
  <2>1. now \in Int /\ 0 \in Int  BY <1>1
  <2>2. \A k \in Int : Today \in Int /\ (k * DayLength <= now <=> k <= Today)
    BY ONLY <2>1, DateOf, Zenon DEF Today
  <2>3. Today \in Int  BY <2>1, <2>2, Zenon
  <2> QED  BY <2>2, <2>3
<1>3. 0 <= Today
  <2>1. 0 * DayLength <= now  BY <1>1
  <2> QED  BY <1>2, <2>1
<1>4. \A t \in 0 .. Horizon : t \div DayLength \in Days
  <2> SUFFICES ASSUME NEW t \in 0 .. Horizon PROVE t \div DayLength \in Days
    OBVIOUS
  <2> DEFINE q == t \div DayLength
             z == Horizon \div DayLength
  <2>a. t \in Int /\ Horizon \in Int  BY <1>1
  <2>b. \A k \in Int : q \in Int /\ (k * DayLength <= t <=> k <= q)  BY ONLY <2>a, DateOf, Zenon
  <2>c. \A k \in Int : z \in Int /\ (k * DayLength <= Horizon <=> k <= z)  BY ONLY <2>a, DateOf, Zenon
  <2> HIDE DEF q, z
  <2>1. q \in Int /\ \A k \in Int : k * DayLength <= t <=> k <= q  BY <2>b
  <2>2. 0 <= q
    <3>1. 0 * DayLength <= t  BY <1>1
    <3> QED  BY <2>1, <3>1
  <2>3. z \in Int /\ \A k \in Int : k * DayLength <= Horizon <=> k <= z  BY <2>c
  <2>4. q * DayLength <= t  BY <2>1
  <2>5. q * DayLength \in Int  BY <2>1, <1>1
  <2>6. q * DayLength <= Horizon  BY <2>4, <2>5, <1>1
  <2>7. q \in 0 .. z  BY <2>1, <2>2, <2>3, <2>6
  <2> QED  BY <2>7 DEF Days, q, z
<1>5. Today \in Days  BY <1>1, <1>4 DEF Today
<1>6. Days \subseteq Nat  BY DEF Days
<1>7. Hours \subseteq Nat /\ Hours \subseteq 0 .. Horizon
  BY <1>1 DEF Hours, Opening
<1>8. \A h \in Hours : h < now => h \div DayLength <= Today
  <2> SUFFICES ASSUME NEW h \in Hours, h < now PROVE h \div DayLength <= Today
    OBVIOUS
  <2>1. h \in Int  BY <1>7
  <2> DEFINE q == h \div DayLength
  <2>2. \A k \in Int : q \in Int /\ (k * DayLength <= h <=> k <= q)  BY ONLY <2>1, DateOf, Zenon
  <2> HIDE DEF q
  <2>3. q * DayLength \in Int /\ q * DayLength <= h  BY <2>2, <1>1
  <2>4. q <= Today  BY <2>1, <2>2, <2>3, <1>1, <1>2
  <2> QED  BY <2>4 DEF q
<1>9. \A h \in Hours : day_of(h) \in Days
  <2> SUFFICES ASSUME NEW h \in Hours PROVE day_of(h) \in Days
    OBVIOUS
  <2>1. h \in Int /\ h \in 0 .. Horizon /\ Opening(0) <= h  BY <1>7 DEF Hours
  <2>2. day_of(h) \in Int /\ 0 <= day_of(h)  BY <2>1, OpeningDay
  <2>3. day_of(h) <= h \div DayLength /\ h \div DayLength \in Int  BY <2>1, DateOf
  <2>4. h \div DayLength \in Days  BY <2>1, <1>4
  <2> QED  BY <2>2, <2>3, <2>4 DEF Days
<1>10. \A k \in Int : /\ Opening(k) \in Int /\ k * DayLength \in Int /\ (k + 1) * DayLength \in Int
                     /\ k * DayLength <= Opening(k) /\ Opening(k) < (k + 1) * DayLength
  BY OpeningsGrow
<1>11. \A k \in Int : Opening(k) < now => k <= Today
  <2> SUFFICES ASSUME NEW k \in Int, Opening(k) < now PROVE k <= Today
    OBVIOUS
  <2>1. k * DayLength <= Opening(k) /\ Opening(k) \in Int /\ k * DayLength \in Int  BY <1>10
  <2>2. k * DayLength <= now  BY <2>1, <1>1
  <2> QED  BY <2>2, <1>2
<1>12. \A k \in Int : Opening(k + 1) <= now => k < Today
  <2> SUFFICES ASSUME NEW k \in Int, Opening(k + 1) <= now PROVE k < Today
    OBVIOUS
  <2>1. k + 1 \in Int  OBVIOUS
  <2>2. (k + 1) * DayLength \in Int /\ (k + 1) * DayLength <= Opening(k + 1) /\ Opening(k + 1) \in Int  BY <2>1, <1>10
  <2>3. (k + 1) * DayLength <= now  BY <2>2, <1>1
  <2>4. k + 1 <= Today  BY <2>1, <2>3, <1>2
  <2> QED  BY <2>4, <1>2
<1>13. \A k \in Int : k < Today => Opening(k) < now
  <2> SUFFICES ASSUME NEW k \in Int, k < Today PROVE Opening(k) < now
    OBVIOUS
  <2>1. k + 1 \in Int /\ k + 1 <= Today  BY <1>2
  <2>2. (k + 1) * DayLength <= now  BY <2>1, <1>2
  <2> QED  BY <2>2, <1>10, <1>1
<1>14. Opening(Today) \in Int  BY <1>2, <1>10
<1>15. now \in Int  BY <1>1
<1> QED  BY <1>5, <1>6, <1>7, <1>8, <1>9, <1>11, <1>12, <1>13, <1>14, <1>15, Zenon

\* A run at work keeps its part of the invariant over a step that forgets nothing and
\* takes requests off it which the step covers, or all of a device's and its good name.
LEMMA Carries ==
  ASSUME Typed, Typed', Grows, NEW r \in Runners, RunOf(r), AtWork(r), AtWork(r)',
         run'[r].since = run[r].since, run'[r].until = run[r].until, run'[r].ends = run[r].ends,
         run'[r].began = run[r].began, run'[r].todo \subseteq run[r].todo, run'[r].clean => run[r].clean,
         \A q \in run[r].todo \ run'[r].todo :
           \/ Covered(q) /\ (run'[r].clean => Brought(q))
           \/ ~run'[r].clean /\ \A p \in run'[r].todo : p.device # q.device
  PROVE  RunOf(r)'
<1> DEFINE T == run[r].todo
           U == run'[r].todo
<1>1. /\ U \subseteq T /\ T \subseteq Poll /\ DOMAIN run[r].ends \subseteq Devices
      /\ run[r].began \in Int /\ \A d \in DOMAIN run[r].ends : run[r].ends[d] \in Days
  BY DEF Typed, AtWork, Run
<1>2. now \in Int /\ now' \in Int /\ now <= now' /\ Today \in Int /\ Opening(Today) \in Int /\ Days \subseteq Nat /\ Hours \subseteq Nat
  BY Calendar DEF Typed, Grows
<1>3. Today' \in Int /\ Today <= Today'
  <2>1. \A k \in Int : Today \in Int /\ (k * DayLength <= now <=> k <= Today)  BY ONLY <1>2, DateOf, Zenon DEF Today
  <2>2. \A k \in Int : Today' \in Int /\ (k * DayLength <= now' <=> k <= Today')  BY ONLY <1>2, DateOf, Zenon DEF Today
  <2>3. Today * DayLength <= now /\ Today * DayLength \in Int  BY <1>2, <2>1
  <2>4. Today * DayLength <= now'  BY <2>3, <1>2
  <2> QED  BY <2>2, <2>4, <1>2
<1>4. ReachOf(r)  BY DEF RunOf
<1>5. ReachOf(r)'
  <2>1. run'[r].began <= now'  BY <1>1, <1>2, <1>4 DEF ReachOf
  <2>2. ASSUME NEW p \in U PROVE p.first <= p.last /\ p.last <= Today'
    <3>1. p \in T /\ p \in Poll  BY <1>1
    <3>a. p.last \in Days  BY <3>1 DEF Poll
    <3>b. p.last \in Nat  BY ONLY <3>a, <1>2
    <3>2. p.first <= p.last /\ p.last <= Today  BY <3>1, <1>4, Zenon DEF ReachOf
    <3> QED  BY <3>b, <3>2, <1>2, <1>3
  <2> QED  BY <2>1, <2>2 DEF ReachOf
<1>6. ASSUME NEW p \in U
      PROVE p \in T /\ p \in Poll /\ p.first \in Nat /\ p.last \in Nat /\ p.first <= Today /\ p.last <= Today
            /\ Opening(p.first) \in Int /\ Opening(p.first) <= Opening(Today)
  <2>1. p \in T /\ p \in Poll  BY <1>1
  <2>a. p.first \in Days /\ p.last \in Days  BY <2>1 DEF Poll
  <2>2. p.first <= p.last /\ p.last <= Today /\ p.first \in Nat /\ p.last \in Nat
    BY <2>1, <2>a, <1>2, <1>4 DEF ReachOf
  <2>3. p.first \in Int /\ p.first <= Today  BY <2>2, <1>2
  <2>4. Opening(p.first) \in Int /\ (p.first <= Today <=> Opening(p.first) <= Opening(Today))
    BY ONLY <2>3, <1>2, OpeningsGrow, Zenon
  <2> QED  BY <2>1, <2>2, <2>3, <2>4, Zenon
<1>7. OrderOf(r)'
  <2> SUFFICES ASSUME run[r].since = Routine, NEW p \in U, p.device \notin astray'
               PROVE /\ p.period = "hourly" =>
                         \A h \in Hours : h < Opening(p.first) => Told(p.device, h)' \/ AsksFirst(r, p, h)'
                     /\ p.period = "daily" =>
                         \A k \in Days : k < p.first => Took(p.device, k)' \/ AsksDayFirst(r, p, k)'
    BY DEF OrderOf, Routinely
  <2>1. p.device \in Devices \ astray /\ p.device \in Devices \ astray'  BY <1>6 DEF Poll, Grows
  <2>2. ASSUME p.period = "hourly", NEW h \in Hours, h < Opening(p.first)
        PROVE  Told(p.device, h)' \/ AsksFirst(r, p, h)'
    <3>1. h < Opening(Today)  BY <1>2, <1>6, <2>2
    <3>2. Told(p.device, h) \/ AsksFirst(r, p, h)  BY <2>1, <2>2, <1>6 DEF RunOf, OrderOf, Routinely
    <3>3. CASE Told(p.device, h)  BY <3>1, <3>3, <2>1 DEF Grows
    <3>4. CASE AsksFirst(r, p, h)
      <4>1. PICK q \in T : /\ q.period = "hourly" /\ q.device = p.device /\ q.first < p.first
                           /\ Opening(q.first) <= h /\ h < Opening(q.last + 1)
        BY <3>4 DEF AsksFirst
      <4>2. CASE q \in U  BY <4>1, <4>2 DEF AsksFirst
      <4>3. CASE q \notin U
        <5>1. Covered(q)  BY <4>1, <4>3
        <5> QED  BY <5>1, <4>1, <3>1, <2>1 DEF Covered
      <4> QED  BY <4>2, <4>3
    <3> QED  BY <3>2, <3>3, <3>4
  <2>3. ASSUME p.period = "daily", NEW k \in Days, k < p.first
        PROVE  Took(p.device, k)' \/ AsksDayFirst(r, p, k)'
    <3>1. k < Today  BY <1>2, <1>6, <2>3
    <3>2. Took(p.device, k) \/ AsksDayFirst(r, p, k)  BY <2>1, <2>3, <1>6 DEF RunOf, OrderOf, Routinely
    <3>3. CASE Took(p.device, k)  BY <3>1, <3>3, <2>1 DEF Grows
    <3>4. CASE AsksDayFirst(r, p, k)
      <4>1. PICK q \in T : /\ q.period = "daily" /\ q.device = p.device /\ q.first < p.first
                           /\ q.first <= k /\ k <= q.last
        BY <3>4 DEF AsksDayFirst
      <4>2. CASE q \in U  BY <4>1, <4>2 DEF AsksDayFirst
      <4>3. CASE q \notin U
        <5>1. Covered(q)  BY <4>1, <4>3
        <5> QED  BY <5>1, <4>1, <3>1, <2>1 DEF Covered
      <4> QED  BY <4>2, <4>3
    <3> QED  BY <3>2, <3>3, <3>4
  <2> QED  BY <2>2, <2>3
<1>8. CatchOf(r)'
  <2> SUFFICES ASSUME run[r].since = Routine, run'[r].clean, NEW d \in DOMAIN run[r].ends, d \notin astray'
               PROVE /\ \A h \in Reached(r, d)' : Told(d, h)' \/ Asks(r, d, h)'
                     /\ \A k \in Days : k < run[r].ends[d] /\ Opening(k + 1) <= run[r].began
                                        => Took(d, k)' \/ AsksDay(r, d, k)'
    BY DEF CatchOf, Routinely
  <2>1. d \in Devices \ astray /\ d \in Devices \ astray'  BY <1>1 DEF Grows
  <2>2. Routinely(r) /\ run[r].clean /\ d \in DOMAIN run[r].ends \ astray  BY <2>1 DEF Routinely
  <2>3. ASSUME NEW h \in Reached(r, d)' PROVE Told(d, h)' \/ Asks(r, d, h)'
    <3>1. h \in Hours /\ h \in Reached(r, d) /\ h < run[r].began  BY DEF Reached, Hours
    <3>2. h < now  BY <3>1, <1>1, <1>2, <1>4 DEF ReachOf
    <3>3. Told(d, h) \/ Asks(r, d, h)  BY <2>2, <3>1 DEF RunOf, CatchOf
    <3>4. CASE Told(d, h)  BY <3>1, <3>2, <3>4, <2>1 DEF Grows
    <3>5. CASE Asks(r, d, h)
      <4>1. PICK q \in T : q.period = "hourly" /\ q.device = d /\ Opening(q.first) <= h /\ h < Opening(q.last + 1)
        BY <3>5 DEF Asks
      <4>2. CASE q \in U  BY <4>1, <4>2 DEF Asks
      <4>3. CASE q \notin U
        <5>1. Covered(q)  BY <4>1, <4>3
        <5> QED  BY <5>1, <4>1, <3>1, <3>2, <2>1 DEF Covered
      <4> QED  BY <4>2, <4>3
    <3> QED  BY <3>3, <3>4, <3>5
  <2>4. ASSUME NEW k \in Days, k < run[r].ends[d], Opening(k + 1) <= run[r].began
        PROVE  Took(d, k)' \/ AsksDay(r, d, k)'
    <3>1. k \in Int /\ k + 1 \in Int /\ Opening(k + 1) \in Int  BY <1>2, OpeningsGrow
    <3>2. Opening(k + 1) <= now  BY <2>4, <3>1, <1>1, <1>2, <1>4 DEF ReachOf
    <3>3. k < Today  BY <3>1, <3>2, Calendar
    <3>4. Took(d, k) \/ AsksDay(r, d, k)  BY <2>2, <2>4 DEF RunOf, CatchOf
    <3>5. CASE Took(d, k)  BY <3>3, <3>5, <2>1 DEF Grows
    <3>6. CASE AsksDay(r, d, k)
      <4>1. PICK q \in T : q.period = "daily" /\ q.device = d /\ q.first <= k /\ k <= q.last
        BY <3>6 DEF AsksDay
      <4>2. CASE q \in U  BY <4>1, <4>2 DEF AsksDay
      <4>3. CASE q \notin U
        <5>1. Covered(q)  BY <4>1, <4>3
        <5> QED  BY <5>1, <4>1, <3>3, <2>1 DEF Covered
      <4> QED  BY <4>2, <4>3
    <3> QED  BY <3>4, <3>5, <3>6
  <2> QED  BY <2>3, <2>4
<1>9. RereadOf(r)'
  <2> SUFFICES ASSUME run[r].since # Routine, run'[r].clean, NEW d \in DOMAIN run[r].ends, d \notin astray',
                      NEW h \in Hours, Opening(run[r].since) <= h, h < Opening(run[r].until + 1), h < run[r].began
               PROVE  <<d, h>> \in hourly' \/ Asks(r, d, h)'
    BY DEF RereadOf
  <2>1. d \in Devices \ astray /\ d \in Devices \ astray'  BY <1>1 DEF Grows
  <2>2. h < now  BY <1>1, <1>2, <1>4 DEF ReachOf
  <2>3. <<d, h>> \in hourly \/ Asks(r, d, h)  BY <2>1 DEF RunOf, RereadOf
  <2>4. CASE <<d, h>> \in hourly  BY <2>1, <2>4 DEF Grows
  <2>5. CASE Asks(r, d, h)
    <3>1. PICK q \in T : q.period = "hourly" /\ q.device = d /\ Opening(q.first) <= h /\ h < Opening(q.last + 1)
      BY <2>5 DEF Asks
    <3>2. CASE q \in U  BY <3>1, <3>2 DEF Asks
    <3>3. CASE q \notin U
      <4>1. Brought(q)  BY <3>1, <3>3
      <4> QED  BY <4>1, <3>1, <2>2, <2>1 DEF Brought
    <3> QED  BY <3>2, <3>3
  <2> QED  BY <2>3, <2>4, <2>5
<1> QED  BY <1>5, <1>7, <1>8, <1>9 DEF RunOf

\* A step that leaves a run alone leaves it its part of the invariant.
LEMMA Stays ==
  ASSUME Typed, Typed', Grows, NEW r \in Runners, RunOf(r), run'[r] = run[r]
  PROVE  RunOf(r)'
<1>1. CASE AtWork(r)
  <2>1. AtWork(r)'  BY <1>1 DEF AtWork
  <2> QED  BY <1>1, <2>1, Carries
<1>2. CASE ~AtWork(r)
  <2>1. ~AtWork(r)'  BY <1>2 DEF AtWork
  <2> QED  BY <2>1 DEF RunOf, ReachOf, OrderOf, CatchOf, RereadOf, Routinely
<1> QED  BY <1>1, <1>2

\* What is stored of the past, and above told hours only, stays so when nothing is stored.
LEMMA HolesStay ==
  ASSUME Typed, Grows, PastInv, HoleInv, hourly' = hourly, daily' = daily, now' \in Int
  PROVE  PastInv' /\ HoleInv'
<1>1. now \in Int /\ now <= now' /\ Hours \subseteq Nat /\ Days \subseteq Nat  BY Calendar DEF Grows
<1>2. PastInv'
  <2>1. ASSUME NEW d \in Devices, NEW h \in Hours, <<d, h>> \in hourly PROVE h < now'
    <3>1. h < now /\ h \in Int  BY <2>1, <1>1 DEF PastInv
    <3> QED  BY <3>1, <1>1
  <2>2. ASSUME NEW d \in Devices, NEW k \in Days, <<d, k>> \in daily PROVE Opening(k) < now'
    <3>1. Opening(k) < now /\ Opening(k) \in Int  BY <2>2, <1>1, OpeningsGrow DEF PastInv
    <3> QED  BY <3>1, <1>1
  <2> QED  BY <2>1, <2>2 DEF PastInv
<1>3. ASSUME NEW d \in Devices, d \notin astray' PROVE d \in Devices \ astray /\ d \in Devices \ astray'
  BY <1>3 DEF Grows
<1>4. ASSUME NEW d \in Devices, d \notin astray', NEW g \in Hours, <<d, g>> \in hourly
      PROVE  ToldBelow(d, g)' /\ ToldBelow(d, Opening(g \div DayLength))'
  <2>1. ToldBelow(d, g) /\ ToldBelow(d, Opening(g \div DayLength)) /\ g < now  BY <1>3, <1>4 DEF HoleInv, PastInv
  <2>a. g \in Int /\ now \in Int /\ Days \subseteq Int  BY <1>1
  <2>2. g \div DayLength \in Int /\ Today \in Int /\ g \div DayLength <= Today /\ Opening(Today) \in Int
    <3>1. Today \in Int /\ Opening(Today) \in Int /\ g \div DayLength <= Today
      BY <2>1, <2>a, Calendar, Zenon
    <3>2. g \div DayLength \in Int  BY ONLY <2>a, DateOf, Zenon
    <3> QED  BY <3>1, <3>2
  <2> DEFINE o == Opening(g \div DayLength)
  <2>3. o \in Int /\ o <= Opening(Today)  BY <2>2, OpeningsGrow
  <2> HIDE DEF o
  <2>4. ASSUME NEW h \in Hours, h < g PROVE Told(d, h)'
    <3>0. h \in Int  BY <1>1
    <3>1. h < now  BY <3>0, <2>1, <2>4, <2>a
    <3>2. Told(d, h)  BY <2>1, <2>4 DEF ToldBelow
    <3> QED  BY <3>1, <3>2, <1>3, <1>4 DEF Grows
  <2>5. ASSUME NEW h \in Hours, h < o PROVE Told(d, h)'
    <3>1. h < Opening(Today)  BY <2>2, <2>3, <2>5, <1>1
    <3>2. Told(d, h)  BY <2>1, <2>5 DEF ToldBelow, o
    <3> QED  BY <3>1, <3>2, <1>3, <1>4 DEF Grows
  <2> QED  BY <2>4, <2>5 DEF ToldBelow, o
<1>5. ASSUME NEW d \in Devices, d \notin astray', NEW j \in Days, <<d, j>> \in daily
      PROVE  TookBelow(d, j)'
  <2>1. TookBelow(d, j) /\ Opening(j) < now  BY <1>3, <1>5 DEF HoleInv, PastInv
  <2>2. j <= Today /\ Today \in Int /\ j \in Int
    <3>1. Today \in Days /\ Days \subseteq Nat /\ \A k \in Int : Opening(k) < now => k <= Today  BY Calendar, Zenon
    <3>2. j \in Int /\ Today \in Int  BY <3>1
    <3> QED  BY <3>1, <3>2, <2>1
  <2>3. ASSUME NEW k \in Days, k < j PROVE Took(d, k)'
    <3>1. k < Today  BY <2>2, <2>3, <1>1
    <3>2. Took(d, k)  BY <2>1, <2>3 DEF TookBelow
    <3> QED  BY <3>1, <3>2, <1>3, <1>5 DEF Grows
  <2> QED  BY <2>3 DEF TookBelow
<1> QED  BY <1>2, <1>4, <1>5 DEF HoleInv

(* ---- An answered request ---- *)

\* What lies below a request is told, or blamed on it.
Below(q, X) ==
  q.device \notin astray =>
    /\ q.period = "hourly" =>
         \A h \in Hours : h < Opening(q.first) =>
           Told(q.device, h) \/ <<"hourly", q.device, day_of(h)>> \in X
    /\ q.period = "daily" =>
         \A k \in Days : k < q.first => Took(q.device, k) \/ <<"daily", q.device, k>> \in X

\* An answered request tells what it asks for and forgets nothing; above what was told
\* it leaves no hole.
LEMMA Answers ==
  ASSUME Typed, PastInv, HoleInv, NEW q \in Poll, q.first <= q.last, q.last <= Today,
         now' = now, astray' = astray,
         Store(q.period, q.device, q.first, q.last),
         NEW X, lost' = (lost \ Asked(q)) \cup InTheirNight(q.period, q.device, q.first, q.last) \cup X,
         Below(q, X)
  PROVE  Grows /\ PastInv' /\ HoleInv' /\ Covered(q) /\ Brought(q)
<1> DEFINE d == q.device
           f == q.first
           l == q.last
<1>1. /\ now \in Int /\ Today \in Int /\ Opening(Today) \in Int /\ Days \subseteq Nat /\ Hours \subseteq Nat
      /\ Today \in Days
  BY Calendar
<1>2. d \in Devices /\ f \in Days /\ l \in Days /\ f \in Int /\ l \in Int /\ f <= l /\ l <= Today /\ q.period \in Periods
  <2>1. d \in Devices /\ f \in Days /\ l \in Days /\ q.period \in Periods  BY DEF Poll
  <2>2. f \in Nat /\ l \in Nat  BY ONLY <2>1, <1>1
  <2> QED  BY <2>1, <2>2
<1>3. Opening(f) \in Int /\ Opening(l + 1) \in Int /\ Today' = Today
  <2>1. l + 1 \in Int  BY <1>2
  <2> QED  BY <2>1, <1>2, OpeningsGrow DEF Today
<1>4. hourly \subseteq hourly' /\ daily \subseteq daily' /\ settled \subseteq settled'  BY DEF Store
\* Which day an hour belongs to.
<1>5. ASSUME NEW h \in Hours
      PROVE  /\ h \in Int /\ day_of(h) \in Days /\ day_of(h) \in Int
             /\ \A k \in Int : Opening(k) <= h <=> k <= day_of(h)
             /\ \A k \in Int : h < Opening(k + 1) <=> day_of(h) <= k
  <2>1. h \in Int /\ day_of(h) \in Days  BY <1>1, Calendar
  <2>2. \A k \in Int : day_of(h) \in Int /\ (Opening(k) <= h <=> k <= day_of(h))  BY ONLY <2>1, OpeningDay, Zenon
  <2>3. day_of(h) \in Int  BY ONLY <2>1, <2>2, Zenon
  <2>4. ASSUME NEW k \in Int PROVE h < Opening(k + 1) <=> day_of(h) <= k
    <3>1. k + 1 \in Int  OBVIOUS
    <3>2. Opening(k + 1) <= h <=> k + 1 <= day_of(h)  BY <2>2, <3>1
    <3>3. Opening(k + 1) \in Int  BY <3>1, OpeningsGrow
    <3> QED  BY <3>1, <3>2, <3>3, <2>1, <2>3
  <2> QED  BY <2>1, <2>2, <2>3, <2>4
\* What the request asks for, it tells.
<1>6. ASSUME q.period = "hourly", NEW h \in Hours, Opening(f) <= h, h < Opening(l + 1), h < now
      PROVE  <<d, h>> \in hourly'
  <2>1. h \in span(f, l)
    <3>1. h \in Int  BY <1>5
    <3> QED  BY <3>1, <1>6, <1>3 DEF span
  <2>2. <<d, h>> \in AnswerHours(d, f, l)  BY <2>1, <1>6 DEF AnswerHours
  <2> QED  BY <2>2, <1>6 DEF Store
<1>7. ASSUME q.period = "hourly", NEW h \in Hours, Opening(f) <= h, h < Opening(l + 1), h < now \/ h < Opening(Today)
      PROVE  Told(d, h)'
  <2>1. CASE h < now  BY <1>6, <1>7, <2>1 DEF Told
  <2>2. CASE ~(h < now)
    <3> DEFINE k == day_of(h)
    <3>1. /\ k \in Int /\ h \in Int /\ k \in Days /\ (Opening(f) <= h <=> f <= k) /\ (h < Opening(l + 1) <=> k <= l)
          /\ (h < Opening(k + 1) <=> k <= k) /\ (Opening(Today) <= h <=> Today <= k)
      BY <1>1, <1>2, <1>5
    <3>a. k + 1 \in Int /\ Opening(k + 1) \in Int
      <4>1. k + 1 \in Int  BY <3>1
      <4> QED  BY <4>1, OpeningsGrow
    <3> HIDE DEF k
    <3>2. k \in f .. l  BY <3>1, <1>2, <1>7
    <3>3. k < Today  BY <3>1, <1>1, <1>7, <2>2
    <3>4. now < Opening(k + 1)  BY <3>1, <3>a, <1>1, <2>2
    <3>5. <<"hourly", d, k>> \in InTheirNight("hourly", d, f, l)  BY <3>2, <3>3, <3>4 DEF InTheirNight
    <3>6. <<"hourly", d, k>> \in lost'  BY <3>5, <1>7
    <3> QED  BY <3>6 DEF Told, k
  <2> QED  BY <2>1, <2>2
<1>8. ASSUME q.period = "daily", NEW k \in Days, f <= k, k <= l, k < Today
      PROVE  Took(d, k)'
  <2>1. k \in Int /\ k \in f .. l /\ k + 1 \in Int  BY <1>1, <1>2, <1>8
  <2>2. Opening(k) < now  BY <2>1, <1>8, Calendar
  <2>3. Opening(k + 1) \in Int  BY <2>1, OpeningsGrow
  <2>4. CASE Opening(k + 1) <= now
    <3>1. <<d, k>> \in AnswerDays(d, f, l)  BY <2>1, <2>2 DEF AnswerDays
    <3>2. <<d, k>> \in Closed  BY <1>2, <2>4 DEF Closed
    <3>3. settled' = settled \cup (AnswerDays(d, f, l) \cap Closed)  BY <1>8 DEF Store
    <3>4. <<d, k>> \in settled'  BY <3>1, <3>2, <3>3
    <3> QED  BY <3>4 DEF Took
  <2>5. CASE ~(Opening(k + 1) <= now)
    <3>1. now < Opening(k + 1)  BY <2>3, <2>5, <1>1
    <3>2. <<"daily", d, k>> \in InTheirNight("daily", d, f, l)  BY <2>1, <3>1, <1>8 DEF InTheirNight
    <3>3. <<"daily", d, k>> \in lost'  BY <3>2, <1>8
    <3> QED  BY <3>3 DEF Took
  <2> QED  BY <2>4, <2>5
<1>9. Covered(q)  BY <1>7, <1>8 DEF Covered
<1>10. Brought(q)  BY <1>6 DEF Brought
\* What was told stays told.
<1>11. ASSUME NEW e \in Devices, NEW h \in Hours, h < now \/ h < Opening(Today), Told(e, h)
       PROVE  Told(e, h)'
  <2> DEFINE k == day_of(h)
  <2>1. CASE <<e, h>> \in hourly  BY <2>1, <1>4 DEF Told
  <2>2. CASE <<"hourly", e, k>> \in lost \ Asked(q)
    <3>1. <<"hourly", e, k>> \in lost'  BY <2>2
    <3> QED  BY <3>1 DEF Told
  <2>3. CASE <<"hourly", e, k>> \in Asked(q)
    <3>1. q.period = "hourly" /\ e = d /\ f <= k /\ k <= l  BY <2>3, <1>2 DEF Asked
    <3>2. (Opening(f) <= h <=> f <= k) /\ (h < Opening(l + 1) <=> k <= l)  BY <1>2, <1>5
    <3> QED  BY <3>1, <3>2, <1>7, <1>11
  <2> QED  BY <2>1, <2>2, <2>3, <1>11 DEF Told
<1>12. ASSUME NEW e \in Devices, NEW k \in Days, k < Today, Took(e, k)
       PROVE  Took(e, k)'
  <2>1. CASE <<e, k>> \in settled  BY <2>1, <1>4 DEF Took
  <2>2. CASE <<"daily", e, k>> \in lost \ Asked(q)
    <3>1. <<"daily", e, k>> \in lost'  BY <2>2
    <3> QED  BY <3>1 DEF Took
  <2>3. CASE <<"daily", e, k>> \in Asked(q)
    <3>1. q.period = "daily" /\ e = d /\ f <= k /\ k <= l  BY <2>3, <1>2 DEF Asked
    <3> QED  BY <3>1, <1>8, <1>12
  <2> QED  BY <2>1, <2>2, <2>3, <1>12 DEF Took
<1>13. Grows
  <2>1. now <= now' /\ astray \subseteq astray'  BY <1>1
  <2> QED  BY <2>1, <1>4, <1>11, <1>12 DEF Grows
<1>14. PastInv'
  <2>1. ASSUME NEW e \in Devices, NEW h \in Hours, <<e, h>> \in hourly' PROVE h < now
    <3>1. <<e, h>> \in hourly \/ <<e, h>> \in AnswerHours(d, f, l)  BY <2>1 DEF Store
    <3> QED  BY <3>1 DEF PastInv, AnswerHours
  <2>2. ASSUME NEW e \in Devices, NEW k \in Days, <<e, k>> \in daily' PROVE Opening(k) < now
    <3>1. <<e, k>> \in daily \/ <<e, k>> \in AnswerDays(d, f, l)  BY <2>2 DEF Store
    <3> QED  BY <3>1 DEF PastInv, AnswerDays
  <2> QED  BY <2>1, <2>2 DEF PastInv
\* Below a new hour or day: told before, blamed, or asked for with it.
<1>15. ASSUME q.period = "hourly", d \notin astray, NEW h \in Hours, h < Opening(f)
       PROVE  Told(d, h)'
  <2>1. Told(d, h) \/ <<"hourly", d, day_of(h)>> \in X  BY <1>15 DEF Below
  <2>2. CASE Told(d, h)
    <3>1. Opening(f) <= Opening(Today)
      <4>1. f <= Today  BY <1>1, <1>2
      <4> QED  BY <4>1, <1>1, <1>2, OpeningsGrow
    <3>2. h < Opening(Today)
      <4>1. h \in Int  BY <1>5
      <4> QED  BY <4>1, <3>1, <1>1, <1>3, <1>15
    <3> QED  BY <2>2, <3>2, <1>2, <1>11
  <2>3. CASE <<"hourly", d, day_of(h)>> \in X
    <3>1. <<"hourly", d, day_of(h)>> \in lost'  BY <2>3
    <3> QED  BY <3>1 DEF Told
  <2> QED  BY <2>1, <2>2, <2>3
<1>16. ASSUME q.period = "daily", d \notin astray, NEW k \in Days, k < f
       PROVE  Took(d, k)'
  <2>1. Took(d, k) \/ <<"daily", d, k>> \in X  BY <1>16 DEF Below
  <2>2. CASE Took(d, k)
    <3>1. k \in Int  BY <1>1
    <3>2. k < Today  BY <3>1, <1>1, <1>2, <1>16
    <3> QED  BY <2>2, <3>2, <1>2, <1>12
  <2>3. CASE <<"daily", d, k>> \in X
    <3>1. <<"daily", d, k>> \in lost'  BY <2>3
    <3> QED  BY <3>1 DEF Took
  <2> QED  BY <2>1, <2>2, <2>3
<1>17. ASSUME NEW e \in Devices, e \notin astray, NEW g \in Hours, <<e, g>> \in hourly'
       PROVE  ToldBelow(e, g)' /\ ToldBelow(e, Opening(g \div DayLength))'
  <2> DEFINE t == g \div DayLength
             o == Opening(t)
  <2>1. g \in Int /\ g < now  BY <1>5, <1>14, <1>17 DEF PastInv
  <2>2. t \in Int /\ t <= Today /\ day_of(g) \in Int /\ t <= day_of(g) + 1
    <3>1. t <= Today  BY <2>1, Calendar
    <3>2. t \in Int /\ t <= day_of(g) + 1  BY ONLY <2>1, DateOf, Zenon
    <3> QED  BY <3>1, <3>2, <1>5
  <2>3. o \in Int /\ o <= Opening(Today)  BY <2>2, <1>1, OpeningsGrow
  <2> SUFFICES ASSUME NEW h \in Hours, h < g \/ h < o PROVE Told(e, h)'
    BY DEF ToldBelow
  <2>4. h \in Int /\ (h < now \/ h < Opening(Today))
    <3>1. h \in Int  BY <1>5
    <3> HIDE DEF o
    <3> QED  BY <3>1, <2>1, <2>3, <1>1
  <2>5. CASE <<e, g>> \in hourly
    <3>1. Told(e, h)  BY <2>5, <1>17 DEF HoleInv, ToldBelow
    <3> QED  BY <3>1, <2>4, <1>11
  <2>6. CASE <<e, g>> \notin hourly
    <3>1. q.period = "hourly" /\ e = d /\ g \in span(f, l)  BY <2>6, <1>17 DEF Store, AnswerHours
    <3>2. g < Opening(l + 1)
      <4>1. g \in Opening(f) .. Opening(l + 1) - 1  BY <3>1 DEF span
      <4> QED  BY <4>1, <1>3, <2>1
    <3>3. day_of(g) <= l  BY <3>2, <1>2, <1>5
    <3>4. CASE h < Opening(f)  BY <3>1, <3>4, <1>15, <1>17
    <3>5. CASE ~(h < Opening(f))
      <4>1. o <= Opening(l + 1)
        <5>1. l + 1 \in Int /\ t <= l + 1  BY <2>2, <3>3, <1>2
        <5> QED  BY <5>1, <2>2, OpeningsGrow
      <4> HIDE DEF o
      <4>2. h < Opening(l + 1)  BY <4>1, <3>2, <2>1, <2>3, <2>4, <1>3
      <4>3. Opening(f) <= h  BY <3>5, <2>4, <1>3
      <4> QED  BY <4>2, <4>3, <3>1, <2>4, <1>7
    <3> QED  BY <3>4, <3>5
  <2> QED  BY <2>5, <2>6
<1>18. ASSUME NEW e \in Devices, e \notin astray, NEW j \in Days, <<e, j>> \in daily'
       PROVE  TookBelow(e, j)'
  <2>1. j \in Int /\ j <= Today
    <3>1. j \in Int /\ Opening(j) < now  BY <1>1, <1>14, <1>18 DEF PastInv
    <3> QED  BY <3>1, Calendar
  <2> SUFFICES ASSUME NEW k \in Days, k < j PROVE Took(e, k)'
    BY DEF TookBelow
  <2>2. k \in Int /\ k < Today
    <3>1. k \in Int  BY <1>1
    <3> QED  BY <3>1, <2>1, <1>1
  <2>3. CASE <<e, j>> \in daily
    <3>1. Took(e, k)  BY <2>3, <1>18 DEF HoleInv, TookBelow
    <3> QED  BY <3>1, <2>2, <1>12
  <2>4. CASE <<e, j>> \notin daily
    <3>1. q.period = "daily" /\ e = d /\ j \in f .. l  BY <2>4, <1>18 DEF Store, AnswerDays
    <3>2. CASE k < f  BY <3>1, <3>2, <1>16, <1>18
    <3>3. CASE ~(k < f)
      <4>1. f <= k /\ k <= l  BY <3>1, <3>3, <2>1, <2>2, <1>2
      <4> QED  BY <4>1, <3>1, <2>2, <1>8
    <3> QED  BY <3>2, <3>3
  <2> QED  BY <2>3, <2>4
<1>19. HoleInv'  BY <1>17, <1>18 DEF HoleInv
<1> QED  BY <1>9, <1>10, <1>13, <1>14, <1>19

(* ---- The plan ---- *)

\* The dates of what is stored of a device; none lies after today.
LEMMA StampsAre ==
  ASSUME Typed, PastInv, NEW d \in Devices
  PROVE  /\ \A s : s \in Stamps("daily", d) <=> s \in Days /\ <<d, s>> \in daily
         /\ \A s : s \in Stamps("hourly", d) <=> \E g \in Hours : <<d, g>> \in hourly /\ s = g \div DayLength
         /\ \A period \in Periods : Stamps(period, d) \subseteq 0 .. Today
<1>1. /\ now \in Int /\ Today \in Days /\ Days \subseteq Nat /\ Hours \subseteq Nat
      /\ \A h \in Hours : h < now => h \div DayLength <= Today
      /\ \A k \in Int : Opening(k) < now => k <= Today
  BY Calendar, Zenon
<1>2. hourly \subseteq Devices \X Hours /\ daily \subseteq Devices \X Days  BY DEF Typed
<1>3. \A s : s \in Stamps("daily", d) <=> s \in Days /\ <<d, s>> \in daily
  BY <1>2 DEF Stamps
<1>4. \A s : s \in Stamps("hourly", d) <=> \E g \in Hours : <<d, g>> \in hourly /\ s = g \div DayLength
  <2>1. ASSUME NEW s \in Stamps("hourly", d)
        PROVE  \E g \in Hours : <<d, g>> \in hourly /\ s = g \div DayLength
    <3>1. PICK x \in {y \in hourly : y[1] = d} : s = x[2] \div DayLength  BY <2>1 DEF Stamps
    <3>2. x = <<d, x[2]>> /\ x[2] \in Hours  BY <3>1, <1>2
    <3>3. <<d, x[2]>> \in hourly  BY <3>1, <3>2
    <3> QED  BY <3>1, <3>2, <3>3
  <2>2. ASSUME NEW g \in Hours, <<d, g>> \in hourly PROVE g \div DayLength \in Stamps("hourly", d)
    <3>1. <<d, g>> \in {y \in hourly : y[1] = d} /\ <<d, g>>[2] = g  BY <2>2
    <3> QED  BY <3>1 DEF Stamps
  <2> QED  BY <2>1, <2>2
<1>5. ASSUME NEW s \in Stamps("daily", d) PROVE s \in 0 .. Today
  <2>1. s \in Days /\ <<d, s>> \in daily  BY <1>3, <1>5
  <2>2. s \in Nat /\ Today \in Nat  BY ONLY <1>1, <2>1
  <2>3. Opening(s) < now  BY <2>1 DEF PastInv
  <2>4. s <= Today  BY <2>2, <2>3, <1>1
  <2> QED  BY <2>2, <2>4
<1>6. ASSUME NEW s \in Stamps("hourly", d) PROVE s \in 0 .. Today
  <2>1. PICK g \in Hours : <<d, g>> \in hourly /\ s = g \div DayLength  BY <1>4, <1>6
  <2>2. g \in Nat /\ Today \in Nat  BY ONLY <1>1, <2>1
  <2>3. g < now  BY <2>1 DEF PastInv
  <2>4. s <= Today  BY <2>1, <2>3, <1>1
  <2>5. s \in Nat  BY <2>1, <2>2
  <2> QED  BY <2>2, <2>4, <2>5
<1> QED  BY <1>3, <1>4, <1>5, <1>6 DEF Periods

\* The days a chosen period leaves out have the blame for what is missing below it, unless
\* something stored above already had it told.
LEMMA Skips ==
  ASSUME Typed, PastInv, HoleInv, NEW q \in Poll
  PROVE  Below(q, Skipped(q.period, q.device, q.first))
<1> SUFFICES ASSUME q.device \notin astray PROVE Below(q, Skipped(q.period, q.device, q.first))
  BY DEF Below
<1> DEFINE d == q.device
           f == q.first
<1>1. /\ Days \subseteq Nat /\ Hours \subseteq Nat /\ Today \in Days /\ \A h \in Hours : day_of(h) \in Days
  BY Calendar, Zenon
<1>2. d \in Devices /\ d \notin astray /\ f \in Days  BY DEF Poll
<1>3. f \in Nat /\ Today \in Nat  BY ONLY <1>1, <1>2
<1>4. ASSUME q.period = "hourly", NEW h \in Hours, h < Opening(f)
      PROVE  Told(d, h) \/ <<"hourly", d, day_of(h)>> \in Skipped(q.period, d, f)
  <2> DEFINE k == day_of(h)
  <2>1. h \in Nat /\ k \in Days  BY ONLY <1>1, <1>4, Zenon
  <2>2. k \in Nat  BY ONLY <1>1, <2>1
  <2>3. \A j \in Int : Opening(j) <= h <=> j <= k
    <3>1. h \in Int  BY <2>1
    <3> QED  BY ONLY <3>1, OpeningDay, Zenon
  <2> HIDE DEF k
  <2>4. k < f
    <3>0. f \in Int  BY <1>3
    <3>1. Opening(f) \in Int /\ f \in Int  BY ONLY <3>0, OpeningsGrow, Zenon
    <3>2. ~(Opening(f) <= h)  BY <3>1, <2>1, <1>4
    <3> QED  BY <3>1, <3>2, <2>2, <2>3
  <2>5. CASE \A s \in Stamps("hourly", d) : s <= k + 1
    <3>1. <<"hourly", d, k>> \in Skipped("hourly", d, f)  BY <2>1, <2>4, <2>5 DEF Skipped
    <3> QED  BY <3>1, <1>4 DEF k
  <2>6. CASE ~ \A s \in Stamps("hourly", d) : s <= k + 1
    <3>1. PICK s \in Stamps("hourly", d) : ~(s <= k + 1)  BY <2>6
    <3>2. PICK g \in Hours : <<d, g>> \in hourly /\ s = g \div DayLength  BY <1>2, StampsAre
    <3>3. g \in Int /\ s \in 0 .. Today /\ s \in Int
      <4>1. g \in Nat  BY ONLY <3>2, <1>1
      <4>2. s \in 0 .. Today  BY <1>2, StampsAre DEF Periods
      <4> QED  BY <4>1, <4>2, <1>3
    <3>4. day_of(g) \in Int /\ s <= day_of(g) + 1 /\ \A j \in Int : Opening(j) <= g <=> j <= day_of(g)
      <4>1. s <= day_of(g) + 1  BY ONLY <3>2, <3>3, DateOf, Zenon
      <4>2. \A j \in Int : day_of(g) \in Int /\ (Opening(j) <= g <=> j <= day_of(g))  BY ONLY <3>3, OpeningDay, Zenon
      <4> QED  BY <4>1, <4>2, <3>3, Zenon
    <3>5. k + 1 \in Int /\ k + 1 <= day_of(g)  BY <3>1, <3>3, <3>4, <2>2
    <3>6. Opening(k + 1) <= g /\ ~(Opening(k + 1) <= h) /\ Opening(k + 1) \in Int
      <4>1. ~(k + 1 <= k)  BY <2>2
      <4>2. Opening(k + 1) \in Int  BY <3>5, OpeningsGrow
      <4> QED  BY <4>1, <4>2, <3>4, <3>5, <2>3
    <3>7. h < g  BY <3>3, <3>6, <2>1
    <3>8. ToldBelow(d, g)  BY <3>2, <1>2 DEF HoleInv
    <3> QED  BY <3>7, <3>8 DEF ToldBelow
  <2> QED  BY <2>5, <2>6
<1>5. ASSUME q.period = "daily", NEW k \in Days, k < f
      PROVE  Took(d, k) \/ <<"daily", d, k>> \in Skipped(q.period, d, f)
  <2>1. CASE \A s \in Stamps("daily", d) : s <= k
    <3>1. <<"daily", d, k>> \in Skipped("daily", d, f)  BY <2>1, <1>5 DEF Skipped
    <3> QED  BY <3>1, <1>5
  <2>2. CASE ~ \A s \in Stamps("daily", d) : s <= k
    <3>1. PICK s \in Stamps("daily", d) : ~(s <= k)  BY <2>2
    <3>2. s \in Days /\ <<d, s>> \in daily  BY <1>2, StampsAre
    <3>3. s \in Nat /\ k \in Nat  BY ONLY <3>2, <1>1, <1>5
    <3>4. k < s  BY <3>1, <3>3
    <3>5. TookBelow(d, s)  BY <3>2, <1>2 DEF HoleInv
    <3> QED  BY <3>4, <3>5 DEF TookBelow
  <2> QED  BY <2>1, <2>2
<1> QED  BY <1>4, <1>5 DEF Below

\* The last day worth asking for lies between the first day and the end of the run.
LEMMA ServedIs ==
  ASSUME Typed, NEW d \in Devices, NEW since, NEW to \in Nat, Considered(d, since, to) # {}
  PROVE  served_until(d, since, to) \in 0 .. to
<1> DEFINE C == Considered(d, since, to)
           W == {IF assigned[d][i].until = Forever
                 THEN to ELSE Min({assigned[d][i].until \div DayLength, to}) : i \in C}
<1>1. ASSUME NEW i \in C
      PROVE  (IF assigned[d][i].until = Forever
              THEN to ELSE Min({assigned[d][i].until \div DayLength, to})) \in 0 .. to
  <2>1. i \in DOMAIN assigned[d]  BY DEF Considered
  <2>2. assigned[d] \in Seq(Window)  BY DEF Typed
  <2>3. assigned[d][i] \in Window  BY <2>1, <2>2
  <2>4. CASE assigned[d][i].until = Forever  BY <2>4
  <2>5. CASE assigned[d][i].until # Forever
    <3> DEFINE u == assigned[d][i].until
               x == u \div DayLength
               S == {x, to}
    <3>1. u \in 0 .. Horizon  BY <2>3, <2>5 DEF Window
    <3>2. x \in Nat  BY <3>1
    <3> HIDE DEF u
    <3> HIDE DEF x
    <3>3. S \in SUBSET Int /\ S # {} /\ 0 \in Int /\ \A y \in S : 0 <= y  BY <3>2
    <3>4. Min(S) \in S /\ \A y \in S : Min(S) <= y  BY ONLY <3>3, MinIn, Zenon
    <3>5. Min(S) \in 0 .. to  BY <3>2, <3>4
    <3> QED  BY <2>5, <3>5 DEF x, u
  <2> QED  BY <2>4, <2>5
<1>a. W \subseteq 0 .. to
  <2> SUFFICES ASSUME NEW w \in W PROVE w \in 0 .. to
    OBVIOUS
  <2> QED  BY <1>1, Zenon
<1>b. W # {}
  <2>1. PICK i \in C : TRUE  OBVIOUS
  <2>2. (IF assigned[d][i].until = Forever
         THEN to ELSE Min({assigned[d][i].until \div DayLength, to})) \in W  BY <2>1, Zenon
  <2> QED  BY <2>2, Zenon
<1>2. W \in SUBSET Int /\ W # {} /\ to \in Int /\ \A y \in W : y <= to
  <2> HIDE DEF W
  <2> QED  BY <1>a, <1>b
<1>3. Max(W) \in W
  <2> HIDE DEF W
  <2> QED  BY ONLY <1>2, MaxIn, Zenon
<1>4. Max(W) \in 0 .. to  BY ONLY <1>a, <1>3, Zenon
<1> QED  BY <1>4 DEF served_until

\* A routine run carries on from a date that holds something, or from the first day.
LEMMA CarriesOn ==
  ASSUME Typed, PastInv, NEW d \in Devices, NEW period \in Periods
  PROVE  /\ carry_on_from(period, d, Routine) \in 0 .. Today
         /\ carry_on_from(period, d, Routine) = 0 \/ carry_on_from(period, d, Routine) \in Stamps(period, d)
<1> DEFINE S == Stamps(period, d)
<1>1. S \subseteq 0 .. Today  BY StampsAre
<1>2. Today \in Nat
  <2>1. Today \in Days /\ Days \subseteq Nat  BY Calendar, Zenon
  <2> QED  BY ONLY <2>1
<1> HIDE DEF S
<1>3. CASE S = {}
  <2>1. carry_on_from(period, d, Routine) = 0  BY <1>3 DEF carry_on_from, S
  <2> QED  BY <2>1, <1>2
<1>4. CASE S # {}
  <2>1. carry_on_from(period, d, Routine) = Max(S)  BY <1>4 DEF carry_on_from, S
  <2>2. S \in SUBSET Int /\ S # {} /\ Today \in Int /\ \A y \in S : y <= Today  BY <1>1, <1>2, <1>4
  <2>3. Max(S) \in S  BY ONLY <2>2, MaxIn, Zenon
  <2> QED  BY <2>1, <2>3, <1>1 DEF S
<1> QED  BY <1>3, <1>4

\* What lies below the date it carries on from is told.
LEMMA BelowStart ==
  ASSUME Typed, PastInv, HoleInv, NEW d \in Devices, d \notin astray
  PROVE  /\ ToldBelow(d, Opening(carry_on_from("hourly", d, Routine)))
         /\ TookBelow(d, carry_on_from("daily", d, Routine))
<1>1. ToldBelow(d, Opening(carry_on_from("hourly", d, Routine)))
  <2> DEFINE s == carry_on_from("hourly", d, Routine)
  <2>1. s = 0 \/ s \in Stamps("hourly", d)  BY CarriesOn DEF Periods
  <2> HIDE DEF s
  <2>2. CASE s = 0
    <3>1. ASSUME NEW h \in Hours, h < Opening(0) PROVE FALSE  BY <3>1 DEF Hours, Opening
    <3> QED  BY <2>2, <3>1 DEF ToldBelow, s
  <2>3. CASE s \in Stamps("hourly", d)
    <3>1. PICK g \in Hours : <<d, g>> \in hourly /\ s = g \div DayLength  BY <2>3, StampsAre
    <3> QED  BY <3>1 DEF HoleInv, s
  <2> QED  BY <2>1, <2>2, <2>3
<1>2. TookBelow(d, carry_on_from("daily", d, Routine))
  <2> DEFINE s == carry_on_from("daily", d, Routine)
  <2>1. s = 0 \/ s \in Stamps("daily", d)  BY CarriesOn DEF Periods
  <2> HIDE DEF s
  <2>2. CASE s = 0
    <3>1. ASSUME NEW k \in Days, k < 0 PROVE FALSE  BY <3>1 DEF Days
    <3> QED  BY <2>2, <3>1 DEF TookBelow, s
  <2>3. CASE s \in Stamps("daily", d)
    <3>1. s \in Days /\ <<d, s>> \in daily  BY <2>3, StampsAre
    <3> QED  BY <3>1 DEF HoleInv, s
  <2> QED  BY <2>1, <2>2, <2>3
<1> QED  BY <1>1, <1>2

\* A chunk lies inside its stretch.
LEMMA ChunksIn ==
  ASSUME NEW period, NEW d, NEW start \in Int, NEW stop \in Int, NEW p \in Chunks(period, d, start, stop)
  PROVE  /\ p = [period |-> period, device |-> d, first |-> p.first, last |-> p.last]
         /\ p.first \in start .. stop /\ p.last \in p.first .. stop
<1>1. PICK f \in {g \in start .. stop : (g - start) % ChunkDays = 0} :
        p = [period |-> period, device |-> d, first |-> f, last |-> Min({f + ChunkDays - 1, stop})]
  BY DEF Chunks
<1> DEFINE S == {f + ChunkDays - 1, stop}
<1>2. f \in start .. stop /\ f + ChunkDays - 1 \in Int /\ f <= f + ChunkDays - 1 /\ ChunkDays \in Nat \ {0}  OBVIOUS
<1>3. S \in SUBSET Int /\ S # {} /\ f \in Int /\ \A y \in S : f <= y  BY <1>2
<1>4. Min(S) \in S /\ \A y \in S : Min(S) <= y  BY ONLY <1>3, MinIn, Zenon
<1>5. Min(S) \in f .. stop  BY <1>2, <1>3, <1>4
<1> QED  BY <1>1, <1>2, <1>5

\* A run asks about days up to the end of its window.
LEMMA PlanIn ==
  ASSUME Typed, PastInv, NEW d \in Devices, NEW since \in Nat \cup {Routine}, NEW to \in 0 .. Today,
         Considered(d, since, to) # {}, NEW p \in plan_device(d, since, to)
  PROVE  p \in Poll /\ p.device = d /\ p.first <= p.last /\ p.last <= Today
<1> DEFINE stop == final(since, to, served_until(d, since, to))
<1>1. Today \in Days /\ Days \subseteq Nat  BY Calendar, Zenon
<1>2. Today \in Nat  BY ONLY <1>1
<1>3. to \in Nat /\ to <= Today  BY <1>2
<1>4. served_until(d, since, to) \in 0 .. to  BY <1>3, ServedIs
<1>5. stop \in 0 .. to  BY <1>3, <1>4 DEF final
<1>6. PICK period \in Periods : p \in Chunks(period, d, carry_on_from(period, d, since), stop)
  BY DEF plan_device
<1> HIDE DEF stop
<1> DEFINE start == carry_on_from(period, d, since)
<1>7. start \in Nat
  <2>1. CASE since = Routine  BY <2>1, <1>2, CarriesOn
  <2>2. CASE since # Routine  BY <2>2 DEF carry_on_from
  <2> QED  BY <2>1, <2>2
<1> HIDE DEF start
<1>8. start \in Int /\ stop \in Int  BY <1>5, <1>7
<1>9. /\ p = [period |-> period, device |-> d, first |-> p.first, last |-> p.last]
      /\ p.first \in start .. stop /\ p.last \in p.first .. stop
  BY ONLY <1>6, <1>8, ChunksIn, Zenon DEF start
<1>10. p.first \in 0 .. Today /\ p.last \in 0 .. Today /\ p.first <= p.last /\ p.device = d
  <2>1. p.first \in start .. stop /\ p.last \in p.first .. stop  BY <1>9
  <2>2. p.device = d  BY <1>9
  <2> QED  BY <2>1, <2>2, <1>2, <1>3, <1>5, <1>7
<1>11. p.first \in Days /\ p.last \in Days
  <2>1. Today \in 0 .. Horizon \div DayLength  BY <1>1 DEF Days
  <2>2. Horizon \div DayLength \in Int  OBVIOUS
  <2> HIDE DEF Days
  <2> DEFINE z == Horizon \div DayLength
  <2> HIDE DEF z
  <2>3. p.first \in 0 .. z /\ p.last \in 0 .. z  BY <2>1, <2>2, <1>10 DEF z
  <2> QED  BY <2>3 DEF Days, z
<1>12. p \in Poll  BY <1>9, <1>11 DEF Poll
<1> QED  BY <1>10, <1>12, <1>2

\* Some request of a plan asks for the hour, or the day.
HourIn(P, d, h) == \E q \in P : /\ q.period = "hourly" /\ q.device = d
                                /\ Opening(q.first) <= h /\ h < Opening(q.last + 1)
DayIn(P, d, k)  == \E q \in P : /\ q.period = "daily" /\ q.device = d /\ q.first <= k /\ k <= q.last

\* A request for the gas day of an hour asks for the hour.
LEMMA HourOfDay ==
  ASSUME NEW h \in Int, NEW k \in Int, NEW first \in Int, NEW last \in Int, first <= k, k <= last, k = day_of(h)
  PROVE  Opening(first) <= h /\ h < Opening(last + 1)
<1>1. \A j \in Int : Opening(j) <= h <=> j <= k  BY OpeningDay
<1>2. last + 1 \in Int /\ ~(last + 1 <= k)  OBVIOUS
<1>3. Opening(last + 1) \in Int  BY <1>2, OpeningsGrow
<1> QED  BY <1>1, <1>2, <1>3

\* A routine plan for a device asks for everything between the date it carries on from
\* and the end of its service, in order.
LEMMA PlanRoutine ==
  ASSUME Typed, PastInv, HoleInv, NEW d \in Devices, d \notin astray, Considered(d, Routine, Today) # {},
         NEW P, P = plan_device(d, Routine, Today),
         NEW stop, stop = served_until(d, Routine, Today)
  PROVE  /\ \A p \in P : p.period = "hourly" => \A h \in Hours : h < Opening(p.first) =>
              \/ Told(d, h)
              \/ \E q \in P : /\ q.period = "hourly" /\ q.device = d /\ q.first < p.first
                              /\ Opening(q.first) <= h /\ h < Opening(q.last + 1)
         /\ \A p \in P : p.period = "daily" => \A k \in Days : k < p.first =>
              \/ Took(d, k)
              \/ \E q \in P : /\ q.period = "daily" /\ q.device = d /\ q.first < p.first
                              /\ q.first <= k /\ k <= q.last
         /\ \A h \in Hours : h < stop * DayLength => Told(d, h) \/ HourIn(P, d, h)
         /\ \A k \in Days : k < stop => Took(d, k) \/ DayIn(P, d, k)
<1> DEFINE S(period) == carry_on_from(period, d, Routine)
           Asked_(period) == IF S(period) > stop \/ (Routine = Routine /\ stop < Today /\ S(period) = stop)
                             THEN {} ELSE Chunks(period, d, S(period), stop)
<1>1. Today \in Days /\ Days \subseteq Nat /\ Hours \subseteq Nat  BY Calendar, Zenon
<1>2. Today \in Nat  BY ONLY <1>1
<1>3. stop \in 0 .. Today  BY <1>2, ServedIs
<1>4. stop \in Int  BY <1>3
<1>5. ASSUME NEW period \in Periods PROVE S(period) \in Nat /\ S(period) \in Int
  <2>1. S(period) \in 0 .. Today  BY CarriesOn
  <2> HIDE DEF S
  <2> QED  BY ONLY <2>1, <1>2
<1>6. P = UNION {Asked_(period) : period \in Periods}  BY DEF plan_device, final
\* The requests of one period.
<1>7. ASSUME NEW p \in P
      PROVE  /\ p.period \in Periods /\ p \in Asked_(p.period) /\ p \in Chunks(p.period, d, S(p.period), stop)
             /\ p.first \in S(p.period) .. stop
  <2>1. PICK period \in Periods : p \in Asked_(period)  BY <1>6
  <2>2. p \in Chunks(period, d, S(period), stop)  BY <2>1
  <2>3. S(period) \in Int  BY <1>5
  <2> HIDE DEF S
  <2>4. p.period = period /\ p.first \in S(period) .. stop  BY <2>2, <2>3, <1>4, ChunksIn
  <2> QED  BY <2>1, <2>2, <2>4
\* Each day of the stretch is in one of them, if there are any.
<1>8. ASSUME NEW period \in Periods, NEW k \in Int, S(period) <= k, k <= stop,
             k < stop \/ \E p \in P : p.period = period
      PROVE  \E q \in P : /\ q.period = period /\ q.device = d /\ q.first <= k /\ k <= q.last
                          /\ q.first \in Int /\ q.last \in Int
  <2>1. S(period) \in Int  BY <1>5
  <2>2. Asked_(period) = Chunks(period, d, S(period), stop)
    <3>1. CASE k < stop
      <4>1. ~(S(period) > stop) /\ S(period) # stop  BY <3>1, <2>1, <1>4, <1>8
      <4> QED  BY <4>1
    <3>2. CASE \E p \in P : p.period = period
      <4>1. Asked_(period) # {}  BY <3>2, <1>7
      <4> QED  BY <4>1
    <3> QED  BY <3>1, <3>2, <1>8
  <2>3. k \in S(period) .. stop  BY <2>1, <1>4, <1>8
  <2>4. \E q \in Chunks(period, d, S(period), stop) :
          q.period = period /\ q.device = d /\ q.first <= k /\ k <= q.last /\ q.first \in Int /\ q.last \in Int
    <3> HIDE DEF S
    <3> QED  BY <2>1, <2>3, <1>4, ChunkOf
  <2>5. Asked_(period) \subseteq P  BY <1>6
  <2> HIDE DEF Asked_, S
  <2> QED  BY <2>2, <2>4, <2>5
<1>9. ToldBelow(d, Opening(S("hourly"))) /\ TookBelow(d, S("daily"))  BY BelowStart
<1> HIDE DEF Asked_, S
<1>10. "hourly" \in Periods /\ "daily" \in Periods  BY DEF Periods
\* Hours by their days.
<1>11. ASSUME NEW h \in Hours
       PROVE  /\ h \in Int /\ day_of(h) \in Int /\ \A k \in Int : Opening(k) <= h <=> k <= day_of(h)
              /\ \A k \in Int : h < Opening(k) <=> day_of(h) < k
  <2>1. h \in Nat  BY ONLY <1>1, <1>11
  <2>2. h \in Int  BY <2>1
  <2>3. \A k \in Int : day_of(h) \in Int /\ (Opening(k) <= h <=> k <= day_of(h))  BY ONLY <2>2, OpeningDay, Zenon
  <2>4. day_of(h) \in Int  BY ONLY <2>2, <2>3, Zenon
  <2>5. ASSUME NEW k \in Int PROVE h < Opening(k) <=> day_of(h) < k
    <3>1. Opening(k) \in Int /\ (Opening(k) <= h <=> k <= day_of(h))  BY <2>3, OpeningsGrow
    <3> QED  BY <3>1, <2>2, <2>4
  <2> QED  BY <2>2, <2>3, <2>4, <2>5
<1>12. ASSUME NEW h \in Hours, S("hourly") <= day_of(h), day_of(h) <= stop,
              day_of(h) < stop \/ \E p \in P : p.period = "hourly"
       PROVE  \E q \in P : /\ q.period = "hourly" /\ q.device = d /\ q.first <= day_of(h) /\ q.first \in Int
                           /\ Opening(q.first) <= h /\ h < Opening(q.last + 1)
  <2>1. h \in Int /\ day_of(h) \in Int  BY <1>11
  <2>2. PICK q \in P : /\ q.period = "hourly" /\ q.device = d /\ q.first <= day_of(h) /\ day_of(h) <= q.last
                       /\ q.first \in Int /\ q.last \in Int
    BY <2>1, <1>8, <1>10, <1>12
  <2>3. Opening(q.first) <= h /\ h < Opening(q.last + 1)  BY <2>1, <2>2, HourOfDay
  <2> QED  BY <2>2, <2>3
<1>13. ASSUME NEW p \in P, p.period = "hourly", NEW h \in Hours, h < Opening(p.first)
       PROVE  \/ Told(d, h)
              \/ \E q \in P : /\ q.period = "hourly" /\ q.device = d /\ q.first < p.first
                              /\ Opening(q.first) <= h /\ h < Opening(q.last + 1)
  <2>1. p.first \in S("hourly") .. stop /\ S("hourly") \in Int /\ p.first \in Int /\ p.first <= stop
    <3>1. p.first \in S("hourly") .. stop /\ S("hourly") \in Int  BY <1>5, <1>7, <1>10, <1>13
    <3> QED  BY <3>1, <1>4
  <2>2. day_of(h) < p.first /\ day_of(h) \in Int /\ (h < Opening(S("hourly")) <=> day_of(h) < S("hourly"))
    BY <2>1, <1>11, <1>13
  <2>3. CASE day_of(h) < S("hourly")  BY <2>2, <2>3, <1>9 DEF ToldBelow
  <2>4. CASE ~(day_of(h) < S("hourly"))
    <3>1. S("hourly") <= day_of(h) /\ day_of(h) <= stop  BY <2>1, <2>2, <2>4, <1>4
    <3>2. PICK q \in P : /\ q.period = "hourly" /\ q.device = d /\ q.first <= day_of(h) /\ q.first \in Int
                         /\ Opening(q.first) <= h /\ h < Opening(q.last + 1)
      BY <3>1, <1>12, <1>13
    <3>3. q.first < p.first  BY <3>2, <2>1, <2>2
    <3> QED  BY <3>2, <3>3
  <2> QED  BY <2>3, <2>4
<1>14. ASSUME NEW p \in P, p.period = "daily", NEW k \in Days, k < p.first
       PROVE  \/ Took(d, k)
              \/ \E q \in P : /\ q.period = "daily" /\ q.device = d /\ q.first < p.first
                              /\ q.first <= k /\ k <= q.last
  <2>1. p.first \in S("daily") .. stop /\ S("daily") \in Int /\ p.first \in Int /\ p.first <= stop
    <3>1. p.first \in S("daily") .. stop /\ S("daily") \in Int  BY <1>5, <1>7, <1>10, <1>14
    <3> QED  BY <3>1, <1>4
  <2>2. k \in Nat  BY ONLY <1>1, <1>14
  <2>3. CASE k < S("daily")  BY <2>3, <1>9 DEF TookBelow
  <2>4. CASE ~(k < S("daily"))
    <3>1. k \in Int /\ S("daily") <= k /\ k <= stop  BY <2>1, <2>2, <2>4, <1>4, <1>14
    <3>2. PICK q \in P : q.period = "daily" /\ q.device = d /\ q.first <= k /\ k <= q.last /\ q.first \in Int
      BY <3>1, <1>8, <1>10, <1>14
    <3>3. q.first < p.first  BY <3>1, <3>2, <2>1, <1>14
    <3> QED  BY <3>2, <3>3
  <2> QED  BY <2>3, <2>4
<1>15. ASSUME NEW h \in Hours, h < stop * DayLength PROVE Told(d, h) \/ HourIn(P, d, h)
  <2>1. /\ day_of(h) \in Int /\ (h < Opening(S("hourly")) <=> day_of(h) < S("hourly"))
        /\ (h < Opening(stop) <=> day_of(h) < stop) /\ S("hourly") \in Int /\ h \in Int
    BY <1>4, <1>5, <1>10, <1>11
  <2>2. stop * DayLength <= Opening(stop) /\ Opening(stop) \in Int /\ stop * DayLength \in Int  BY <1>4, OpeningsGrow
  <2>3. day_of(h) < stop  BY <2>1, <2>2, <1>15
  <2>4. CASE day_of(h) < S("hourly")  BY <2>1, <2>4, <1>9 DEF ToldBelow
  <2>5. CASE ~(day_of(h) < S("hourly"))
    <3>1. S("hourly") <= day_of(h) /\ day_of(h) <= stop  BY <2>1, <2>3, <2>5, <1>4
    <3> QED  BY <3>1, <2>3, <1>12 DEF HourIn
  <2> QED  BY <2>4, <2>5
<1>16. ASSUME NEW k \in Days, k < stop PROVE Took(d, k) \/ DayIn(P, d, k)
  <2>1. S("daily") \in Int  BY <1>5, <1>10
  <2>2. k \in Nat  BY ONLY <1>1, <1>16
  <2>3. CASE k < S("daily")  BY <2>3, <1>9 DEF TookBelow
  <2>4. CASE ~(k < S("daily"))
    <3>1. k \in Int /\ S("daily") <= k /\ k <= stop  BY <2>1, <2>2, <2>4, <1>4, <1>16
    <3> QED  BY <3>1, <1>8, <1>10, <1>16 DEF DayIn
  <2> QED  BY <2>3, <2>4
<1> QED  BY <1>13, <1>14, <1>15, <1>16

\* A re-read of a chosen period asks for every hour of it.
LEMMA PlanReread ==
  ASSUME Typed, NEW d \in Devices, NEW since \in Nat, NEW to \in 0 .. Today,
         NEW h \in Hours, Opening(since) <= h, h < Opening(to + 1)
  PROVE  HourIn(plan_device(d, since, to), d, h)
<1>1. Today \in Days /\ Days \subseteq Nat /\ Hours \subseteq Nat  BY Calendar, Zenon
<1>2. Today \in Nat /\ h \in Nat  BY ONLY <1>1
<1>3. to \in Nat /\ since # Routine /\ to + 1 \in Int /\ h \in Int /\ since \in Int /\ to \in Int  BY <1>2 DEF Routine
<1> DEFINE k == day_of(h)
<1>4. \A j \in Int : k \in Int /\ (Opening(j) <= h <=> j <= k)  BY ONLY <1>3, OpeningDay, Zenon
<1>5. k \in Int  BY ONLY <1>3, <1>4, Zenon
<1>6. since <= k  BY <1>3, <1>4
<1>7. k <= to
  <2> HIDE DEF k
  <2>1. Opening(to + 1) \in Int  BY <1>3, OpeningsGrow
  <2>2. ~(to + 1 <= k)  BY <2>1, <1>3, <1>4
  <2> QED  BY <2>2, <1>3, <1>5
<1> HIDE DEF k
<1>8. k \in since .. to  BY <1>3, <1>5, <1>6, <1>7
<1>9. PICK q \in Chunks("hourly", d, since, to) :
        q.period = "hourly" /\ q.device = d /\ q.first <= k /\ k <= q.last /\ q.first \in Int /\ q.last \in Int
  BY <1>3, <1>8, ChunkOf
<1>10. Chunks("hourly", d, since, to) \subseteq plan_device(d, since, to)
  <2>1. ~(since > to)  BY <1>3, <1>5, <1>6, <1>7
  <2>2. final(since, to, served_until(d, since, to)) = to /\ carry_on_from("hourly", d, since) = since
    BY <1>3 DEF final, carry_on_from
  <2> QED  BY <2>1, <2>2, <1>3 DEF plan_device, Periods
<1>11. Opening(q.first) <= h /\ h < Opening(q.last + 1)  BY <1>3, <1>5, <1>9, HourOfDay DEF k
<1> QED  BY <1>9, <1>10, <1>11 DEF HourIn

(* ---- The first state ---- *)

LEMMA InitIInv == Init => IInv
<1> SUFFICES ASSUME Init PROVE IInv
  OBVIOUS
<1> USE DEF Init
<1>1. Opening(0) \in 0 .. Horizon
  <2>1. Opening(0) = ContractHour  BY DEF Opening
  <2> QED  BY <2>1
<1>2. Typed
  <2>1. row \in Row /\ row.started <= now /\ row.updated <= now
    <3>1. Never \in Int /\ Never <= now  BY <1>1 DEF Never
    <3> QED  BY <3>1 DEF Row
  <2>2. run \in [Runners -> Run \cup {Idle}]  OBVIOUS
  <2>3. assigned \in [Devices -> Seq(Window)]
    <3>1. [from |-> 0, until |-> now] \in Window /\ [from |-> now, until |-> Forever] \in Window
      BY <1>1 DEF Window
    <3> QED  BY <3>1
  <2>4. \A d \in Devices : assigned[d] # <<>>  OBVIOUS
  <2>5. now \in 0 .. Horizon /\ times \in (SUBSET (0 .. DayLength - 1)) \ {{}}  BY <1>1
  <2> QED  BY <2>1, <2>2, <2>3, <2>4, <2>5 DEF Typed
<1>3. Working = {}  BY DEF Working
<1>4. AloneInv  BY <1>3 DEF AloneInv
<1>5. PastInv /\ HoleInv  BY DEF PastInv, HoleInv
<1>6. RunsInv
  <2>1. \A r \in Runners : ~AtWork(r)  BY DEF AtWork
  <2> QED  BY <2>1 DEF RunsInv, RunOf, ReachOf, OrderOf, CatchOf, RereadOf, Routinely
<1> QED  BY <1>2, <1>4, <1>5, <1>6 DEF IInv

(* ---- Steps that leave the archive alone ---- *)

\* A step that leaves the archive and the clock alone forgets nothing.
LEMMA Forgets ==
  ASSUME Typed, UNCHANGED <<now, archive>>
  PROVE  Grows
<1>1. now \in Int  BY DEF Typed
<1>2. hourly' = hourly /\ settled' = settled /\ lost' = lost /\ astray' = astray /\ now' = now  BY DEF archive
<1>3. \A d \in Devices, h \in Hours : Told(d, h) => Told(d, h)'  BY <1>2 DEF Told
<1>4. \A d \in Devices, k \in Days : Took(d, k) => Took(d, k)'  BY <1>2 DEF Took
<1> QED  BY <1>1, <1>2, <1>3, <1>4 DEF Grows

\* A run that is not polling has nothing to keep.
LEMMA Resting ==
  ASSUME NEW r, ~AtWork(r)'
  PROVE  RunOf(r)'
BY DEF RunOf, ReachOf, OrderOf, CatchOf, RereadOf, Routinely

\* A step that leaves the archive alone, and the runs but one, has that one to look at.
LEMMA Alone ==
  ASSUME IInv, Typed', UNCHANGED <<now, archive>>, NEW r \in Runners, RunOf(r)',
         \A o \in Runners : o # r => run'[o] = run[o]
  PROVE  PastInv' /\ HoleInv' /\ RunsInv'
<1>1. Grows  BY Forgets DEF IInv
<1>2. PastInv' /\ HoleInv'
  <2>1. now' \in Int /\ hourly' = hourly /\ daily' = daily  BY DEF Typed, archive
  <2> QED  BY <1>1, <2>1, HolesStay DEF IInv
<1>3. ASSUME NEW o \in Runners, o # r PROVE RunOf(o)'
  <2>1. RunOf(o) /\ run'[o] = run[o]  BY <1>3 DEF IInv, RunsInv
  <2> QED  BY <2>1, <1>1, Stays DEF IInv
<1> QED  BY <1>2, <1>3 DEF RunsInv

\* A lock is taken by a run that is alone then, or it is taken over.
LEMMA Acquires ==
  ASSUME IInv, NEW r \in Runners, NEW since \in Nat \cup {Routine}, NEW until \in Nat, acquire(r, since, until)
  PROVE  IInv'
<1> USE DEF IInv
<1>1. Fresh(since, until) \in Run
  <2>1. now \in Int  BY DEF Typed
  <2>2. [d \in {} |-> 0] \in [{} -> Days] /\ {} \in SUBSET Devices  OBVIOUS
  <2>3. [d \in {} |-> 0] \in UNION {[D -> Days] : D \in SUBSET Devices}  BY <2>2
  <2> QED  BY <2>1, <2>3 DEF Fresh, Run
<1>2. run' = [run EXCEPT ![r] = Fresh(since, until)] /\ UNCHANGED <<now, archive>>  BY DEF acquire
<1>a. run \in [Runners -> Run \cup {Idle}]  BY DEF Typed
<1>3. Typed'
  <2>1. run' \in [Runners -> Run \cup {Idle}]  BY <1>1, <1>2, <1>a
  <2>2. row' \in Row /\ row'.started <= now' /\ row'.updated <= now'
    <3>1. now \in Int /\ now <= now /\ now' = now  BY <1>2 DEF Typed
    <3>2. row' = [status |-> "running", started |-> now, updated |-> now]  BY DEF acquire, Clock
    <3> QED  BY <3>1, <3>2 DEF Row
  <2> QED  BY <2>1, <2>2 DEF Typed, acquire, archive
<1>4. AloneInv'
  <2> SUFFICES ASSUME ~shared' PROVE row'.status = "running" /\ (Working' = {} \/ Working' = {r})
    BY DEF AloneInv
  <2>1. ~shared /\ ~(Working # {} /\ row.updated < now - Stale)  BY DEF acquire
  <2>2. Working = {}
    <3>1. Claimable  BY DEF acquire
    <3> QED  BY <3>1, <2>1 DEF AloneInv, Claimable
  <2>3. \A o \in Runners : o # r => run'[o] = Idle  BY <2>2, <1>2, <1>a DEF Working
  <2> QED  BY <2>3 DEF acquire, Working
<1>5. RunOf(r)'
  <2>1. run'[r].at = "begun"  BY <1>2, <1>a DEF Fresh
  <2> QED  BY <2>1, Resting DEF AtWork
<1>6. \A o \in Runners : o # r => run'[o] = run[o]  BY <1>2, <1>a
<1>7. PastInv' /\ HoleInv' /\ RunsInv'  BY <1>2, <1>3, <1>5, <1>6, Alone
<1> QED  BY <1>3, <1>4, <1>7

\* A run that leaves, or dies, leaves the archive as it is.
LEMMA Leaves ==
  ASSUME IInv, NEW r \in Runners, run' = [run EXCEPT ![r] = Idle], UNCHANGED <<now, times, assigned, archive, shared>>,
         row' = row \/ (run[r] # Idle /\ row' \in Row /\ row'.started <= now /\ row'.updated <= now)
  PROVE  IInv'
<1> USE DEF IInv
<1>a. run \in [Runners -> Run \cup {Idle}]  BY DEF Typed
<1>1. Typed'
  <2>1. run' \in [Runners -> Run \cup {Idle}]  BY <1>a
  <2>2. row' \in Row /\ row'.started <= now' /\ row'.updated <= now'  BY DEF Typed
  <2> QED  BY <2>1, <2>2 DEF Typed, archive
<1>2. Working' = Working \ {r}  BY <1>a DEF Working
<1>3. AloneInv'
  <2>1. CASE run[r] # Idle
    <3>1. r \in Working  BY <2>1 DEF Working
    <3> QED  BY <3>1, <1>2 DEF AloneInv
  <2>2. CASE run[r] = Idle
    <3>1. Working' = Working /\ row' = row  BY <2>2, <1>2 DEF Working
    <3> QED  BY <3>1 DEF AloneInv
  <2> QED  BY <2>1, <2>2
<1>4. RunOf(r)'
  <2>1. run'[r] = Idle  BY <1>a
  <2> QED  BY <2>1, Resting DEF AtWork
<1>5. \A o \in Runners : o # r => run'[o] = run[o]  BY <1>a
<1>6. PastInv' /\ HoleInv' /\ RunsInv'  BY <1>1, <1>4, <1>5, Alone
<1> QED  BY <1>1, <1>3, <1>6

LEMMA Finalizes ==
  ASSUME IInv, NEW r \in Runners, finalize(r)
  PROVE  IInv'
<1>1. row' \in Row /\ row'.started <= now /\ row'.updated <= now
  <2>1. row \in Row /\ row.started <= now /\ row.updated <= now /\ now \in Int  BY DEF IInv, Typed
  <2>2. CASE row.status = "running"
    <3> DEFINE s == IF run[r].failed THEN "error" ELSE "done"
    <3>1. row' = [row EXCEPT !.status = s, !.updated = now]  BY <2>2 DEF finalize
    <3>2. s \in {"error", "done"}  OBVIOUS
    <3> HIDE DEF s
    <3>3. /\ row' = [row EXCEPT !.status = s, !.updated = now] /\ row \in Row /\ now \in Int
          /\ s \in {"idle", "running", "done", "error"}
      BY <2>1, <3>1, <3>2
    <3>4. row' \in Row  BY ONLY <3>3 DEF Row
    <3>5. row'.updated = now /\ row'.started = row.started  BY ONLY <3>3 DEF Row
    <3> QED  BY <2>1, <3>4, <3>5
  <2>3. CASE row.status # "running"  BY <2>1, <2>3 DEF finalize
  <2> QED  BY <2>2, <2>3
<1> QED  BY <1>1, Leaves DEF finalize

LEMMA Dies ==
  ASSUME IInv, NEW r \in Runners, die(r)
  PROVE  IInv'
BY Leaves DEF die

\* The clock, the schedule and the history of a device do not touch the archive.
LEMMA Ticks ==
  ASSUME IInv, tick
  PROVE  IInv'
<1> USE DEF IInv
<1>0. now \in Int /\ now' = now + 1 /\ Horizon \in Nat /\ now \in 0 .. Horizon  BY DEF Typed, tick
<1>1. Typed'
  <2>1. now' \in 0 .. Horizon  BY <1>0 DEF tick
  <2>2. row' \in Row /\ row'.started <= now' /\ row'.updated <= now'
    <3>1. row \in Row /\ row.started <= now /\ row.updated <= now /\ row' = row  BY DEF Typed, tick
    <3>2. row.started \in Int /\ row.updated \in Int  BY <3>1 DEF Row
    <3> QED  BY <3>1, <3>2, <1>0
  <2> QED  BY <2>1, <2>2 DEF Typed, tick, archive
<1>2. Grows
  <2>1. now <= now'  BY <1>0
  <2>2. hourly' = hourly /\ settled' = settled /\ lost' = lost /\ astray' = astray  BY DEF tick, archive
  <2>3. \A d \in Devices, h \in Hours : Told(d, h) => Told(d, h)'  BY <2>2 DEF Told
  <2>4. \A d \in Devices, k \in Days : Took(d, k) => Took(d, k)'  BY <2>2 DEF Took
  <2> QED  BY <2>1, <2>2, <2>3, <2>4 DEF Grows
<1>3. PastInv' /\ HoleInv'
  <2>1. now' \in Int /\ hourly' = hourly /\ daily' = daily  BY <1>0 DEF tick, archive
  <2> QED  BY <1>2, <2>1, HolesStay
<1>4. RunsInv'
  <2>1. ASSUME NEW o \in Runners PROVE RunOf(o)'
    <3>1. RunOf(o) /\ run'[o] = run[o]  BY DEF RunsInv, tick
    <3> QED  BY <3>1, <1>1, <1>2, Stays
  <2> QED  BY <2>1 DEF RunsInv
<1>5. AloneInv'  BY DEF AloneInv, Working, tick
<1> QED  BY <1>1, <1>3, <1>4, <1>5

LEMMA Apart ==
  ASSUME IInv, Typed', UNCHANGED <<now, row, run, archive, shared>>
  PROVE  IInv'
<1> USE DEF IInv
<1>1. Grows  BY Forgets
<1>2. PastInv' /\ HoleInv'
  <2>1. now' \in Int /\ hourly' = hourly /\ daily' = daily  BY DEF Typed, archive
  <2> QED  BY <1>1, <2>1, HolesStay
<1>3. RunsInv'
  <2>1. ASSUME NEW o \in Runners PROVE RunOf(o)'
    <3>1. RunOf(o) /\ run'[o] = run[o]  BY DEF RunsInv
    <3> QED  BY <3>1, <1>1, Stays
  <2> QED  BY <2>1 DEF RunsInv
<1>4. AloneInv'  BY DEF AloneInv, Working
<1> QED  BY <1>2, <1>3, <1>4

LEMMA WritesTimes ==
  ASSUME IInv, NEW hours \in SUBSET (0 .. DayLength - 1), write_refresh_times(hours)
  PROVE  IInv'
<1>1. times' \in (SUBSET (0 .. DayLength - 1)) \ {{}}  BY DEF write_refresh_times, Times
<1>2. Typed'  BY <1>1 DEF IInv, Typed, write_refresh_times, archive
<1> QED  BY <1>2, Apart DEF write_refresh_times

LEMMA Moves ==
  ASSUME IInv, NEW d \in Devices, replace_history(d)
  PROVE  IInv'
<1>1. now \in 0 .. Horizon /\ assigned \in [Devices -> Seq(Window)] /\ \A e \in Devices : assigned[e] # <<>>
  BY DEF IInv, Typed
<1>2. assigned[d] \in Seq(Window) /\ assigned[d] # <<>> /\ Len(assigned[d]) \in Nat \ {0}  BY <1>1
<1> DEFINE n == Len(assigned[d])
           w == assigned[d][n]
           new == IF LastWindow(d).until = Forever
                  THEN [assigned[d] EXCEPT ![n].until = now]
                  ELSE Append(assigned[d], [from |-> now, until |-> Forever])
<1>3. n \in DOMAIN assigned[d] /\ w \in Window  BY <1>2
<1>4. new \in Seq(Window) /\ new # <<>>
  <2>1. CASE LastWindow(d).until = Forever
    <3>1. [w EXCEPT !.until = now] \in Window  BY <1>1, <1>3 DEF Window
    <3>2. new = [assigned[d] EXCEPT ![n] = [w EXCEPT !.until = now]]  BY <2>1
    <3>3. [assigned[d] EXCEPT ![n] = [w EXCEPT !.until = now]] \in Seq(Window)
      <4> DEFINE v == [w EXCEPT !.until = now]
      <4> HIDE DEF v
      <4> QED  BY <1>2, <1>3, <3>1 DEF v
    <3>4. DOMAIN new = DOMAIN assigned[d]  BY <3>2
    <3>5. Len(new) # 0
      <4> HIDE DEF new
      <4>1. new \in Seq(Window)  BY <3>2, <3>3
      <4>2. DOMAIN new = 1 .. Len(new) /\ Len(new) \in Nat  BY <4>1
      <4>3. n \in 1 .. Len(new)  BY <3>4, <4>2, <1>3
      <4> QED  BY <4>2, <4>3
    <3>6. new # <<>>
      <4> HIDE DEF new
      <4> QED  BY <3>5
    <3> QED  BY <3>2, <3>3, <3>6
  <2>2. CASE LastWindow(d).until # Forever
    <3>1. [from |-> now, until |-> Forever] \in Window  BY <1>1 DEF Window
    <3>2. new = Append(assigned[d], [from |-> now, until |-> Forever])  BY <2>2
    <3> QED  BY <3>1, <3>2, <1>2
  <2> QED  BY <2>1, <2>2
<1>5. assigned' = [assigned EXCEPT ![d] = new]  BY DEF replace_history
<1> HIDE DEF new
<1>6. assigned' \in [Devices -> Seq(Window)] /\ \A e \in Devices : assigned'[e] # <<>>  BY <1>1, <1>4, <1>5
<1>7. Typed'  BY <1>6 DEF IInv, Typed, replace_history, archive
<1> QED  BY <1>7, Apart DEF replace_history

(* ---- The steps of a run ---- *)

\* A heartbeat keeps the status of the row.
LEMMA Beats ==
  ASSUME row \in Row, row.started <= now, row.updated <= now, now \in Int,
         row' = IF row.status = "running" THEN [row EXCEPT !.updated = now] ELSE row
  PROVE  row' \in Row /\ row'.started <= now /\ row'.updated <= now /\ row'.status = row.status
<1>1. CASE row.status = "running"
  <2>1. row' = [row EXCEPT !.updated = now]  BY <1>1
  <2>2. row' \in Row  BY <2>1 DEF Row
  <2>3. row'.updated = now /\ row'.started = row.started /\ row'.status = row.status  BY <2>1 DEF Row
  <2> QED  BY <2>2, <2>3
<1>2. CASE row.status # "running"  BY <1>2
<1> QED  BY <1>1, <1>2

\* A run that goes on, whatever it does, is as alone as it was.
LEMMA StaysAlone ==
  ASSUME AloneInv, NEW r \in Runners, run[r] # Idle, shared' = shared, row'.status = row.status,
         \A o \in Runners : o # r => run'[o] = run[o]
  PROVE  AloneInv'
<1> SUFFICES ASSUME ~shared' PROVE \/ Working' = {}
                                   \/ row'.status = "running" /\ \E o \in Runners : Working' = {o}
  BY DEF AloneInv
<1>1. r \in Working  BY DEF Working
<1>2. row.status = "running" /\ \E o \in Runners : Working = {o}  BY <1>1 DEF AloneInv
<1>3. Working = {r}  BY <1>1, <1>2
<1>4. \A o \in Runners : o # r => run'[o] = Idle
  <2>1. ASSUME NEW o \in Runners, o # r PROVE run'[o] = Idle
    <3>1. o \notin Working  BY <1>3, <2>1
    <3> QED  BY <3>1, <2>1 DEF Working
  <2> QED  BY <2>1
<1>5. Working' = {} \/ Working' = {r}  BY <1>4 DEF Working
<1> QED  BY <1>2, <1>5

\* The plan of a run asks for whatever it has to know of.
LEMMA Plans ==
  ASSUME IInv, NEW r \in Runners, plan(r)
  PROVE  IInv'
<1> USE DEF IInv
<1> DEFINE since == run[r].since
           to    == IF since = Routine THEN Today ELSE Min({run[r].until, Today})
           asked == {d \in Devices : Considered(d, since, to) # {}}
           ends  == [d \in asked |-> served_until(d, since, to)]
           todo  == UNION {plan_device(d, since, to) : d \in asked}
<1>1. run \in [Runners -> Run \cup {Idle}] /\ run[r] \in Run /\ run[r].at = "begun"  BY DEF Typed, plan
<1>2. since \in Nat \cup {Routine} /\ run[r].until \in Nat  BY <1>1 DEF Run
<1>3. Today \in Nat /\ Days \subseteq Nat /\ Today \in Days /\ now \in Int /\ Hours \subseteq Nat
  <2>1. Today \in Days /\ Days \subseteq Nat /\ now \in Int /\ Hours \subseteq Nat  BY Calendar, Zenon
  <2>2. Today \in Nat  BY ONLY <2>1
  <2> QED  BY <2>1, <2>2
<1>4. to \in 0 .. Today
  <2>1. CASE since = Routine  BY <2>1, <1>3
  <2>2. CASE since # Routine
    <3> DEFINE S == {run[r].until, Today}
    <3>1. S \in SUBSET Int /\ S # {} /\ 0 \in Int /\ \A y \in S : 0 <= y  BY <1>2, <1>3
    <3>2. Min(S) \in S /\ \A y \in S : Min(S) <= y  BY ONLY <3>1, MinIn, Zenon
    <3>3. Min(S) \in 0 .. Today  BY <3>1, <3>2, <1>2, <1>3
    <3> QED  BY <2>2, <3>3
  <2> QED  BY <2>1, <2>2
<1>5. to \in Nat /\ to <= Today  BY <1>3, <1>4
<1>6. ASSUME NEW d \in asked PROVE served_until(d, since, to) \in 0 .. to
  BY <1>5, <1>6, ServedIs
<1>7. ASSUME NEW p \in todo PROVE p \in Poll /\ p.first <= p.last /\ p.last <= Today /\ p.device \in asked
                                  /\ p \in plan_device(p.device, since, to)
  <2>1. PICK d \in asked : p \in plan_device(d, since, to)  BY <1>7
  <2> HIDE DEF to, since
  <2>2. p \in Poll /\ p.device = d /\ p.first <= p.last /\ p.last <= Today  BY <2>1, <1>2, <1>4, PlanIn
  <2> QED  BY <2>1, <2>2
<1>8. ends \in [asked -> Days] /\ asked \subseteq Devices /\ \A d \in asked : ends[d] \in 0 .. to
  <2>1. ASSUME NEW d \in asked PROVE served_until(d, since, to) \in Days
    <3>1. served_until(d, since, to) \in 0 .. to  BY <1>6, <2>1
    <3>2. served_until(d, since, to) \in 0 .. Today  BY <3>1, <1>3, <1>5
    <3>3. Today \in 0 .. Horizon \div DayLength  BY <1>3 DEF Days
    <3>4. Horizon \div DayLength \in Int  OBVIOUS
    <3> DEFINE z == Horizon \div DayLength
    <3> HIDE DEF z
    <3>5. served_until(d, since, to) \in 0 .. z  BY <3>2, <3>3, <3>4, <1>3 DEF z
    <3> QED  BY <3>5 DEF Days, z
  <2> QED  BY <2>1, <1>6
<1> HIDE DEF ends, todo
<1>9. run' = [run EXCEPT ![r].at = "polling", ![r].until = to, ![r].began = now, ![r].ends = ends, ![r].todo = todo]
  BY DEF plan, ends, todo
<1> HIDE DEF to, asked
<1>10. /\ run'[r].at = "polling" /\ run'[r].until = to /\ run'[r].began = now /\ run'[r].ends = ends
       /\ run'[r].todo = todo /\ run'[r].since = since /\ run'[r].clean = run[r].clean
       /\ run'[r] \in Run
       /\ \A o \in Runners : o # r => run'[o] = run[o]
       /\ run' \in [Runners -> Run \cup {Idle}]
  <2>1. todo \in SUBSET Poll /\ ends \in UNION {[D -> Days] : D \in SUBSET Devices}  BY <1>7, <1>8
  <2> DEFINE new == [run[r] EXCEPT !.at = "polling", !.until = to, !.began = now, !.ends = ends, !.todo = todo]
  <2>2. run' = [run EXCEPT ![r] = new]  BY <1>9
  <2>3. new \in Run  BY <1>1, <1>3, <1>5, <2>1 DEF Run
  <2>4. /\ new.at = "polling" /\ new.until = to /\ new.began = now /\ new.ends = ends
        /\ new.todo = todo /\ new.since = since /\ new.clean = run[r].clean
    BY <1>1 DEF Run
  <2> HIDE DEF new
  <2> QED  BY <1>1, <2>2, <2>3, <2>4
<1>11. UNCHANGED <<now, times, assigned, archive, shared>>  BY DEF plan
<1>12. row' \in Row /\ row'.started <= now /\ row'.updated <= now /\ row'.status = row.status
  BY <1>3, Beats DEF Typed, plan
<1>13. Typed'  BY <1>10, <1>11, <1>12 DEF Typed, archive
<1>14. AloneInv'
  <2>1. run[r] # Idle /\ shared' = shared  BY DEF plan
  <2> QED  BY <2>1, <1>10, <1>12, StaysAlone
\* What is asked of a device is what its plan asks.
<1>15. ASSUME NEW d \in asked, NEW h, HourIn(plan_device(d, since, to), d, h) PROVE Asks(r, d, h)'
  <2>1. plan_device(d, since, to) \subseteq todo  BY DEF todo
  <2> QED  BY <2>1, <1>10, <1>15 DEF HourIn, Asks
<1>16. ASSUME NEW d \in asked, NEW k, DayIn(plan_device(d, since, to), d, k) PROVE AsksDay(r, d, k)'
  <2>1. plan_device(d, since, to) \subseteq todo  BY DEF todo
  <2> QED  BY <2>1, <1>10, <1>16 DEF DayIn, AsksDay
<1>17. /\ \A d, h : Told(d, h)' <=> Told(d, h)
       /\ \A d, k : Took(d, k)' <=> Took(d, k)
       /\ astray' = astray /\ hourly' = hourly /\ Today' = Today /\ now' = now
  BY <1>11 DEF Told, Took, archive, Today
<1>18. ASSUME since = Routine, NEW d \in asked, d \notin astray
       PROVE  d \in Devices /\ to = Today /\ Considered(d, Routine, Today) # {}
  BY <1>18 DEF asked, to
<1>19. ReachOf(r)'
  BY <1>3, <1>7, <1>10, <1>17 DEF ReachOf
<1>20. OrderOf(r)'
  <2> SUFFICES ASSUME since = Routine, NEW p \in todo, p.device \notin astray
               PROVE /\ p.period = "hourly" =>
                         \A h \in Hours : h < Opening(p.first) => Told(p.device, h) \/ AsksFirst(r, p, h)'
                     /\ p.period = "daily" =>
                         \A k \in Days : k < p.first => Took(p.device, k) \/ AsksDayFirst(r, p, k)'
    BY <1>10, <1>17 DEF OrderOf, Routinely, AtWork
  <2> DEFINE d == p.device
             P == plan_device(d, Routine, Today)
  <2>1. d \in asked /\ d \in Devices /\ to = Today /\ Considered(d, Routine, Today) # {} /\ p \in P
    BY <1>7, <1>18
  <2>2. P \subseteq todo  BY <2>1 DEF todo
  <2>3. /\ p.period = "hourly" => \A h \in Hours : h < Opening(p.first) =>
              \/ Told(d, h)
              \/ \E q \in P : /\ q.period = "hourly" /\ q.device = d /\ q.first < p.first
                              /\ Opening(q.first) <= h /\ h < Opening(q.last + 1)
        /\ p.period = "daily" => \A k \in Days : k < p.first =>
              \/ Took(d, k)
              \/ \E q \in P : /\ q.period = "daily" /\ q.device = d /\ q.first < p.first
                              /\ q.first <= k /\ k <= q.last
    BY <2>1, PlanRoutine
  <2> HIDE DEF P
  <2> QED  BY <2>2, <2>3, <1>10 DEF AsksFirst, AsksDayFirst
<1>21. CatchOf(r)'
  <2> SUFFICES ASSUME since = Routine, NEW d \in asked, d \notin astray
               PROVE /\ \A h \in Hours : h < ends[d] * DayLength => Told(d, h) \/ Asks(r, d, h)'
                     /\ \A k \in Days : k < ends[d] => Took(d, k) \/ AsksDay(r, d, k)'
    <3>1. DOMAIN ends = asked  BY <1>8
    <3> QED  BY <3>1, <1>10, <1>17 DEF CatchOf, Routinely, AtWork, Reached, Hours
  <2> DEFINE P == plan_device(d, Routine, Today)
             stop == served_until(d, Routine, Today)
  <2>1. d \in Devices /\ to = Today /\ Considered(d, Routine, Today) # {} /\ ends[d] = stop
    BY <1>18 DEF ends
  <2>2. /\ \A h \in Hours : h < stop * DayLength => Told(d, h) \/ HourIn(P, d, h)
        /\ \A k \in Days : k < stop => Took(d, k) \/ DayIn(P, d, k)
    BY <2>1, PlanRoutine
  <2> HIDE DEF stop
  <2> QED  BY <2>1, <2>2, <1>15, <1>16
<1>22. RereadOf(r)'
  <2> SUFFICES ASSUME since # Routine, NEW d \in asked, d \notin astray,
                      NEW h \in Hours, Opening(since) <= h, h < Opening(to + 1)
               PROVE  Asks(r, d, h)'
    <3>1. DOMAIN ends = asked  BY <1>8
    <3> QED  BY <3>1, <1>10, <1>17 DEF RereadOf, AtWork, Hours
  <2>1. since \in Nat /\ d \in Devices  BY <1>2, <1>8
  <2>2. HourIn(plan_device(d, since, to), d, h)
    <3> HIDE DEF since
    <3> QED  BY <2>1, <1>4, PlanReread
  <2> QED  BY <2>2, <1>15
<1>23. RunOf(r)'  BY <1>19, <1>20, <1>21, <1>22 DEF RunOf
<1>24. PastInv' /\ HoleInv' /\ RunsInv'  BY <1>10, <1>11, <1>13, <1>23, Alone
<1> QED  BY <1>13, <1>14, <1>24

\* What a request stores is of the archive's days and hours.
LEMMA StoreType ==
  ASSUME Typed, NEW q \in Poll, Store(q.period, q.device, q.first, q.last)
  PROVE  /\ hourly' \subseteq Devices \X Hours
         /\ settled' \subseteq daily' /\ daily' \subseteq Devices \X Days
<1>1. q.device \in Devices /\ q.first \in Days /\ q.last \in Days  BY DEF Poll
<1>2. q.first .. q.last \subseteq Days
  <2>1. Horizon \div DayLength \in Int  OBVIOUS
  <2> DEFINE z == Horizon \div DayLength
  <2>2. q.first \in 0 .. z /\ q.last \in 0 .. z  BY <1>1 DEF Days
  <2> HIDE DEF z
  <2>3. q.first .. q.last \subseteq 0 .. z  BY <2>1, <2>2 DEF z
  <2> QED  BY <2>3 DEF Days, z
<1>3. AnswerHours(q.device, q.first, q.last) \subseteq Devices \X Hours  BY <1>1 DEF AnswerHours
<1>4. AnswerDays(q.device, q.first, q.last) \subseteq Devices \X Days  BY <1>1, <1>2 DEF AnswerDays
<1> QED  BY <1>3, <1>4 DEF Store, Typed

\* A request that fails is to blame for what it asked for.
LEMMA Fails ==
  ASSUME Typed, PastInv, HoleInv, NEW q \in Poll, q.first <= q.last, q.last <= Today,
         UNCHANGED <<now, hourly, daily, settled, astray>>, lost' = lost \cup Asked(q)
  PROVE  Grows /\ PastInv' /\ HoleInv' /\ Covered(q)
<1>1. /\ now \in Int /\ Days \subseteq Nat /\ Hours \subseteq Nat
  BY Calendar, Zenon
<1>2. q.first \in Days /\ q.last \in Days  BY DEF Poll
<1>3. q.first \in Nat /\ q.last \in Nat  BY ONLY <1>1, <1>2
<1>4. Grows
  <2>1. \A d \in Devices, h \in Hours : Told(d, h) => Told(d, h)'  BY DEF Told
  <2>2. \A d \in Devices, k \in Days : Took(d, k) => Took(d, k)'  BY DEF Took
  <2> QED  BY <1>1, <2>1, <2>2 DEF Grows
<1>5. ASSUME q.period = "hourly", NEW h \in Hours, Opening(q.first) <= h, h < Opening(q.last + 1)
      PROVE  Told(q.device, h)'
  <2> DEFINE k == day_of(h)
  <2>1. h \in Nat  BY ONLY <1>1, <1>5
  <2>2. h \in Int  BY <2>1
  <2>3. \A j \in Int : k \in Int /\ (Opening(j) <= h <=> j <= k)  BY ONLY <2>2, OpeningDay, Zenon
  <2>4. k \in Int  BY ONLY <2>2, <2>3, Zenon
  <2> HIDE DEF k
  <2>5. q.first <= k  BY <2>3, <1>3, <1>5
  <2>6. k <= q.last
    <3>1. q.last + 1 \in Int  BY <1>3
    <3>2. Opening(q.last + 1) \in Int  BY <3>1, OpeningsGrow
    <3>3. ~(q.last + 1 <= k)  BY <3>1, <3>2, <2>2, <2>3, <1>5
    <3> QED  BY <3>3, <2>4, <1>3
  <2>7. <<"hourly", q.device, k>> \in Asked(q)  BY <2>4, <2>5, <2>6, <1>3, <1>5 DEF Asked
  <2>8. <<"hourly", q.device, k>> \in lost'  BY <2>7
  <2> QED  BY <2>8 DEF Told, k
<1>6. ASSUME q.period = "daily", NEW k \in Days, q.first <= k, k <= q.last
      PROVE  Took(q.device, k)'
  <2>1. k \in Nat  BY ONLY <1>1, <1>6
  <2>2. <<"daily", q.device, k>> \in Asked(q)  BY <2>1, <1>3, <1>6 DEF Asked
  <2>3. <<"daily", q.device, k>> \in lost'  BY <2>2
  <2> QED  BY <2>3 DEF Took
<1>7. Covered(q)  BY <1>5, <1>6 DEF Covered
<1>8. PastInv' /\ HoleInv'
  <2>1. now' \in Int /\ hourly' = hourly /\ daily' = daily  BY <1>1
  <2> QED  BY <2>1, <1>4, HolesStay
<1> QED  BY <1>4, <1>7, <1>8

\* One poll of a run, whether it is answered or not.
LEMMA Polls ==
  ASSUME IInv, NEW r \in Runners, NEW p \in Poll, NEW answered \in BOOLEAN, refresh_branch(r, p, answered)
  PROVE  IInv'
<1> USE DEF IInv
<1>1. /\ run \in [Runners -> Run \cup {Idle}] /\ run[r] \in Run /\ run[r].at = "polling" /\ AtWork(r)
      /\ p \in run[r].todo /\ RunOf(r) /\ now \in Int
  BY DEF Typed, refresh_branch, AtWork, RunsInv
<1>2. p.first <= p.last /\ p.last <= Today  BY <1>1 DEF RunOf, ReachOf
<1> DEFINE new == [run[r] EXCEPT !.todo = run[r].todo \ {p}, !.clean = run[r].clean /\ answered]
<1>3. run' = [run EXCEPT ![r] = new]  BY DEF refresh_branch
<1>4. new \in Run /\ new.at = "polling" /\ new.since = run[r].since /\ new.until = run[r].until
      /\ new.ends = run[r].ends /\ new.began = run[r].began /\ new.todo = run[r].todo \ {p}
  <2>1. run[r].todo \ {p} \in SUBSET Poll /\ (run[r].clean /\ answered) \in BOOLEAN  BY <1>1 DEF Run
  <2> QED  BY <1>1, <2>1 DEF Run
<1>5. new.clean => run[r].clean /\ answered  BY <1>1 DEF Run
<1> HIDE DEF new
<1>6. /\ run' \in [Runners -> Run \cup {Idle}] /\ run'[r] = new
      /\ \A o \in Runners : o # r => run'[o] = run[o]
  BY <1>1, <1>3, <1>4
<1>7. UNCHANGED <<now, times, assigned, astray, shared>>  BY DEF refresh_branch
<1>8. row' \in Row /\ row'.started <= now /\ row'.updated <= now /\ row'.status = row.status
  BY <1>1, Beats DEF Typed, refresh_branch, Heartbeat
\* The archive after the poll.
<1>9. /\ Grows /\ PastInv' /\ HoleInv' /\ Covered(p) /\ (answered => Brought(p))
      /\ hourly' \subseteq Devices \X Hours /\ settled' \subseteq daily' /\ daily' \subseteq Devices \X Days
  <2>1. CASE answered
    <3> DEFINE X == IF run[r].since = Routine THEN {} ELSE Skipped(p.period, p.device, p.first)
    <3>1. /\ Store(p.period, p.device, p.first, p.last) /\ now' = now /\ astray' = astray
          /\ lost' = (lost \ Asked(p)) \cup InTheirNight(p.period, p.device, p.first, p.last) \cup X
      BY <2>1 DEF refresh_branch
    <3>2. Below(p, X)
      <4>1. CASE run[r].since = Routine
        <5>1. ~\E q \in run[r].todo : Before(q, p)  BY DEF refresh_branch
        <5>2. ASSUME p.device \notin astray, p.period = "hourly", NEW h \in Hours, h < Opening(p.first)
              PROVE  Told(p.device, h)
          <6>1. ~AsksFirst(r, p, h)  BY <5>1, <5>2 DEF AsksFirst, Before
          <6> QED  BY <6>1, <5>2, <4>1, <1>1 DEF RunOf, OrderOf, Routinely
        <5>3. ASSUME p.device \notin astray, p.period = "daily", NEW k \in Days, k < p.first
              PROVE  Took(p.device, k)
          <6>1. ~AsksDayFirst(r, p, k)  BY <5>1, <5>3 DEF AsksDayFirst, Before
          <6> QED  BY <6>1, <5>3, <4>1, <1>1 DEF RunOf, OrderOf, Routinely
        <5> QED  BY <5>2, <5>3 DEF Below
      <4>2. CASE run[r].since # Routine
        <5>1. X = Skipped(p.period, p.device, p.first)  BY <4>2
        <5> QED  BY <5>1, Skips
      <4> QED  BY <4>1, <4>2
    <3> HIDE DEF X
    <3>3. Grows /\ PastInv' /\ HoleInv' /\ Covered(p) /\ Brought(p)  BY <1>2, <3>1, <3>2, Answers
    <3>4. hourly' \subseteq Devices \X Hours /\ settled' \subseteq daily' /\ daily' \subseteq Devices \X Days
      BY <3>1, StoreType
    <3> QED  BY <3>3, <3>4
  <2>2. CASE ~answered
    <3>1. UNCHANGED <<now, hourly, daily, settled, astray>> /\ lost' = lost \cup Asked(p)
      BY <2>2 DEF refresh_branch
    <3>2. Grows /\ PastInv' /\ HoleInv' /\ Covered(p)  BY <1>2, <3>1, Fails
    <3> QED  BY <2>2, <3>1, <3>2 DEF Typed
  <2> QED  BY <2>1, <2>2
<1>10. Typed'  BY <1>6, <1>7, <1>8, <1>9 DEF Typed
<1>11. AloneInv'
  <2>1. run[r] # Idle /\ shared' = shared  BY DEF refresh_branch
  <2> QED  BY <2>1, <1>6, <1>8, StaysAlone
<1>12. RunOf(r)'
  <2>1. CASE AtWork(r)'
    <3>1. /\ run'[r].since = run[r].since /\ run'[r].until = run[r].until /\ run'[r].ends = run[r].ends
          /\ run'[r].began = run[r].began /\ run'[r].todo \subseteq run[r].todo /\ (run'[r].clean => run[r].clean)
      BY <1>4, <1>5, <1>6
    <3>2. ASSUME NEW q \in run[r].todo \ run'[r].todo PROVE Covered(q) /\ (run'[r].clean => Brought(q))
      <4>1. q = p  BY <1>4, <1>6
      <4> QED  BY <4>1, <1>5, <1>6, <1>9
    <3> QED  BY <2>1, <3>1, <3>2, <1>1, <1>9, <1>10, Carries
  <2>2. CASE ~AtWork(r)'  BY <2>2, Resting
  <2> QED  BY <2>1, <2>2
<1>13. ASSUME NEW o \in Runners, o # r PROVE RunOf(o)'
  <2>1. RunOf(o) /\ run'[o] = run[o]  BY <1>6, <1>13 DEF RunsInv
  <2> QED  BY <2>1, <1>9, <1>10, Stays
<1> QED  BY <1>9, <1>10, <1>11, <1>12, <1>13 DEF RunsInv

\* The rest of a branch is dropped, and the run is no longer clean.
LEMMA Drops ==
  ASSUME IInv, NEW r \in Runners, NEW b, branch_fails(r, b)
  PROVE  IInv'
<1> USE DEF IInv
<1>1. /\ run \in [Runners -> Run \cup {Idle}] /\ run[r] \in Run /\ run[r].at = "polling" /\ AtWork(r) /\ RunOf(r)
  BY DEF Typed, branch_fails, AtWork, RunsInv
<1> DEFINE dropped == {p \in run[r].todo : Branch[p.device] = b}
           new == [run[r] EXCEPT !.todo = run[r].todo \ dropped, !.clean = FALSE, !.failed = TRUE]
<1>2. run' = [run EXCEPT ![r] = new]  BY DEF branch_fails
<1>3. new \in Run /\ new.at = "polling" /\ new.since = run[r].since /\ new.until = run[r].until
      /\ new.ends = run[r].ends /\ new.began = run[r].began /\ new.todo = run[r].todo \ dropped /\ ~new.clean
  <2>1. run[r].todo \ dropped \in SUBSET Poll  BY <1>1 DEF Run
  <2> HIDE DEF dropped
  <2> QED  BY <1>1, <2>1 DEF Run
<1> HIDE DEF new
<1>4. /\ run' \in [Runners -> Run \cup {Idle}] /\ run'[r] = new
      /\ \A o \in Runners : o # r => run'[o] = run[o]
  BY <1>1, <1>2, <1>3
<1>5. UNCHANGED <<now, times, row, assigned, archive, shared>>  BY DEF branch_fails
<1>6. Typed'  BY <1>4, <1>5 DEF Typed, archive
<1>7. AloneInv'
  <2>1. run[r] # Idle /\ shared' = shared /\ row'.status = row.status  BY DEF branch_fails
  <2> QED  BY <2>1, <1>4, StaysAlone
<1>8. Grows  BY <1>5, Forgets
<1>9. RunOf(r)'
  <2>1. CASE AtWork(r)'
    <3>1. /\ run'[r].since = run[r].since /\ run'[r].until = run[r].until /\ run'[r].ends = run[r].ends
          /\ run'[r].began = run[r].began /\ run'[r].todo \subseteq run[r].todo /\ (run'[r].clean => run[r].clean)
      BY <1>3, <1>4
    <3>2. ASSUME NEW q \in run[r].todo \ run'[r].todo
          PROVE  ~run'[r].clean /\ \A p \in run'[r].todo : p.device # q.device
      <4>1. Branch[q.device] = b /\ \A p \in run'[r].todo : Branch[p.device] # b  BY <1>3, <1>4
      <4> QED  BY <4>1, <1>3, <1>4
    <3> QED  BY <2>1, <3>1, <3>2, <1>1, <1>6, <1>8, Carries
  <2>2. CASE ~AtWork(r)'  BY <2>2, Resting
  <2> QED  BY <2>1, <2>2
<1>10. PastInv' /\ HoleInv' /\ RunsInv'  BY <1>4, <1>5, <1>6, <1>9, Alone
<1> QED  BY <1>6, <1>7, <1>10

(* ---- Beside the runs ---- *)

\* A poll by hand stores above what is there, and is to blame for the days it leaves out.
LEMMA Backfills ==
  ASSUME IInv, NEW d \in Devices, NEW period \in Periods, NEW first \in Nat, NEW last \in Nat,
         run_backfill(d, period, first, last)
  PROVE  IInv'
<1> USE DEF IInv
<1> DEFINE p == [period |-> period, device |-> d, first |-> first, last |-> last]
           X == Skipped(period, d, first)
<1>1. first <= last /\ last <= Today /\ UNCHANGED <<now, times, row, run, assigned, astray, shared>>
      /\ Store(period, d, first, last)
      /\ lost' = (lost \ Asked(p)) \cup InTheirNight(period, d, first, last) \cup X
  BY DEF run_backfill
<1>2. Today \in Days /\ Days \subseteq Nat  BY Calendar, Zenon
<1>3. first \in Days /\ last \in Days
  <2>1. Today \in Nat /\ Horizon \div DayLength \in Int  BY ONLY <1>2, RefreshAssumption, CalendarAssumption
                                                         DEF RefreshAssumption, CalendarAssumption
  <2> DEFINE z == Horizon \div DayLength
  <2>2. Today \in 0 .. z  BY <1>2 DEF Days
  <2> HIDE DEF z
  <2>3. first \in 0 .. z /\ last \in 0 .. z  BY <1>1, <2>1, <2>2 DEF z
  <2> QED  BY <2>3 DEF Days, z
<1>4. p \in Poll  BY <1>3 DEF Poll
<1>5. p.period = period /\ p.device = d /\ p.first = first /\ p.last = last  OBVIOUS
<1> HIDE DEF p
<1>6. Below(p, X)  BY <1>4, <1>5, Skips
<1> HIDE DEF X
<1>7. Grows /\ PastInv' /\ HoleInv'  BY <1>1, <1>4, <1>5, <1>6, Answers
<1>8. hourly' \subseteq Devices \X Hours /\ settled' \subseteq daily' /\ daily' \subseteq Devices \X Days
  BY <1>1, <1>4, <1>5, StoreType
<1>9. Typed'  BY <1>1, <1>8 DEF Typed
<1>10. RunsInv'
  <2>1. ASSUME NEW o \in Runners PROVE RunOf(o)'
    <3>1. RunOf(o) /\ run'[o] = run[o]  BY <1>1 DEF RunsInv
    <3> QED  BY <3>1, <1>7, <1>9, Stays
  <2> QED  BY <2>1 DEF RunsInv
<1>11. AloneInv'  BY <1>1 DEF AloneInv, Working
<1> QED  BY <1>7, <1>9, <1>10, <1>11

\* The wipe leaves nothing to have holes; a run that has its plan is astray.
LEMMA Wipes ==
  ASSUME IInv, clear_all
  PROVE  IInv'
<1> USE DEF IInv
<1>1. /\ hourly' = {} /\ daily' = {} /\ settled' = {} /\ UNCHANGED <<now, times, row, run, assigned, shared>>
      /\ astray' = IF Working = {} THEN {} ELSE Devices
  BY DEF clear_all
<1>2. Typed'  BY <1>1 DEF Typed
<1>3. PastInv' /\ HoleInv'  BY <1>1 DEF PastInv, HoleInv
<1>4. AloneInv'  BY <1>1 DEF AloneInv, Working
<1>5. ASSUME NEW o \in Runners PROVE RunOf(o)'
  <2>1. CASE Working = {}
    <3>1. ~AtWork(o)'  BY <2>1, <1>1 DEF AtWork, Working
    <3> QED  BY <3>1, Resting
  <2>2. CASE Working # {}
    <3>1. Grows
      <4>1. astray \subseteq Devices /\ astray' = Devices /\ now \in Int /\ now' = now  BY <2>2, <1>1 DEF Typed
      <4> QED  BY <4>1 DEF Grows
    <3>2. RunOf(o) /\ run'[o] = run[o]  BY <1>1 DEF RunsInv
    <3> QED  BY <3>1, <3>2, <1>2, Stays
  <2> QED  BY <2>1, <2>2
<1> QED  BY <1>2, <1>3, <1>4, <1>5 DEF RunsInv

(* ---- The specification ---- *)

\* Every step of the system keeps the invariant.
LEMMA Inductive ==
  ASSUME IInv, [Next]_vars
  PROVE  IInv'
<1>0. Routine \in Nat \cup {Routine} /\ Today \in Nat /\ Scheduler \in Runners /\ Chosen \subseteq Nat \X Nat
  <2>1. Today \in Days /\ Days \subseteq Nat  BY Calendar, Zenon DEF IInv
  <2>2. Today \in Nat  BY ONLY <2>1
  <2> QED  BY <2>2
<1>a. \A c \in Chosen : c[1] \in Nat /\ c[2] \in Nat  BY <1>0
<1>1. CASE maybe_refresh_dpd  BY <1>0, <1>1, Acquires DEF maybe_refresh_dpd
<1>2. ASSUME NEW hours \in SUBSET (0 .. DayLength - 1), write_refresh_times(hours) PROVE IInv'
  BY <1>2, WritesTimes
<1>3. ASSUME NEW r \in Runners, trigger(r) PROVE IInv'
  BY <1>0, <1>3, Acquires DEF trigger
<1>4. ASSUME NEW r \in Runners, NEW c \in Chosen, reread(r, c[1], c[2]) PROVE IInv'
  <2>1. c[1] \in Nat \cup {Routine} /\ c[2] \in Nat  BY <1>a
  <2> QED  BY <2>1, <1>4, Acquires DEF reread
<1>5. ASSUME NEW r \in Runners, plan(r) \/ finalize(r) \/ die(r) PROVE IInv'
  BY <1>5, Plans, Finalizes, Dies
<1>6. ASSUME NEW r \in Runners, NEW p \in Poll, NEW answered \in BOOLEAN, refresh_branch(r, p, answered) PROVE IInv'
  BY <1>6, Polls
<1>7. ASSUME NEW r \in Runners, NEW b, branch_fails(r, b) PROVE IInv'
  BY <1>7, Drops
<1>8. ASSUME NEW d \in Devices, replace_history(d) PROVE IInv'
  BY <1>8, Moves
<1>9. ASSUME NEW d \in Devices, NEW period \in Periods, NEW c \in Chosen, run_backfill(d, period, c[1], c[2]) PROVE IInv'
  BY <1>9, <1>a, Backfills
<1>10. CASE clear_all  BY <1>10, Wipes
<1>11. CASE tick  BY <1>11, Ticks
<1>12. CASE UNCHANGED vars
  <2>1. Typed'  BY <1>12 DEF vars, archive, IInv, Typed
  <2>2. UNCHANGED <<now, row, run, archive, shared>>  BY <1>12 DEF vars, archive
  <2> QED  BY <2>1, <2>2, Apart
<1> QED  BY <1>1, <1>2, <1>3, <1>4, <1>5, <1>6, <1>7, <1>8, <1>9, <1>10, <1>11, <1>12 DEF Next

LEMMA Always == Spec => []IInv
BY InitIInv, Inductive, PTL DEF Spec

\* The archive keeps its shape: stamps that have come, hours and days of the model, and
\* daily rows only among those read.
THEOREM TypeCorrect == Spec => []TypeOK
<1>1. IInv => TypeOK
  <2> SUFFICES ASSUME Typed PROVE TypeOK
    BY DEF IInv
  <2>1. \A r \in Runners : run[r] # Idle => run[r].todo \subseteq Poll /\ DOMAIN run[r].ends \subseteq Devices
    BY DEF Typed, Run
  <2>2. \A d \in Devices : Range(assigned[d]) \subseteq Window
    <3>1. ASSUME NEW d \in Devices PROVE Range(assigned[d]) \subseteq Window
      <4>1. assigned[d] \in Seq(Window)  BY DEF Typed
      <4> QED  BY <4>1 DEF Range
    <3> QED  BY <3>1
  <2>3. row.status \in {"idle", "running", "done", "error"}  BY DEF Typed, Row
  <2> QED  BY <2>1, <2>2, <2>3 DEF Typed, TypeOK
<1> QED  BY <1>1, Always, PTL

\* "Only one refresh runs at a time across all workers and the scheduler": two runs are
\* at work only after one that stood still was overtaken, whatever died before.
THEOREM OnlyOneRun == Spec => []OneRun
<1>1. IInv => OneRun
  <2> SUFFICES ASSUME AloneInv, ~shared PROVE Cardinality(Working) <= 1
    BY DEF IInv, OneRun
  <2>1. Cardinality({}) = 0  BY FS_EmptySet
  <2>2. \A r \in Runners : Cardinality({r}) = 1  BY FS_Singleton
  <2>3. CASE Working = {}  BY <2>1, <2>3
  <2>4. CASE Working # {}  BY <2>2, <2>4 DEF AloneInv
  <2> QED  BY <2>3, <2>4
<1> QED  BY <1>1, Always, PTL

\* An hour missing below the newest one stored is blamed on a request that failed, on a
\* period somebody chose or on a request made in the night of its day: of any number of
\* refreshes that die, overlap or drop a branch, none leaves a hole of its own.
THEOREM Blamed == Spec => []HolesAreBlamed
<1>1. IInv => HolesAreBlamed
  BY DEF IInv, HoleInv, ToldBelow, Told, HolesAreBlamed
<1> QED  BY <1>1, Always, PTL

\* A routine run that ends with every request answered leaves every device it knew of with
\* all hours up to the last day of its service, and no day half read, but for what
\* something else is to blame for.
THEOREM CaughtUp == Spec => CatchesUp
<1> DEFINE Leaves_(r) ==
      Ends(r) /\ run[r].clean /\ run[r].since = Routine =>
        \A d \in DOMAIN run[r].ends \ astray :
          /\ \A h \in Reached(r, d) :
               <<d, h>> \in hourly \/ <<"hourly", d, day_of(h)>> \in lost
          /\ \A k \in Days : k < run[r].ends[d] /\ Opening(k + 1) <= run[r].began =>
               <<d, k>> \in settled \/ <<"daily", d, k>> \in lost
<1>1. ASSUME IInv, NEW r \in Runners PROVE Leaves_(r)
  <2> SUFFICES ASSUME Ends(r), run[r].clean, run[r].since = Routine, NEW d \in DOMAIN run[r].ends \ astray
               PROVE  /\ \A h \in Reached(r, d) : Told(d, h)
                      /\ \A k \in Days : k < run[r].ends[d] /\ Opening(k + 1) <= run[r].began => Took(d, k)
    BY DEF Told, Took
  <2>1. Routinely(r) /\ run[r].todo = {}  BY DEF Ends, Routinely, AtWork
  <2>2. \A h : ~Asks(r, d, h) /\ ~AsksDay(r, d, h)  BY <2>1 DEF Asks, AsksDay
  <2>3. CatchOf(r)  BY <1>1 DEF IInv, RunsInv, RunOf
  <2> QED  BY <2>1, <2>2, <2>3 DEF CatchOf
<1>2. IInv /\ [Next]_vars => [\A r \in Runners : Leaves_(r)]_vars
  BY <1>1
<1> HIDE DEF Leaves_
<1>3. Spec => [][\A r \in Runners : Leaves_(r)]_vars
  BY <1>2, Always, PTL DEF Spec
<1> QED  BY <1>3 DEF CatchesUp, Leaves_

\* "That is what closes a stretch DPD never delivered": a dated re-read that ends with every
\* request answered has left no hour of its period missing, whatever was before.
THEOREM Closes == Spec => RereadCloses
<1> DEFINE Leaves_(r) ==
      Ends(r) /\ run[r].clean /\ run[r].since # Routine =>
        \A d \in DOMAIN run[r].ends \ astray : \A h \in Hours :
          /\ Opening(run[r].since) <= h
          /\ h < Opening(run[r].until + 1)
          /\ h < run[r].began
          => <<d, h>> \in hourly
<1>1. ASSUME IInv, NEW r \in Runners PROVE Leaves_(r)
  <2> SUFFICES ASSUME Ends(r), run[r].clean, run[r].since # Routine, NEW d \in DOMAIN run[r].ends \ astray,
                      NEW h \in Hours, Opening(run[r].since) <= h, h < Opening(run[r].until + 1), h < run[r].began
               PROVE  <<d, h>> \in hourly
    OBVIOUS
  <2>1. AtWork(r) /\ run[r].todo = {}  BY DEF Ends, AtWork
  <2>2. ~Asks(r, d, h)  BY <2>1 DEF Asks
  <2>3. RereadOf(r)  BY <1>1 DEF IInv, RunsInv, RunOf
  <2> QED  BY <2>1, <2>2, <2>3 DEF RereadOf
<1>2. IInv /\ [Next]_vars => [\A r \in Runners : Leaves_(r)]_vars
  BY <1>1
<1> HIDE DEF Leaves_
<1>3. Spec => [][\A r \in Runners : Leaves_(r)]_vars
  BY <1>2, Always, PTL DEF Spec
<1> QED  BY <1>3 DEF RereadCloses, Leaves_
==============================================================================
