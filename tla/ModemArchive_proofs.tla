------------------------ MODULE ModemArchive_proofs ------------------------
(***************************************************************************)
(* What a modem's calls leave in the archives, for any number of            *)
(* correctors, moves and troubles and any depth of a corrector's memory.    *)
(***************************************************************************)
EXTENDS ModemArchive, TLAPS, WellFoundedInduction

USE ArchiveAssumption DEF ArchiveAssumption

(* ---- The largest and the smallest of a set of hours ---- *)

\* A set of naturals that is not empty has a least member.
LEMMA LeastOf ==
  ASSUME NEW S \in SUBSET Nat, S # {}
  PROVE  \E x \in S : \A y \in S : x <= y
<1>1. PICK x \in S : \A y \in S : ~ (<<y, x>> \in OpToRel(<, Nat))
  BY WFMin, NatLessThanWellFounded
<1>2. ASSUME NEW y \in S PROVE x <= y
  <2>1. x \in Nat /\ y \in Nat  OBVIOUS
  <2>2. y < x => <<y, x>> \in OpToRel(<, Nat)  BY <2>1, Zenon DEF OpToRel
  <2>3. ~ (y < x)  BY <1>1, <2>2, Zenon
  <2> QED  BY <2>1, <2>3
<1> QED  BY <1>2

\* The library's Min of such a set is one of its members.
LEMMA MinIn ==
  ASSUME NEW S \in SUBSET Nat, S # {}
  PROVE  Min(S) \in S /\ \A y \in S : Min(S) <= y
BY LeastOf DEF Min

\* The library's Max of a set of integers that has a bound is one of its members and
\* is exceeded by none.
LEMMA MaxIn ==
  ASSUME NEW S \in SUBSET Int, S # {}, NEW b \in Int, \A y \in S : y <= b
  PROVE  Max(S) \in S /\ \A y \in S : Max(S) >= y
<1> DEFINE T == {n \in Nat : b - n \in S}
<1>1. PICK s \in S : TRUE  OBVIOUS
<1>2. b - s \in T  BY <1>1
<1>3. PICK x \in T : \A y \in T : x <= y  BY <1>2, LeastOf
<1>4. b - x \in S  BY <1>3
<1>5. ASSUME NEW y \in S PROVE b - x >= y
  <2>1. y \in Int /\ b - y \in Nat /\ b - (b - y) = y  OBVIOUS
  <2>2. b - y \in T  BY <2>1
  <2>3. x <= b - y /\ x \in Nat  BY <2>2, <1>3
  <2> QED  BY <2>1, <2>3
<1> QED  BY <1>4, <1>5 DEF Max

(* ---- The plan ---- *)

\* A hole of a plan is an hour the archive lacks, not before the installation and
\* behind an hour that is stored.
LEMMA GapsLie ==
  ASSUME now \in 0 .. Horizon, NEW p \in Places,
         registered \in [Places -> [device : Meters \cup {Nobody}, from : 0 .. Horizon]],
         NEW h \in archive_gaps(archive_of(p), coverage(archive_of(p).key))
  PROVE  /\ h \in Hours
         /\ h >= archive_of(p).since
         /\ \E g \in Hours : g >= h /\ rows[archive_of(p).key][g] # NoRow
<1> DEFINE a == archive_of(p)
           newest == coverage(a.key)
           bounds == {now - HoursBack, a.since, 0}
           floor == Max(bounds)
<1>1. a.since \in 0 .. Horizon  BY DEF archive_of, Places
<1>2. floor \in bounds /\ \A y \in bounds : floor >= y
  <2>1. /\ bounds \in SUBSET Int /\ bounds # {} /\ Horizon \in Int
        /\ \A y \in bounds : y <= Horizon  BY <1>1
  <2> HIDE DEF bounds
  <2> QED  BY ONLY <2>1, MaxIn
<1>3. newest \in stored(a.key) \cup {NoHour}
  <2> DEFINE S == stored(a.key) \cup {NoHour}
  <2>1. /\ S \in SUBSET Int /\ S # {} /\ Horizon \in Int
        /\ \A y \in S : y <= Horizon
    BY DEF stored, Hours, NoHour
  <2> HIDE DEF S
  <2>2. Max(S) \in S  BY ONLY <2>1, MaxIn
  <2> QED  BY <2>2 DEF coverage, S
<1>4. newest # NoHour /\ h \in floor .. newest
  BY DEF archive_gaps, missing_hours
<1>5. newest \in Hours /\ rows[a.key][newest] # NoRow
  BY <1>3, <1>4 DEF stored
<1>6. floor \in Int /\ floor >= 0 /\ floor >= a.since  BY <1>1, <1>2
<1> QED  BY <1>4, <1>5, <1>6, <1>1 DEF Hours

(* ---- What stands where, and who calls ---- *)

\* One corrector stands at each place.
StandInv == \A p \in Places : \E d \in Meters : {x \in Meters : stands[x] = p} = {d}

\* A call that was answered.
Answered == [place : Places, by : Meters, told : BOOLEAN, new : SUBSET Hours, holes : SUBSET Hours]

\* A call has been planned and not answered, or was answered by a corrector.
CallInv ==
  call # Nobody =>
    \/ /\ call.by = Nobody /\ call.place \in Places /\ call.expected \in Meters \cup {Nobody}
       /\ call.new = {} /\ call.holes \subseteq Hours
    \/ call \in Answered

\* What a corrector that answered is still asked for, it holds.
HeldInv ==
  call # Nobody /\ call.by # Nobody =>
    \A h \in call.new \cup call.holes : ring[call.by][h] # Nowhere

\* No corrector holds an hour that has not passed.
RingInv == \A d \in Meters, h \in Hours : h >= now => ring[d][h] = Nowhere

\* Nobody came later than now.
PastInv == \A p \in Places : arrived[p] <= now

\* A batch on its way was read by the call's corrector at an hour that has passed, and
\* passed the comparison.
PushInv ==
  push # Nobody =>
    /\ call \in Answered /\ call.by = push.of
    /\ push.hour < now
    /\ push.hole => call.place = Line
    /\ call.told => push.seen \in {push.of, Nobody}

BaseInv == TypeOK /\ StandInv /\ CallInv /\ HeldInv /\ RingInv /\ PastInv /\ PushInv

\* What a part of the invariant speaks of, and a step leaves alone, the step preserves.
LEMMA Frames ==
  /\ StandInv /\ stands' = stands => StandInv'
  /\ CallInv /\ call' = call => CallInv'
  /\ HeldInv /\ call' = call /\ ring' = ring => HeldInv'
  /\ RingInv /\ ring' = ring /\ now' = now => RingInv'
  /\ PastInv /\ arrived' = arrived /\ now' = now => PastInv'
  /\ PushInv /\ push' = push /\ call' = call /\ now' = now => PushInv'
<1>1. StandInv /\ stands' = stands => StandInv'  BY DEF StandInv
<1>2. CallInv /\ call' = call => CallInv'  BY DEF CallInv
<1>3. HeldInv /\ call' = call /\ ring' = ring => HeldInv'  BY DEF HeldInv
<1>4. RingInv /\ ring' = ring /\ now' = now => RingInv'  BY DEF RingInv
<1>5. PastInv /\ arrived' = arrived /\ now' = now => PastInv'  BY DEF PastInv
<1>6. PushInv /\ push' = push /\ call' = call /\ now' = now => PushInv'  BY DEF PushInv
<1> QED  BY <1>1, <1>2, <1>3, <1>4, <1>5, <1>6

LEMMA AtStands ==
  ASSUME StandInv, NEW p \in Places
  PROVE  At(p) \in Meters /\ \A d \in Meters : stands[d] = p <=> d = At(p)
<1>1. PICK d \in Meters : {x \in Meters : stands[x] = p} = {d}  BY DEF StandInv
<1>2. stands[d] = p /\ \A x \in Meters : stands[x] = p => x = d  BY <1>1
<1>3. At(p) = d  BY <1>2 DEF At
<1> QED  BY <1>2, <1>3

\* An answered call, and the hour it is about to push or to lose.
LEMMA ReadingType ==
  ASSUME CallInv, Reading
  PROVE  /\ call \in Answered
         /\ Next_hour \in call.new \cup call.holes
         /\ Next_hour \in Hours
         /\ Asked \in Answered
         /\ Asked.place = call.place /\ Asked.by = call.by /\ Asked.told = call.told
         /\ Asked.new \subseteq call.new /\ Asked.holes \subseteq call.holes
<1>1. call \in Answered
  BY DEF CallInv, Reading
<1>2. call.new \in SUBSET Nat /\ call.holes \in SUBSET Nat  BY <1>1 DEF Hours, Answered
<1>3. Next_hour \in call.new \cup call.holes  BY <1>2, MinIn DEF Next_hour, Reading
<1> QED  BY <1>1, <1>3 DEF Asked, Answered

\* What a tick does to a corrector's memory: the hour that passed is where it stands or
\* nothing, an old one may be overwritten, the others stay.
LEMMA TickRing ==
  ASSUME TypeOK, tick, NEW d \in Meters, NEW h \in Hours
  PROVE  /\ ring'[d][h] \in {ring[d][h], Nowhere} \cup (IF h = now THEN {stands[d]} ELSE {})
         /\ h > now => ring'[d][h] = ring[d][h] \/ ring'[d][h] = Nowhere
<1>1. PICK off \in {{}} \cup {{e} : e \in Meters} :
        ring' = [e \in Meters |-> [g \in Hours |->
                   CASE g = now /\ e \notin off -> stands[e]
                     [] g <= now - Depth        -> Nowhere
                     [] OTHER                   -> ring[e][g]]]
  BY DEF tick
<1> QED  BY <1>1 DEF TypeOK, Hours

\* The row a push leaves is a row, its own or the one that stood there.
LEMMA UpsertType ==
  ASSUME NEW old \in Row \cup {NoRow}, NEW new \in Row
  PROVE  upsert(old, new) \in Row /\ upsert(old, new) \in {old, new}
BY DEF upsert, Row, NoRow

\* What is pushed: an hour the corrector holds, that has passed.
LEMMA PushBatch ==
  ASSUME BaseInv, push_data, Expected
  PROVE  /\ call \in Answered /\ Next_hour \in call.new \cup call.holes
         /\ push' \in Batch /\ push'.hour = Next_hour /\ push'.of = call.by
         /\ push'.at = ring[call.by][Next_hour] /\ push'.seen = Fitted(call.place)
         /\ push'.hole => call.place = Line /\ Next_hour \in call.holes
         /\ Next_hour < now
         /\ call' = Asked
<1> DEFINE d == call.by
           h == Next_hour
<1>1. Reading  BY DEF push_data
<1>2. /\ call \in Answered
      /\ h \in call.new \cup call.holes /\ h \in Hours
  BY <1>1, ReadingType DEF BaseInv
<1>3. d \in Meters /\ d # Nobody /\ call # Nobody /\ call.place \in Places
  BY <1>1, <1>2 DEF Reading, Answered
<1>4. ring[d][h] # Nowhere  BY <1>2, <1>3 DEF BaseInv, HeldInv
<1>5. ring[d][h] \in Places \cup {Elsewhere} /\ now \in Nat
  BY <1>2, <1>3, <1>4 DEF BaseInv, TypeOK
<1>6. h < now  BY <1>2, <1>3, <1>4, <1>5 DEF BaseInv, RingInv, Hours
<1>7. Fitted(call.place) \in Meters \cup {Nobody}  BY <1>3 DEF Fitted, BaseInv, TypeOK
<1>8. /\ push' = [hour |-> h, of |-> d, at |-> ring[d][h],
                  hole |-> call.place = Line /\ h \in call.holes, seen |-> Fitted(call.place)]
      /\ call' = Asked
  BY DEF push_data
<1>9. push' \in Batch
  <2> HIDE DEF d, h
  <2> QED  BY <1>2, <1>3, <1>5, <1>7, <1>8 DEF Batch
<1> QED  BY <1>2, <1>6, <1>8, <1>9

\* The row a batch leaves.
Brought == [of |-> push.of, at |-> push.at, source |-> "gsm", hole |-> push.hole]

\* What a stored batch writes: a row, in the archive of a corrector or of the line.
LEMMA StoreRow ==
  ASSUME BaseInv, store_batch, archive_of(call.place).key # Nobody
  PROVE  /\ push \in Batch /\ call \in Answered /\ call.by = push.of /\ push.hour < now
         /\ archive_of(call.place).key \in Archives
         /\ archive_of(call.place).key = Line <=> call.place = Line
         /\ Brought \in Row
         /\ rows' = [rows EXCEPT ![archive_of(call.place).key][push.hour] = upsert(@, Brought)]
<1>1. push # Nobody /\ push \in Batch  BY DEF store_batch, BaseInv, TypeOK
<1>4. call \in Answered /\ call.by = push.of /\ push.hour < now
  BY <1>1 DEF BaseInv, PushInv
<1>5. /\ archive_of(call.place).key \in Archives
      /\ archive_of(call.place).key = Line <=> call.place = Line
  <2>1. call.place \in Places  BY <1>4 DEF Answered
  <2>2. Fitted(call.place) \in Meters \cup {Nobody}  BY <2>1 DEF Fitted, BaseInv, TypeOK
  <2> QED  BY <2>2 DEF archive_of, Archives
<1>6. Brought \in Row  BY <1>1 DEF Brought, Row, Batch
<1> QED  BY <1>1, <1>4, <1>5, <1>6 DEF store_batch, Brought

LEMMA BaseStep ==
  ASSUME BaseInv, [Next]_vars
  PROVE  BaseInv'
<1> USE DEF BaseInv
<1>1. CASE UNCHANGED vars
  BY <1>1, Frames DEF vars, TypeOK
<1>2. ASSUME NEW p \in Places, get_plan(p) PROVE BaseInv'
  <2>1. archive_gaps(archive_of(p), coverage(archive_of(p).key)) \subseteq Hours
    BY GapsLie DEF TypeOK
  <2>2. call'.holes \subseteq Hours /\ call'.new = {} /\ call'.by = Nobody
        /\ call'.place = p /\ call'.expected \in Meters \cup {Nobody}
    BY <1>2, <2>1 DEF get_plan, Fitted, TypeOK
  <2>3. /\ UNCHANGED <<now, stands, ring, arrived, registered, rows, push, returned>>
        /\ unchecked' \in BOOLEAN /\ push = Nobody
    BY <1>2 DEF get_plan, TypeOK
  <2>4. CallInv' /\ HeldInv'  BY <2>2 DEF CallInv, HeldInv
  <2>5. PushInv'  BY <2>3 DEF PushInv
  <2> QED  BY <2>2, <2>3, <2>4, <2>5, Frames DEF TypeOK
<1>3. CASE answer
  <2> DEFINE d == At(call.place)
  <2>1. call # Nobody /\ call.by = Nobody /\ call.place \in Places /\ call.holes \subseteq Hours
    BY <1>3 DEF answer, CallInv, Answered
  <2>2. d \in Meters  BY <2>1, AtStands
  <2>3. call' # Nobody =>
          /\ call' \in Answered
          /\ call'.by = d /\ \A h \in call'.new \cup call'.holes : ring[d][h] # Nowhere
    BY <1>3, <2>1, <2>2 DEF answer, Answered
  <2>4. /\ UNCHANGED <<now, stands, ring, arrived, registered, rows, push, returned>>
        /\ unchecked' \in BOOLEAN
    BY <1>3 DEF answer, TypeOK
  <2>5. CallInv' /\ HeldInv'  BY <2>3, <2>4 DEF CallInv, HeldInv
  <2>6. PushInv'
    <3>1. push = Nobody \/ push.of \in Meters  BY DEF TypeOK, Batch
    <3>2. push = Nobody  BY <2>1, <3>1 DEF PushInv
    <3> QED  BY <2>4, <3>2 DEF PushInv
  <2> QED  BY <2>3, <2>4, <2>5, <2>6, Frames DEF TypeOK, Answered
<1>4. CASE push_data
  <2>1. CASE ~Expected
    <3>1. CallInv' /\ HeldInv' /\ call' = Nobody  BY <1>4, <2>1 DEF push_data, CallInv, HeldInv
    <3>2. UNCHANGED <<now, stands, ring, arrived, registered, rows, push, returned, unchecked>>
          /\ push = Nobody
      BY <1>4, <2>1 DEF push_data
    <3>3. PushInv'  BY <3>2 DEF PushInv
    <3> QED  BY <3>1, <3>2, <3>3, Frames DEF TypeOK
  <2>2. CASE Expected
    <3>1. /\ push' \in Batch /\ push'.hour = Next_hour /\ push'.of = call.by
          /\ push'.seen = Fitted(call.place)
          /\ push'.hole => call.place = Line
          /\ Next_hour < now
      BY <1>4, <2>2, PushBatch
    <3>2. /\ call' \in Answered
          /\ call'.by = call.by /\ call'.place = call.place /\ call'.told = call.told
          /\ call'.new \cup call'.holes \subseteq call.new \cup call.holes
          /\ call # Nobody /\ call.by # Nobody
      BY <1>4, <2>2, PushBatch, ReadingType DEF push_data, Reading
    <3>3. UNCHANGED <<now, stands, ring, arrived, registered, rows, returned, unchecked>>
      BY <1>4 DEF push_data
    <3>4. CallInv'  BY <3>2 DEF CallInv
    <3>5. HeldInv'  BY <3>2, <3>3 DEF HeldInv
    <3>6. PushInv'
      <4>1. call.told => Fitted(call.place) \in {call.by, Nobody}
        BY <2>2 DEF Expected
      <4>2. call'.told => push'.seen \in {push'.of, Nobody}
        BY <3>1, <3>2, <4>1
      <4>3. push'.hour < now' /\ call'.by = push'.of
        BY <3>1, <3>2, <3>3
      <4>4. push'.hole => call'.place = Line
        BY <3>1, <3>2, Zenon
      <4> QED  BY <3>2, <4>2, <4>3, <4>4 DEF PushInv
    <3> QED  BY <3>1, <3>2, <3>3, <3>4, <3>5, <3>6, Frames DEF TypeOK, Answered
  <2> QED  BY <2>1, <2>2
<1>11. CASE store_batch
  <2>1. /\ push' = Nobody
        /\ UNCHANGED <<now, stands, ring, arrived, registered, returned, unchecked>>
        /\ PushInv'
    BY <1>11 DEF store_batch, PushInv
  <2>2. CASE archive_of(call.place).key = Nobody
    <3>1. CallInv' /\ HeldInv' /\ call' = Nobody /\ rows' = rows
      BY <1>11, <2>2 DEF store_batch, CallInv, HeldInv
    <3> QED  BY <2>1, <3>1, Frames DEF TypeOK
  <2>3. CASE archive_of(call.place).key # Nobody
    <3> DEFINE k == archive_of(call.place).key
    <3>1. /\ push \in Batch /\ k \in Archives /\ Brought \in Row
          /\ rows' = [rows EXCEPT ![k][push.hour] = upsert(@, Brought)]
      BY <1>11, <2>3, StoreRow
    <3>2. push.hour \in Hours /\ call' = call
      BY <1>11, <2>3, <3>1 DEF store_batch, Batch
    <3>3. rows' \in [Archives -> [Hours -> Row \cup {NoRow}]]
      <4> HIDE DEF k
      <4>1. rows[k][push.hour] \in Row \cup {NoRow}  BY <3>1, <3>2 DEF TypeOK
      <4>2. upsert(rows[k][push.hour], Brought) \in Row  BY ONLY <3>1, <4>1, UpsertType
      <4> QED  BY <3>1, <3>2, <4>2 DEF TypeOK
    <3> QED  BY <2>1, <3>2, <3>3, Frames DEF TypeOK
  <2> QED  BY <2>2, <2>3
<1>5. CASE lose
  <2>1. /\ call' \in Answered
        /\ call'.by = call.by /\ call'.new \cup call'.holes \subseteq call.new \cup call.holes
        /\ call # Nobody /\ call.by # Nobody
    BY <1>5, ReadingType DEF lose, Reading
  <2>2. /\ UNCHANGED <<now, stands, ring, arrived, registered, rows, push, returned, unchecked>>
        /\ push = Nobody
    BY <1>5 DEF lose
  <2>3. CallInv'  BY <2>1 DEF CallInv
  <2>4. HeldInv'  BY <2>1, <2>2 DEF HeldInv
  <2>5. PushInv'  BY <2>2 DEF PushInv
  <2> QED  BY <2>1, <2>2, <2>3, <2>4, <2>5, Frames DEF TypeOK, Answered
<1>6. CASE finish
  <2>1. CallInv' /\ HeldInv' /\ call' = Nobody  BY <1>6 DEF finish, CallInv, HeldInv
  <2>2. /\ UNCHANGED <<now, stands, ring, arrived, registered, rows, push, returned, unchecked>>
        /\ push = Nobody
    BY <1>6 DEF finish
  <2>3. PushInv'  BY <2>2 DEF PushInv
  <2> QED  BY <2>1, <2>2, <2>3, Frames DEF TypeOK
<1>7. CASE tick
  <2>1. now \in 0 .. Horizon - 1 /\ now' = now + 1
        /\ UNCHANGED <<stands, arrived, registered, rows, push, returned, unchecked>>
    BY <1>7 DEF tick, TypeOK
  <2>2. ring' \in [Meters -> [Hours -> Places \cup {Elsewhere, Nowhere}]]
    <3>1. ring' = [d \in Meters |-> [h \in Hours |-> ring'[d][h]]]  BY <1>7 DEF tick
    <3>2. \A d \in Meters, h \in Hours : ring'[d][h] \in Places \cup {Elsewhere, Nowhere}
      BY <1>7, TickRing DEF TypeOK
    <3> QED  BY <3>1, <3>2
  <2>3. RingInv'
    BY <1>7, <2>1, TickRing DEF RingInv, Hours
  <2>6. PastInv' /\ StandInv'  BY <2>1, Frames DEF PastInv, TypeOK
  <2>4. CASE call = Nobody \/ call.by = Nobody
    <3>1. call' = call  BY <1>7, <2>4 DEF tick
    <3>2. CallInv' /\ HeldInv'  BY <2>4, <3>1, Frames DEF HeldInv
    <3>3. PushInv'  BY <2>1, <3>1 DEF PushInv, TypeOK, Batch, Hours
    <3> QED  BY <2>1, <2>2, <2>3, <2>6, <3>1, <3>2, <3>3 DEF TypeOK
  <2>5. CASE call # Nobody /\ call.by # Nobody
    <3>1. call \in Answered
      BY <2>5 DEF CallInv
    <3>2. call' = LET kept == {h \in Hours : ring'[call.by][h] # Nowhere}
                  IN [call EXCEPT !.new = @ \cap kept, !.holes = @ \cap kept]
      BY <1>7, <2>5 DEF tick
    <3>3. /\ call' \in Answered
          /\ call'.by = call.by /\ call'.place = call.place /\ call'.told = call.told
          /\ \A h \in call'.new \cup call'.holes : ring'[call.by][h] # Nowhere
      <4>1. call' \in Answered /\ call'.by = call.by /\ call'.place = call.place /\ call'.told = call.told
        BY <3>1, <3>2 DEF Answered
      <4>2. \A h \in call'.new \cup call'.holes : ring'[call.by][h] # Nowhere
        BY <3>1, <3>2 DEF Answered
      <4> QED  BY <4>1, <4>2
    <3>4. CallInv' /\ HeldInv'  BY <3>3 DEF CallInv, HeldInv
    <3>5. PushInv'  BY <2>1, <3>3 DEF PushInv, TypeOK, Batch, Hours
    <3> QED  BY <2>1, <2>2, <2>3, <2>6, <3>3, <3>4, <3>5 DEF TypeOK, Answered
  <2> QED  BY <2>4, <2>5
<1>8. ASSUME NEW p \in Places, move(p) PROVE BaseInv'
  <2>1. PICK d \in Meters : /\ stands[d] = Elsewhere
                            /\ stands' = [stands EXCEPT ![d] = p, ![At(p)] = Elsewhere]
                            /\ returned' \in {returned, returned \cup {d}}
    BY <1>8 DEF move
  <2>2. /\ At(p) \in Meters /\ d # At(p) /\ Elsewhere \notin Places
        /\ \A x \in Meters : stands[x] = p <=> x = At(p)
    BY <2>1, AtStands
  <2>3. stands' \in [Meters -> Places \cup {Elsewhere}]
        /\ \A x \in Meters : stands'[x] = IF x = d THEN p ELSE IF x = At(p) THEN Elsewhere ELSE stands[x]
    BY <2>1, <2>2 DEF TypeOK
  <2>4. StandInv'
    <3> SUFFICES ASSUME NEW q \in Places
                 PROVE  \E e \in Meters : {x \in Meters : stands'[x] = q} = {e}
      BY DEF StandInv
    <3>1. CASE q = p
      <4>1. {x \in Meters : stands'[x] = p} = {d}  BY <2>2, <2>3
      <4> QED  BY <3>1, <4>1
    <3>2. CASE q # p
      <4>1. PICK e \in Meters : {x \in Meters : stands[x] = q} = {e}  BY DEF StandInv
      <4>2. \A x \in Meters : stands'[x] = q <=> stands[x] = q  BY <2>1, <2>2, <2>3, <3>2
      <4> QED  BY <4>1, <4>2
    <3> QED  BY <3>1, <3>2
  <2>5. arrived' = [arrived EXCEPT ![p] = now] /\ UNCHANGED <<now, ring, registered, rows, call, push, unchecked>>
    BY <1>8 DEF move
  <2>6. PastInv'  BY <2>5 DEF PastInv, TypeOK
  <2> QED  BY <2>1, <2>3, <2>4, <2>5, <2>6, Frames DEF TypeOK
<1>9. ASSUME NEW p \in Places, register(p) PROVE BaseInv'
  <2>1. At(p) \in Meters  BY AtStands
  <2> QED  BY <1>9, <2>1, Frames DEF register, TypeOK
<1>12. ASSUME NEW p \in Places, take_out(p) PROVE BaseInv'
  BY <1>12, Frames DEF take_out, TypeOK
<1>10. CASE upsert_dpd
  <2>1. PICK h \in Hours :
          /\ ring[Fitted(Site)][h] = Site
          /\ rows' = [rows EXCEPT ![Fitted(Site)][h] =
                        upsert(@, [of |-> Fitted(Site), at |-> Site, source |-> "dpd", hole |-> FALSE])]
    BY <1>10 DEF upsert_dpd
  <2> DEFINE new == [of |-> Fitted(Site), at |-> Site, source |-> "dpd", hole |-> FALSE]
  <2>2. Fitted(Site) \in Meters /\ Fitted(Site) \in Archives
    BY <1>10 DEF upsert_dpd, Fitted, Places, Archives, TypeOK
  <2>3. new \in Row  BY <2>2 DEF Row, Places
  <2>4. rows' = [rows EXCEPT ![Fitted(Site)][h] = upsert(@, new)]  BY <2>1
  <2>5. rows' \in [Archives -> [Hours -> Row \cup {NoRow}]]
    <3> HIDE DEF new
    <3>1. rows[Fitted(Site)][h] \in Row \cup {NoRow}  BY <2>2 DEF TypeOK
    <3>2. upsert(rows[Fitted(Site)][h], new) \in Row  BY ONLY <2>3, <3>1, UpsertType
    <3> QED  BY <2>2, <2>4, <3>2 DEF TypeOK
  <2>6. UNCHANGED <<now, stands, ring, arrived, registered, call, push, returned, unchecked>>
    BY <1>10 DEF upsert_dpd
  <2> QED  BY <2>5, <2>6, Frames DEF TypeOK
<1> QED  BY <1>1, <1>2, <1>3, <1>4, <1>5, <1>6, <1>7, <1>8, <1>9, <1>10, <1>11, <1>12 DEF Next

LEMMA BaseInit == Init => BaseInv
<1> SUFFICES ASSUME Init PROVE BaseInv
  OBVIOUS
<1>1. StandInv  BY DEF Init, StandInv
<1>2. \A p \in Places : (CHOOSE d \in Meters : Standing[d] = p) \in Meters
  BY <1>1 DEF Init, StandInv
<1>3. TypeOK
  <2>1. registered \in [Places -> [device : Meters \cup {Nobody}, from : 0 .. Horizon]]
    BY <1>2 DEF Init
  <2>2. rows \in [Archives -> [Hours -> Row \cup {NoRow}]]  BY DEF Init
  <2>3. now \in 0 .. Horizon /\ stands \in [Meters -> Places \cup {Elsewhere}] /\ arrived \in [Places -> 0 .. Horizon]
    BY DEF Init
  <2>4. ring \in [Meters -> [Hours -> Places \cup {Elsewhere, Nowhere}]]  BY DEF Init
  <2>5. call = Nobody /\ push = Nobody /\ returned = {} /\ unchecked = FALSE  BY DEF Init
  <2> QED  BY <2>1, <2>2, <2>3, <2>4, <2>5, Zenon DEF TypeOK
<1>4. CallInv /\ HeldInv  BY DEF Init, CallInv, HeldInv
<1>5. RingInv /\ PastInv /\ PushInv  BY DEF Init, RingInv, PastInv, PushInv
<1> QED  BY <1>1, <1>3, <1>4, <1>5 DEF BaseInv

\* Correctors, readings, archives and the call under way keep their types; one corrector
\* stands at each place and none holds an hour to come.
THEOREM TypeInvariant == Spec => []BaseInv
<1> QED  BY BaseInit, BaseStep, PTL DEF Spec

(* ---- Whose readings they are ---- *)

\* Only a batch and the refresh change the archives.
LEMMA RowsChange ==
  ASSUME [Next]_vars, rows' # rows
  PROVE  (store_batch /\ archive_of(call.place).key # Nobody) \/ upsert_dpd
BY DEF Next, vars, get_plan, answer, push_data, store_batch, lose, finish, tick, move, register, take_out

\* What one step does to an hour of an archive.
LEMMA RowStep ==
  ASSUME BaseInv, [Next]_vars, NEW k \in Archives, NEW h \in Hours, rows'[k][h] # rows[k][h]
  PROVE  \/ /\ store_batch
            /\ k = archive_of(call.place).key /\ k # Nobody /\ h = push.hour
            /\ rows'[k][h] = upsert(rows[k][h], Brought)
         \/ /\ upsert_dpd
            /\ k = Fitted(Site) /\ k \in Meters
            /\ rows'[k][h] = upsert(rows[k][h],
                 [of |-> k, at |-> Site, source |-> "dpd", hole |-> FALSE])
<1>1. rows \in [Archives -> [Hours -> Row \cup {NoRow}]]  BY DEF BaseInv, TypeOK
<1>2. CASE store_batch /\ archive_of(call.place).key # Nobody
  <2> DEFINE K == archive_of(call.place).key
  <2>1. /\ K \in Archives /\ push \in Batch
        /\ rows' = [rows EXCEPT ![K][push.hour] = upsert(@, Brought)]
    BY <1>2, StoreRow
  <2>2. push.hour \in Hours  BY <2>1 DEF Batch
  <2>3. k = K /\ h = push.hour /\ rows'[K][push.hour] = upsert(rows[K][push.hour], Brought)
    <3> HIDE DEF K
    <3> QED  BY <1>1, <2>1, <2>2
  <2> QED  BY <1>2, <2>3
<1>3. CASE upsert_dpd
  <2> DEFINE K   == Fitted(Site)
             new == [of |-> K, at |-> Site, source |-> "dpd", hole |-> FALSE]
  <2>1. PICK g \in Hours : rows' = [rows EXCEPT ![K][g] = upsert(@, new)]
    BY <1>3 DEF upsert_dpd
  <2>2. K \in Meters /\ K \in Archives
    BY <1>3 DEF upsert_dpd, BaseInv, TypeOK, Fitted, Places, Archives
  <2>3. k = K /\ h = g /\ rows'[K][g] = upsert(rows[K][g], new)
    <3> HIDE DEF K, new
    <3> QED  BY <1>1, <2>1, <2>2
  <2> QED  BY <1>3, <2>2, <2>3
<1> QED  BY <1>2, <1>3, RowsChange

\* A corrector's readings get under the name of another in one way only: what answered was
\* the corrector entered when the serials were compared, or there was nothing to compare
\* (push_data), and what is entered was changed before the archive was chosen.  Neither a
\* plan made for another corrector nor a move nobody entered does it.
THEOREM OnlyBetweenTheReads == Spec => MisfiledOnlyBetweenTheReads
<1> DEFINE Kept ==
      \A d \in Meters, h \in Hours :
        rows'[d][h] # rows[d][h] /\ rows'[d][h].of # d =>
          /\ push # Nobody /\ push.hour = h /\ push.of = rows'[d][h].of
          /\ call.told => push.seen \in {push.of, Nobody}
<1>1. ASSUME BaseInv, [Next]_vars, NEW d \in Meters, NEW h \in Hours,
             rows'[d][h] # rows[d][h], rows'[d][h].of # d
      PROVE  /\ push # Nobody /\ push.hour = h /\ push.of = rows'[d][h].of
             /\ call.told => push.seen \in {push.of, Nobody}
  <2>1. d \in Archives  BY DEF Archives
  <2>2. CASE store_batch /\ h = push.hour /\ rows'[d][h] = upsert(rows[d][h], Brought)
    <3>1. push # Nobody  BY <2>2 DEF store_batch
    <3>2. rows'[d][h] = Brought  BY <1>1, <2>2 DEF upsert
    <3>3. push.of = rows'[d][h].of  BY <3>2 DEF Brought
    <3>4. call.told => push.seen \in {push.of, Nobody}
      <4>1. PushInv  BY <1>1 DEF BaseInv
      <4> QED  BY <3>1, <4>1, Zenon DEF PushInv
    <3> QED  BY <2>2, <3>1, <3>3, <3>4
  <2>3. CASE rows'[d][h] = upsert(rows[d][h], [of |-> d, at |-> Site, source |-> "dpd", hole |-> FALSE])
    BY <1>1, <2>3 DEF upsert
  <2> QED  BY <1>1, <2>1, <2>2, <2>3, RowStep
<1>2. BaseInv /\ [Next]_vars => [Kept]_vars
  BY <1>1
<1> HIDE DEF Kept
<1>3. Spec => [][Kept]_vars  BY <1>2, TypeInvariant, PTL DEF Spec
<1> QED  BY <1>3 DEF Kept, MisfiledOnlyBetweenTheReads

\* What the modem has read of an hour stands: the refresh does not write over it, in
\* whichever order the two come (upsert_records).
THEOREM TruthStands == Spec => ModemIsTheTruth
<1>1. ASSUME BaseInv, [Next]_vars, NEW d \in Meters, NEW h \in Hours, FromModem(rows[d][h])
      PROVE  FromModem(rows'[d][h])
  <2>1. CASE rows'[d][h] = rows[d][h]  BY <1>1, <2>1
  <2>2. CASE rows'[d][h] # rows[d][h]
    <3>1. d \in Archives  BY DEF Archives
    <3> DEFINE New(o, a, src, x) == [of |-> o, at |-> a, source |-> src, hole |-> x]
    <3>2. \/ rows'[d][h] = upsert(rows[d][h], New(push.of, push.at, "gsm", push.hole))
          \/ rows'[d][h] = upsert(rows[d][h], New(d, Site, "dpd", FALSE))
      BY <1>1, <2>2, <3>1, RowStep DEF Brought
    <3>3. ASSUME NEW o, NEW a, NEW src, NEW x,
                 rows'[d][h] = upsert(rows[d][h], New(o, a, src, x))
          PROVE  FromModem(rows'[d][h])
      <4>1. New(o, a, src, x).source = src  OBVIOUS
      <4>2. New(o, a, src, x) # NoRow
        <5>1. "source" \in DOMAIN New(o, a, src, x) /\ "source" \notin DOMAIN NoRow  BY DEF NoRow
        <5> QED  BY <5>1
      <4> HIDE DEF New
      <4> QED  BY <1>1, <3>3, <4>1, <4>2 DEF upsert, FromModem
    <3> HIDE DEF New
    <3> QED  BY <3>2, <3>3
  <2> QED  BY <2>1, <2>2
<1>2. BaseInv /\ [Next]_vars =>
        [\A d \in Meters, h \in Hours : FromModem(rows[d][h]) => FromModem(rows'[d][h])]_vars
  BY <1>1
<1> QED  BY <1>2, TypeInvariant, PTL DEF Spec, ModemIsTheTruth

(* ---- What fills the holes of a line ---- *)

\* An hour recorded on the line, or not held.
Ours == {Line, Nowhere}

\* Since it came, the corrector that stands on the line has recorded there.
SinceInv ==
  \A d \in Meters, h \in Hours :
    stands[d] = Line /\ h >= arrived[Line] => ring[d][h] \in Ours

\* The line's archive holds no hour to come.
StoredInv == \A h \in Hours : rows[Line][h] # NoRow => h < now

\* An hour the line's entered corrector recorded elsewhere since the moment entered for
\* it.
Astray(d, h) ==
  /\ d = Fitted(Line) /\ d \notin returned
  /\ h >= registered[Line].from /\ ring[d][h] \notin Ours

\* The corrector is away then, and nothing from that hour on is stored for the line or on
\* its way there.
FloorInv ==
  \A d \in Meters, h \in Hours :
    Astray(d, h) =>
      /\ stands[d] # Line
      /\ \A g \in Hours : g >= h => rows[Line][g] = NoRow
      /\ push # Nobody /\ call.place = Line => push.hour < h

\* Behind an hour about to be pushed for the line there is none of those either.
NewInv ==
  call # Nobody /\ call.place = Line /\ call.by = Fitted(Line) /\ call.by # Nobody =>
    \A g \in call.new \cup call.holes, h \in Hours : Astray(call.by, h) => g < h

\* A call to the line is for an entered corrector, and is answered with a serial.
ToldInv ==
  call # Nobody /\ call.place = Line =>
    IF call.by = Nobody THEN call.expected # Nobody ELSE call.told

\* The corrector a call is for.
Caller == IF call.by = Nobody THEN call.expected ELSE call.by

\* The holes asked of a line's corrector it recorded on the line, or no longer holds; a
\* hole on its way was recorded there.
HolesInv ==
  /\ call # Nobody /\ call.place = Line /\ Caller \notin returned =>
       \A h \in call.holes : h < now /\ ring[Caller][h] \in Ours
  /\ push # Nobody /\ push.hole => push.at = Line \/ push.of \in returned

\* All of it as long as whoever answers on the line is compared with an entry.
CheckedInv == ~unchecked => FloorInv /\ NewInv /\ ToldInv /\ HolesInv

LineInv == SinceInv /\ StoredInv /\ CheckedInv

\* An hour about to be read has passed.
LEMMA AskedHasPassed ==
  ASSUME BaseInv, call # Nobody, call.by # Nobody, NEW h \in call.new \cup call.holes
  PROVE  h \in Hours /\ h < now /\ call.by \in Meters /\ ring[call.by][h] # Nowhere
BY DEF BaseInv, TypeOK, CallInv, Answered, HeldInv, RingInv, Hours

\* Only a batch for the line changes its archive.
LEMMA LineRow ==
  ASSUME BaseInv, [Next]_vars, NEW h \in Hours, rows'[Line][h] # rows[Line][h]
  PROVE  /\ store_batch /\ push # Nobody /\ call.place = Line
         /\ h = push.hour /\ h < now
         /\ rows'[Line][h] = Brought
<1>1. Line \in Archives /\ Line \notin Meters  BY DEF Archives
<1>2. /\ store_batch /\ archive_of(call.place).key = Line /\ h = push.hour
      /\ archive_of(call.place).key # Nobody
      /\ rows'[Line][h] = upsert(rows[Line][h], Brought)
  BY <1>1, RowStep
<1>3. push # Nobody /\ call.place = Line /\ push.hour < now  BY <1>2, StoreRow DEF store_batch
<1>4. upsert(rows[Line][h], Brought) = Brought  BY DEF upsert, Brought
<1> QED  BY <1>2, <1>3, <1>4

\* A tick leaves an hour that has passed as it was, or takes it away.
LEMMA OtherRing ==
  ASSUME BaseInv, [Next]_vars, NEW d \in Meters, NEW h \in Hours
  PROVE  /\ now' >= now
         /\ \/ ring'[d][h] \in {ring[d][h], Nowhere}
            \/ h = now /\ ring'[d][h] = stands[d] /\ tick
<1>1. CASE tick
  <2>1. now' = now + 1  BY <1>1 DEF tick
  <2>2. ring'[d][h] \in {ring[d][h], Nowhere} \cup (IF h = now THEN {stands[d]} ELSE {})
    BY <1>1, TickRing DEF BaseInv
  <2> QED  BY <1>1, <2>1, <2>2 DEF BaseInv, TypeOK
<1>2. CASE ~tick
  <2>1. ring' = ring /\ now' = now
    BY <1>2 DEF Next, vars, get_plan, answer, push_data, store_batch, lose, finish, move, register, take_out, upsert_dpd
  <2> QED  BY <2>1 DEF BaseInv, TypeOK
<1> QED  BY <1>1, <1>2

\* What the histories say stays said.
LEMMA HistoryGrows ==
  ASSUME BaseInv, [Next]_vars
  PROVE  returned \subseteq returned' /\ (unchecked => unchecked')
<1>1. CASE answer \/ \E p \in Places : get_plan(p)
  BY <1>1 DEF answer, get_plan
<1>2. CASE \E p \in Places : move(p)
  BY <1>2 DEF move
<1>3. CASE ~answer /\ ~(\E p \in Places : get_plan(p)) /\ ~(\E p \in Places : move(p))
  <2>1. returned' = returned /\ unchecked' = unchecked
    BY <1>3, Zenon DEF Next, vars, push_data, store_batch, lose, finish, tick, register, take_out, upsert_dpd
  <2> QED  BY <2>1
<1> QED  BY <1>1, <1>2, <1>3

\* What is entered for the line changes when its corrector is registered or taken out, and
\* not otherwise.
LEMMA EnteredChange ==
  ASSUME BaseInv, [Next]_vars, ~register(Line), ~take_out(Line)
  PROVE  registered'[Line] = registered[Line]
<1>1. ASSUME NEW p \in Places, register(p) \/ take_out(p) PROVE registered'[Line] = registered[Line]
  <2>1. p # Line /\ Line \in Places  BY <1>1 DEF Places
  <2>2. \E entry : registered' = [registered EXCEPT ![p] = entry]
    BY <1>1 DEF register, take_out
  <2> QED  BY <2>1, <2>2
<1>2. CASE ~\E p \in Places : register(p) \/ take_out(p)
  BY <1>2 DEF Next, vars, get_plan, answer, push_data, store_batch, lose, finish, tick, move, upsert_dpd
<1> QED  BY <1>1, <1>2

\* A batch is on its way because it was just compared, or was so before.
LEMMA PushStep ==
  ASSUME BaseInv, [Next]_vars, push' # Nobody
  PROVE  (push_data /\ Expected) \/ (push' = push /\ call'.place = call.place)
<1>1. CASE push_data
  BY <1>1 DEF push_data
<1>2. CASE answer \/ lose \/ finish \/ store_batch \/ \E p \in Places : get_plan(p)
  <2>1. push = Nobody \/ push.of \in Meters  BY DEF BaseInv, TypeOK, Batch
  <2>2. push = Nobody \/ call.by \in Meters  BY <2>1 DEF BaseInv, PushInv
  <2> QED  BY <1>2, <2>2 DEF answer, lose, finish, store_batch, get_plan
<1>3. CASE tick
  <2>1. push' = push /\ call \in Answered  BY <1>3 DEF tick, BaseInv, PushInv
  <2>2. call' = call \/ \E kept : call' = [call EXCEPT !.new = @ \cap kept, !.holes = @ \cap kept]
    BY <1>3 DEF tick
  <2> QED  BY <2>1, <2>2 DEF Answered
<1> QED
  BY <1>1, <1>2, <1>3 DEF Next, vars, move, register, take_out, upsert_dpd

LEMMA SinceStep ==
  ASSUME BaseInv, SinceInv, [Next]_vars
  PROVE  SinceInv'
<1> SUFFICES ASSUME NEW d \in Meters, NEW h \in Hours, stands'[d] = Line, h >= arrived'[Line]
             PROVE  ring'[d][h] \in Ours
  BY DEF SinceInv
<1>1. CASE \E p \in Places : move(p)
  <2>1. PICK p \in Places : move(p)  BY <1>1
  <2>2. PICK e \in Meters : stands[e] = Elsewhere
                            /\ stands' = [stands EXCEPT ![e] = p, ![At(p)] = Elsewhere]
    BY <2>1 DEF move
  <2>3. ring' = ring /\ arrived' = [arrived EXCEPT ![p] = now]  BY <2>1 DEF move
  <2>4. CASE d = e /\ p = Line
    <3>1. h >= now  BY <2>3, <2>4 DEF BaseInv, TypeOK
    <3> QED  BY <2>3, <3>1 DEF BaseInv, RingInv, Ours
  <2>5. CASE ~(d = e /\ p = Line)
    <3>1. p # Line /\ stands[d] = Line
      <4>1. At(p) \in Meters /\ e # At(p) /\ stands[At(p)] = p /\ \A x \in Meters : stands[x] = p => x = At(p)
        BY <2>2, AtStands DEF BaseInv
      <4>2. stands'[d] = IF d = At(p) THEN Elsewhere ELSE IF d = e THEN p ELSE stands[d]
        BY <2>2, <4>1 DEF BaseInv, TypeOK
      <4>3. d # At(p)  BY <4>2 DEF Places
      <4> QED  BY <2>2, <2>5, <4>1, <4>2, <4>3
    <3> QED  BY <2>3, <3>1 DEF SinceInv, BaseInv, TypeOK
  <2> QED  BY <2>4, <2>5
<1>2. CASE ~\E p \in Places : move(p)
  <2>1. stands' = stands /\ arrived' = arrived
    BY <1>2 DEF Next, vars, get_plan, answer, push_data, store_batch, lose, finish, tick, register, take_out, upsert_dpd
  <2>2. ring[d][h] \in Ours /\ stands[d] = Line  BY <2>1 DEF SinceInv
  <2> QED  BY <2>2, OtherRing DEF Ours
<1> QED  BY <1>1, <1>2

LEMMA StoredStep ==
  ASSUME BaseInv, StoredInv, [Next]_vars
  PROVE  StoredInv'
<1> SUFFICES ASSUME NEW h \in Hours, rows'[Line][h] # NoRow
             PROVE  h < now'
  BY DEF StoredInv
<1>1. now \in Int /\ now' \in Int /\ now' >= now
  <2>1. PICK d \in Meters : TRUE  BY DEF Places
  <2> QED  BY <2>1, BaseStep, OtherRing DEF BaseInv, TypeOK
<1>2. h < now  BY LineRow DEF StoredInv
<1> QED  BY <1>1, <1>2 DEF Hours

\* What the parts of the invariant say before a step that leaves the line checked.
LEMMA CheckedBefore ==
  ASSUME BaseInv, LineInv, [Next]_vars, ~unchecked'
  PROVE  FloorInv /\ NewInv /\ ToldInv /\ HolesInv
BY HistoryGrows DEF LineInv, CheckedInv

\* A batch for the line was read before any hour its entered corrector recorded elsewhere.
LEMMA PushIsBefore ==
  ASSUME BaseInv, LineInv, ~unchecked, push_data, Expected, call.place = Line,
         NEW d \in Meters, NEW h \in Hours, Astray(d, h)
  PROVE  push'.hour < h
<1>1. /\ call # Nobody /\ call.by # Nobody
      /\ Next_hour \in call.new \cup call.holes /\ push'.hour = Next_hour
  BY PushBatch DEF push_data, Reading
<1>2. call.told  BY <1>1 DEF LineInv, CheckedInv, ToldInv
<1>3. call.by = d  BY <1>1, <1>2 DEF Expected, Astray
<1> QED  BY <1>1, <1>3 DEF LineInv, CheckedInv, NewInv, Astray

LEMMA FloorStep ==
  ASSUME BaseInv, LineInv, [Next]_vars, ~unchecked'
  PROVE  FloorInv'
<1> SUFFICES ASSUME NEW d \in Meters, NEW h \in Hours,
                    d = Fitted(Line)', d \notin returned',
                    h >= registered'[Line].from, ring'[d][h] \notin Ours
             PROVE  /\ stands'[d] # Line
                    /\ \A g \in Hours : g >= h => rows'[Line][g] = NoRow
                    /\ push' # Nobody /\ call'.place = Line => push'.hour < h
  BY DEF FloorInv, Astray
<1>0. /\ Line \in Places /\ d \notin returned /\ h \in Int /\ now \in Int /\ ~unchecked
      /\ FloorInv /\ SinceInv /\ StoredInv
  BY HistoryGrows, CheckedBefore DEF Places, Hours, BaseInv, TypeOK, LineInv
<1>1. CASE register(Line)
  <2>1. /\ registered' = [registered EXCEPT ![Line] = [device |-> At(Line), from |-> arrived[Line]]]
        /\ ring' = ring
    BY <1>1 DEF register
  <2>2. d = At(Line) /\ h >= arrived[Line]  BY <1>0, <2>1 DEF Fitted, BaseInv, TypeOK
  <2>3. stands[d] = Line  BY <1>0, <2>2, AtStands DEF BaseInv
  <2> QED  BY <1>0, <2>1, <2>2, <2>3 DEF SinceInv
<1>3. CASE take_out(Line)
  <2>1. Fitted(Line)' = Nobody  BY <1>0, <1>3 DEF take_out, Fitted, BaseInv, TypeOK
  <2> QED  BY <2>1
<1>2. CASE ~register(Line) /\ ~take_out(Line)
  <2>1. registered'[Line] = registered[Line]
    BY <1>2, EnteredChange
  <2>2. d = Fitted(Line) /\ h >= registered[Line].from  BY <2>1 DEF Fitted
  <2>3. CASE ring[d][h] \notin Ours
    <3>1. /\ Astray(d, h) /\ stands[d] # Line
          /\ \A g \in Hours : g >= h => rows[Line][g] = NoRow
          /\ push # Nobody /\ call.place = Line => push.hour < h
      BY <1>0, <2>2, <2>3 DEF FloorInv, Astray
    <3>2. stands'[d] # Line
      <4>1. ASSUME NEW p \in Places, move(p), stands'[d] = Line PROVE FALSE
        <5>1. PICK e \in Meters : /\ stands[e] = Elsewhere
                                  /\ stands' = [stands EXCEPT ![e] = p, ![At(p)] = Elsewhere]
                                  /\ returned' = IF Fitted(p) = e THEN returned \cup {e} ELSE returned
          BY <4>1 DEF move
        <5>2. d = e /\ p = Line  BY <3>1, <4>1, <5>1 DEF BaseInv, TypeOK, Places
        <5> QED  BY <2>2, <5>1, <5>2
      <4>2. CASE ~\E p \in Places : move(p)
        <5>1. stands' = stands
          BY <4>2 DEF Next, vars, get_plan, answer, push_data, store_batch, lose, finish, tick, register, take_out, upsert_dpd
        <5> QED  BY <3>1, <5>1
      <4> QED  BY <4>1, <4>2
    <3>3. ASSUME NEW g \in Hours, g >= h PROVE rows'[Line][g] = rows[Line][g]
      <4> SUFFICES ASSUME rows'[Line][g] # rows[Line][g] PROVE FALSE  OBVIOUS
      <4>1. push # Nobody /\ call.place = Line /\ g = push.hour  BY LineRow
      <4> QED  BY <1>0, <3>1, <3>3, <4>1 DEF Hours
    <3>4. push' # Nobody /\ call'.place = Line => push'.hour < h
      <4>1. ASSUME push_data, Expected, call'.place = Line PROVE push'.hour < h
        <5>1. call.place = Line  BY <4>1, PushBatch, ReadingType DEF push_data, BaseInv
        <5> QED  BY <1>0, <3>1, <4>1, <5>1, PushIsBefore
      <4> QED  BY <3>1, <4>1, PushStep
    <3> QED  BY <3>1, <3>2, <3>3, <3>4
  <2>4. CASE ring[d][h] \in Ours
    <3>1. h = now /\ ring'[d][h] = stands[d] /\ tick  BY <2>4, OtherRing DEF Ours
    <3>2. stands' = stands /\ rows' = rows /\ push' = push  BY <3>1 DEF tick
    <3>3. ASSUME NEW g \in Hours, g >= h PROVE rows[Line][g] = NoRow
      BY <1>0, <3>1, <3>3 DEF StoredInv, Hours
    <3>4. push # Nobody => push.hour < h  BY <3>1 DEF BaseInv, PushInv
    <3> QED  BY <3>1, <3>2, <3>3, <3>4 DEF Ours
  <2> QED  BY <2>3, <2>4
<1> QED  BY <1>1, <1>2, <1>3

\* What one step makes of the call: it is planned, answered, or asked for no more than before.
LEMMA CallStep ==
  ASSUME BaseInv, [Next]_vars, call' # Nobody
  PROVE  \/ \E p \in Places : get_plan(p)
         \/ answer
         \/ /\ call # Nobody
            /\ call'.place = call.place /\ call'.by = call.by
            /\ call'.by = Nobody => call'.expected = call.expected
            /\ call'.by # Nobody => call'.told = call.told
            /\ call'.new \subseteq call.new /\ call'.holes \subseteq call.holes
<1>1. CASE push_data \/ lose
  <2>1. Reading /\ call' = Asked  BY <1>1 DEF push_data, lose
  <2> QED  BY <2>1, ReadingType DEF BaseInv, Reading
<1>2. CASE tick
  <2>1. CASE call = Nobody \/ call.by = Nobody
    <3>1. call' = call  BY <1>2, <2>1 DEF tick
    <3> QED  BY <3>1
  <2>2. CASE call # Nobody /\ call.by # Nobody
    <3>1. call \in Answered
      BY <2>2 DEF BaseInv, CallInv
    <3>2. \E kept : call' = [call EXCEPT !.new = @ \cap kept, !.holes = @ \cap kept]
      BY <1>2, <2>2 DEF tick
    <3> QED  BY <2>2, <3>1, <3>2 DEF Answered
  <2> QED  BY <2>1, <2>2
<1>3. CASE call' = call
  BY <1>3
<1>4. CASE store_batch
  <2>1. call' = call \/ call' = Nobody  BY <1>4 DEF store_batch
  <2> QED  BY <1>3, <2>1
<1> QED
  BY <1>1, <1>2, <1>3, <1>4 DEF Next, vars, finish, move, register, take_out, upsert_dpd

\* An answer of the line's corrector: it stands there, was expected if it said its serial
\* and another was not, and is asked for no more holes than the plan named.
LEMMA AnswerOf ==
  ASSUME BaseInv, answer, call' # Nobody
  PROVE  /\ call # Nobody /\ call.by = Nobody
         /\ call'.place = call.place
         /\ call'.told => call.expected \in {call'.by, Nobody}
         /\ call'.told \/ call.place # Line \/ unchecked'
         /\ call'.by \in Meters /\ stands[call'.by] = call.place
         /\ call'.new \subseteq Hours /\ call'.holes \subseteq call.holes
<1>1. call # Nobody /\ call.by = Nobody /\ call.place \in Places
  BY DEF answer, BaseInv, CallInv, Answered
<1>2. At(call.place) \in Meters /\ stands[At(call.place)] = call.place
  BY <1>1, AtStands DEF BaseInv
<1>3. PICK told \in BOOLEAN :
        /\ call' = IF told /\ call.expected \notin {At(call.place), Nobody} THEN Nobody
                   ELSE [place |-> call.place, by |-> At(call.place), told |-> told,
                         new |-> {h \in {g \in Hours : ring[At(call.place)][g] # Nowhere} : h > call.last},
                         holes |-> {h \in call.holes \cap {g \in Hours : ring[At(call.place)][g] # Nowhere} :
                                      At(call.place) \in Telling \/ h > call.first}]
        /\ unchecked' = (unchecked \/ (~told /\ call.place = Line))
  BY DEF answer
<1>4. /\ call'.place = call.place /\ call'.by = At(call.place) /\ call'.told = told
      /\ call'.new \subseteq Hours /\ call'.holes \subseteq call.holes
      /\ told => call.expected \in {At(call.place), Nobody}
  BY <1>3
<1>5. told \/ call.place # Line \/ unchecked'  BY <1>3
<1> QED  BY <1>1, <1>2, <1>4, <1>5

LEMMA ToldStep ==
  ASSUME BaseInv, LineInv, [Next]_vars, ~unchecked'
  PROVE  ToldInv'
<1> SUFFICES ASSUME call' # Nobody, call'.place = Line
             PROVE  IF call'.by = Nobody THEN call'.expected # Nobody ELSE call'.told
  BY DEF ToldInv
<1>1. CASE \E p \in Places : get_plan(p)
  <2>1. PICK p \in Places : get_plan(p)  BY <1>1
  <2>2. call'.place = p /\ call'.expected = Fitted(p) /\ call'.by = Nobody  BY <2>1 DEF get_plan
  <2>3. unchecked' = (unchecked \/ Fitted(p) = Nobody)  BY <2>1 DEF get_plan
  <2> QED  BY <2>2, <2>3
<1>2. CASE answer
  BY <1>2, AnswerOf
<1>3. CASE /\ call # Nobody
           /\ call'.place = call.place /\ call'.by = call.by
           /\ call'.by = Nobody => call'.expected = call.expected
           /\ call'.by # Nobody => call'.told = call.told
  BY <1>3, CheckedBefore DEF ToldInv
<1> QED  BY <1>1, <1>2, <1>3, CallStep

LEMMA NewStep ==
  ASSUME BaseInv, LineInv, [Next]_vars, ~unchecked'
  PROVE  NewInv'
<1> SUFFICES ASSUME call' # Nobody, call'.place = Line, call'.by = Fitted(Line)', call'.by # Nobody,
                    NEW g \in call'.new \cup call'.holes, NEW h \in Hours,
                    call'.by \notin returned',
                    h >= registered'[Line].from, ring'[call'.by][h] \notin Ours, ~ (g < h)
             PROVE  FALSE
  BY DEF NewInv, Astray
<1>0. /\ BaseInv' /\ Line \in Places /\ call'.by \notin returned
      /\ now \in Int /\ registered'[Line].from \in Int
      /\ FloorInv /\ NewInv /\ SinceInv
  BY BaseStep, HistoryGrows, CheckedBefore DEF BaseInv, TypeOK, Places, LineInv
<1>1. CASE \E p \in Places : get_plan(p)
  BY <1>1 DEF get_plan
<1>2. CASE answer
  <2>1. call.place = Line /\ stands[call'.by] = Line /\ call'.by \in Meters
    BY <1>2, AnswerOf
  <2>2. registered' = registered /\ ring' = ring  BY <1>2 DEF answer
  <2> QED  BY <1>0, <2>1, <2>2 DEF FloorInv, Fitted, Astray
<1>3. CASE /\ call # Nobody
           /\ call'.place = call.place /\ call'.by = call.by
           /\ call'.new \subseteq call.new /\ call'.holes \subseteq call.holes
  <2>1. g \in call.new \cup call.holes  BY <1>3
  <2>2. g < now /\ g \in Hours /\ h < now /\ call.by \in Meters
    BY <1>0, <1>3, <2>1, AskedHasPassed DEF Hours
  <2>3. ring'[call.by][h] \in {ring[call.by][h], Nowhere}
    BY <1>0, <1>3, <2>2, OtherRing DEF Hours
  <2>4. ring[call.by][h] \in Ours
    <3>1. CASE register(Line)
      <4>1. registered' = [registered EXCEPT ![Line] = [device |-> At(Line), from |-> arrived[Line]]]
        BY <3>1 DEF register
      <4>2. call.by = At(Line) /\ h >= arrived[Line]
        BY <1>0, <1>3, <4>1 DEF Fitted, BaseInv, TypeOK
      <4> QED  BY <1>0, <1>3, <2>2, <4>2, AtStands DEF SinceInv, BaseInv
    <3>2. CASE ~register(Line) /\ ~take_out(Line)
      BY <1>0, <1>3, <2>1, <3>2, EnteredChange DEF NewInv, Fitted, Astray
    <3>3. CASE take_out(Line)
      <4>1. Fitted(Line)' = Nobody  BY <1>0, <3>3 DEF take_out, Fitted, BaseInv, TypeOK
      <4> QED  BY <1>3, <2>2, <4>1
    <3> QED  BY <3>1, <3>2, <3>3
  <2> QED  BY <1>3, <2>3, <2>4 DEF Ours
<1> QED  BY <1>1, <1>2, <1>3, CallStep

LEMMA HolesStep ==
  ASSUME BaseInv, LineInv, [Next]_vars, ~unchecked'
  PROVE  HolesInv'
<1>0. /\ BaseInv' /\ ToldInv' /\ Line \in Places /\ now \in Int /\ now' \in Int
      /\ returned \subseteq returned'
      /\ FloorInv /\ HolesInv /\ ToldInv /\ StoredInv
  BY BaseStep, ToldStep, HistoryGrows, CheckedBefore DEF BaseInv, TypeOK, Places, LineInv
<1>4. ASSUME call' # Nobody, call'.place = Line, Caller' \notin returned',
             NEW h \in call'.holes
      PROVE  h < now' /\ ring'[Caller'][h] \in Ours
  <2>0. Caller' \notin returned /\ h \in Hours /\ Caller' \in Meters
    BY <1>0, <1>4 DEF BaseInv, TypeOK, CallInv, ToldInv, Caller, Answered
  <2>1. ASSUME NEW p \in Places, get_plan(p) PROVE h < now' /\ ring'[Caller'][h] \in Ours
    <3>1. /\ p = Line /\ Caller' = Fitted(Line) /\ ring' = ring /\ now' = now
          /\ h \in archive_gaps(archive_of(Line), coverage(archive_of(Line).key))
      BY <1>4, <2>1 DEF get_plan, Caller
    <3>2. /\ h >= registered[Line].from
          /\ \E g \in Hours : g >= h /\ rows[Line][g] # NoRow
      <4>1. archive_of(Line) = [key |-> Line, since |-> registered[Line].from]  BY DEF archive_of
      <4>2. now \in 0 .. Horizon /\ registered \in [Places -> [device : Meters \cup {Nobody}, from : 0 .. Horizon]]
        BY DEF BaseInv, TypeOK
      <4>3. /\ h >= archive_of(Line).since
            /\ \E g \in Hours : g >= h /\ rows[archive_of(Line).key][g] # NoRow
        BY <1>0, <3>1, <4>2, GapsLie
      <4> QED  BY <4>1, <4>3
    <3>3. h < now  BY <1>0, <2>0, <3>2 DEF StoredInv, Hours
    <3> QED  BY <1>0, <2>0, <3>1, <3>2, <3>3 DEF FloorInv, Astray
  <2>2. CASE answer
    <3>1. call'.told /\ call.expected # Nobody /\ call # Nobody /\ call.by = Nobody /\ call.place = Line
      BY <1>0, <1>4, <2>2, AnswerOf DEF ToldInv
    <3>2. call'.by \in Meters /\ call'.by = call.expected /\ h \in call.holes
      BY <1>4, <2>2, <3>1, AnswerOf
    <3>3. Caller' = Caller  BY <3>1, <3>2 DEF Caller
    <3>4. ring' = ring /\ now' = now  BY <2>2 DEF answer
    <3> QED  BY <1>0, <2>0, <3>1, <3>2, <3>3, <3>4 DEF HolesInv
  <2>3. CASE /\ call # Nobody
             /\ call'.place = call.place /\ call'.by = call.by
             /\ call'.by = Nobody => call'.expected = call.expected
             /\ call'.new \subseteq call.new /\ call'.holes \subseteq call.holes
    <3>1. Caller' = Caller /\ h \in call.holes /\ call.place = Line  BY <1>4, <2>3 DEF Caller
    <3>2. h < now /\ ring[Caller'][h] \in Ours  BY <1>0, <2>0, <2>3, <3>1 DEF HolesInv
    <3>3. ring'[Caller'][h] \in {ring[Caller'][h], Nowhere} /\ now' >= now
      <4>1. h # now  BY <1>0, <2>0, <3>2 DEF Hours
      <4> QED  BY <2>0, <4>1, OtherRing
    <3> QED  BY <1>0, <2>0, <3>2, <3>3 DEF Ours, Hours
  <2> QED  BY <1>4, <2>1, <2>2, <2>3, CallStep
<1>5. ASSUME push' # Nobody, push'.hole
      PROVE  push'.at = Line \/ push'.of \in returned'
  <2>1. CASE push' = push
    BY <1>0, <1>5, <2>1 DEF HolesInv
  <2>2. CASE push_data /\ Expected
    <3>1. /\ call.place = Line /\ Next_hour \in call.holes
          /\ push'.of = call.by /\ push'.at = ring[call.by][Next_hour]
          /\ call # Nobody /\ call.by # Nobody
      BY <1>5, <2>2, PushBatch DEF push_data, Reading
    <3>2. ring[call.by][Next_hour] # Nowhere  BY <3>1, AskedHasPassed
    <3>3. call.by \in returned \/ ring[call.by][Next_hour] \in Ours
      BY <1>0, <3>1 DEF HolesInv, Caller
    <3> QED  BY <1>0, <3>1, <3>2, <3>3 DEF Ours
  <2> QED  BY <1>5, <2>1, <2>2, PushStep
<1> QED  BY <1>4, <1>5 DEF HolesInv

LEMMA LineStep ==
  ASSUME BaseInv, LineInv, [Next]_vars
  PROVE  LineInv'
BY SinceStep, StoredStep, FloorStep, NewStep, ToldStep, HolesStep DEF LineInv, CheckedInv

LEMMA LineInit == Init => LineInv
<1> SUFFICES ASSUME Init PROVE LineInv  OBVIOUS
<1>1. Line \in Archives /\ Fitted(Line) \in Meters
  BY BaseInit DEF Init, Archives, Fitted, BaseInv, TypeOK, Places, StandInv
<1>2. \A d \in Meters, h \in Hours : ring[d][h] = Nowhere  BY DEF Init
<1>5. SinceInv  BY <1>2 DEF SinceInv, Ours
<1>6. FloorInv  BY <1>1, <1>2 DEF FloorInv, Astray, Ours
<1>3. StoredInv  BY <1>1 DEF Init, StoredInv
<1>4. NewInv /\ ToldInv /\ HolesInv  BY DEF Init, NewInv, ToldInv, HolesInv
<1> QED  BY <1>3, <1>4, <1>5, <1>6 DEF LineInv, CheckedInv

LEMMA HolesAreTheLinesStep ==
  ASSUME BaseInv, LineInv, HolesAreTheLines, [Next]_vars
  PROVE  HolesAreTheLines'
<1> SUFFICES ASSUME NEW h \in Hours, rows'[Line][h] # NoRow, rows'[Line][h].hole, ~unchecked'
             PROVE  rows'[Line][h].at = Line \/ rows'[Line][h].of \in returned'
  BY DEF HolesAreTheLines
<1>0. ~unchecked /\ returned \subseteq returned' /\ HolesInv
  BY HistoryGrows, CheckedBefore
<1>1. CASE rows'[Line][h] = rows[Line][h]
  BY <1>0, <1>1 DEF HolesAreTheLines
<1>2. CASE rows'[Line][h] # rows[Line][h]
  <2>1. push # Nobody /\ rows'[Line][h] = Brought  BY <1>2, LineRow
  <2>2. push.hole /\ rows'[Line][h].at = push.at /\ rows'[Line][h].of = push.of
    BY <2>1 DEF Brought
  <2> QED  BY <1>0, <2>1, <2>2 DEF HolesInv
<1> QED  BY <1>1, <1>2

\* The holes of a line are filled with what was recorded on it, whatever its correctors
\* did before they came and whenever the moves are entered: the floor of the search is the
\* moment of the installation (_archive_of).  The exceptions are an absence nobody entered
\* and a line that was called with nothing to compare an answer with.
THEOREM LinesHoles == Spec => []HolesAreTheLines
<1>1. Init => HolesAreTheLines
  BY DEF Init, HolesAreTheLines, Archives
<1> QED
  BY <1>1, BaseInit, BaseStep, LineInit, LineStep, HolesAreTheLinesStep, PTL DEF Spec
=============================================================================
