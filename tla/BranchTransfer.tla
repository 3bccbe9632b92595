--------------------------- MODULE BranchTransfer ---------------------------
(***************************************************************************)
(* A branch's configuration travels between installations as a file: the    *)
(* export names every row by its natural key, and the import merges the     *)
(* file into a branch that is found by transfer id, by name, or chosen.     *)
(* Between the transfers both servers are edited by hand.                   *)
(*                                                                         *)
(* An import is one transaction of one administrator and an export reads    *)
(* one: each is a step.  Row ids are tuples that begin with the serial of   *)
(* the step that made them, so ids of two servers mean nothing to each      *)
(* other, and columns that are only copied are left out.                    *)
(***************************************************************************)
EXTENDS Integers, Sequences, FiniteSets, Functions, TLC

CONSTANTS
  Servers,
  Null, FromFile, New,
  Start,         \* the database of each server to begin with
  BranchNames, LumgNames, CalcNames, Addresses, LineNos,
  Moments, Devices,
  Histories,     \* what a metering point's history may be edited to
  MaxEdits,      \* bound on the edits by hand
  MaxSteps       \* bound on edits, exports and imports together

VARIABLES
  db,            \* the tables of each server
  files,         \* the files exported so far
  report,        \* the BranchImportReport of the last import, until an edit
  edits, imports

transfer == <<db, files, report, edits, imports>>

\* A history is a function from moments to what is installed then.
History == UNION {[stamps -> Devices] : stamps \in SUBSET Moments}

NoReport == [server |-> Null]
Serial == 1 + edits + imports
Room == edits + imports + Cardinality(files) < MaxSteps

\* The rows of f, and those of g that f has not.
Over(f, g) == [x \in DOMAIN f \cup DOMAIN g |-> IF x \in DOMAIN f THEN f[x] ELSE g[x]]
One(x, v) == [y \in {x} |-> v]

\* ---- What belongs to a branch ------------------------------------------
LumgsOf(d, b) == {l \in DOMAIN d.lumg : d.lumg[l].branch = b}
CalcsOf(d, b) == {c \in DOMAIN d.calc : d.calc[c].lumg \in LumgsOf(d, b)}
LinesOf(d, b) == {n \in DOMAIN d.line : d.line[n].calc \in CalcsOf(d, b)}
In(f, b) == {i \in DOMAIN f : f[i].branch = b}

PhysicalRef(d, n) ==
  LET c == d.calc[d.line[n].calc]
  IN  <<d.lumg[c.lumg].name, c.address, d.line[n].no>>

\* The name a row of this branch has in the file; a line that has come to another
\* branch has none.
Ref(d, b, r) ==
  IF r \in LinesOf(d, b) THEN PhysicalRef(d, r)
  ELSE IF r \in In(d.dpd, b) THEN <<d.dpd[r].name>> ELSE Null

Refs(d, b, rows) == {Ref(d, b, r) : r \in rows} \ {Null}

LumgName(d, b, l) == IF l \in LumgsOf(d, b) THEN d.lumg[l].name ELSE Null

\* The ids of the rows were made before step n.
MadeBefore(d, n) ==
  /\ \A b \in DOMAIN d.branch : b[1] \in 0 .. n - 1
  /\ \A i \in DOMAIN d.point : i[1] \in 0 .. n - 1
  /\ UNION {DOMAIN d.lumg, DOMAIN d.dpd, DOMAIN d.ring, DOMAIN d.route} \subseteq (0 .. n - 1) \X Nat
  /\ DOMAIN d.calc \subseteq (0 .. n - 1) \X Nat \X Nat
  /\ DOMAIN d.line \subseteq (0 .. n - 1) \X Nat \X Nat \X Nat

\* A row refers to rows there are.
Refers(d) ==
  /\ d.branch \in [DOMAIN d.branch -> [uid : Nat, name : Nat]]
  /\ d.lumg \in [DOMAIN d.lumg -> [branch : DOMAIN d.branch, name : Nat]]
  /\ d.code \in [DOMAIN d.code -> DOMAIN d.lumg]
  /\ d.calc \in [DOMAIN d.calc -> [lumg : DOMAIN d.lumg, address : Nat, name : Nat]]
  /\ d.line \in [DOMAIN d.line -> [calc : DOMAIN d.calc, no : Nat]]
  /\ d.dpd \in [DOMAIN d.dpd -> [branch : DOMAIN d.branch, name : Nat,
                                 lumg : {Null} \cup DOMAIN d.lumg, history : History]]
  /\ d.ring \in [DOMAIN d.ring -> [branch : DOMAIN d.branch, name : Nat,
                                   members : SUBSET (DOMAIN d.line \cup DOMAIN d.dpd)]]
  /\ d.route \in [DOMAIN d.route -> [branch : DOMAIN d.branch, number : Nat]]
  /\ d.member \in [DOMAIN d.member -> DOMAIN d.route] /\ DOMAIN d.member \subseteq DOMAIN d.line
  /\ d.point \in [DOMAIN d.point -> [branch : DOMAIN d.branch, name : Nat,
                    line : {Null} \cup DOMAIN d.line \cup DOMAIN d.dpd, history : History]]
  /\ IsFiniteSet(DOMAIN d.point)

\* The unique indexes.
Unique(d) ==
  /\ \A i, j \in DOMAIN d.branch :
       i # j => d.branch[i].uid # d.branch[j].uid /\ d.branch[i].name # d.branch[j].name
  /\ \A i, j \in DOMAIN d.calc : i # j /\ d.calc[i].lumg = d.calc[j].lumg =>
       d.calc[i].address # d.calc[j].address /\ d.calc[i].name # d.calc[j].name
  /\ \A i, j \in DOMAIN d.line : d.line[i] = d.line[j] => i = j
  /\ \A i, j \in DOMAIN d.route : d.route[i] = d.route[j] => i = j
  /\ \A table \in {d.lumg, d.dpd, d.ring} : \A i, j \in DOMAIN table :
       table[i].branch = table[j].branch /\ table[i].name = table[j].name => i = j

\* The tables of a server before step n.
Sound(d, n) ==
  /\ d = [branch |-> d.branch, lumg |-> d.lumg, code |-> d.code, calc |-> d.calc, line |-> d.line,
          dpd |-> d.dpd, ring |-> d.ring, route |-> d.route, member |-> d.member, point |-> d.point]
  /\ MadeBefore(d, n) /\ Refers(d) /\ Unique(d)

ASSUME TransferAssumption ==
  /\ DOMAIN Start = Servers /\ \A s \in Servers : Sound(Start[s], 1)
  /\ UNION {BranchNames, LumgNames, CalcNames, Addresses, LineNos} \subseteq Nat
  /\ Histories \subseteq History
  /\ MaxEdits \in Nat /\ MaxSteps \in Nat
  /\ Null \notin Nat \cup Seq(Nat) \cup Servers
  /\ FromFile # New

\* ---- Export ------------------------------------------------------------
CalcKey(d, c) == <<d.lumg[d.calc[c].lumg].name, d.calc[c].address, d.calc[c].name>>
CodesOf(d, b) == {<<d.lumg[d.code[e]].name, e>> : e \in {x \in DOMAIN d.code : d.code[x] \in LumgsOf(d, b)}}
DpdLine(d, b, i) == [name |-> d.dpd[i].name, lumg |-> LumgName(d, b, d.dpd[i].lumg), history |-> d.dpd[i].history]
Ring(d, b, i) == [name |-> d.ring[i].name, members |-> Refs(d, b, d.ring[i].members)]
Route(d, b, i) ==
  [number |-> d.route[i].number, members |-> Refs(d, b, {n \in DOMAIN d.member : d.member[n] = i})]
Point(d, b, i) == [name |-> d.point[i].name, ref |-> Ref(d, b, d.point[i].line), history |-> d.point[i].history]

Export(d, b) ==
  [uid    |-> d.branch[b].uid,
   name   |-> d.branch[b].name,
   lumgs  |-> {d.lumg[l].name : l \in LumgsOf(d, b)},
   codes  |-> CodesOf(d, b),
   calcs  |-> {CalcKey(d, c) : c \in CalcsOf(d, b)},
   lines  |-> {PhysicalRef(d, n) : n \in LinesOf(d, b)},
   dpd    |-> {DpdLine(d, b, i) : i \in In(d.dpd, b)},
   rings  |-> {Ring(d, b, i) : i \in In(d.ring, b)},
   routes |-> {Route(d, b, i) : i \in In(d.route, b)},
   points |-> [i \in In(d.point, b) |-> Point(d, b, i)]]

\* ---- Which rows the file is ----------------------------------------------
ByUid(d, f)  == {b \in DOMAIN d.branch : d.branch[b].uid = f.uid}
ByName(d, f) == {b \in DOMAIN d.branch : d.branch[b].name = f.name}

\* `choice` is a branch, New, or FromFile when the file decides.
Target(d, f, choice) ==
  IF choice = New THEN {}
  ELSE IF choice # FromFile THEN {choice}
  ELSE IF ByUid(d, f) # {} THEN ByUid(d, f) ELSE ByName(d, f)

TargetRefused(d, f, choice) == (ByUid(d, f) \cup ByName(d, f)) \ Target(d, f, choice) # {}

Branch(d, f, n, choice) ==
  IF Target(d, f, choice) = {} THEN <<n>> ELSE CHOOSE b \in Target(d, f, choice) : TRUE

LumgsNamed(d, b, name) == {l \in LumgsOf(d, b) : d.lumg[l].name = name}

\* `lumgMap` maps names of the file to rows, the other names find their row by name.
LumgsFor(d, b, name, lumgMap) ==
  IF name \in DOMAIN lumgMap THEN {lumgMap[name]} ELSE LumgsNamed(d, b, name)

LumgsRefused_Stolen(d, f, b, lumgMap) ==  \* mutant: a name takes a row that a mapping took
  \E name \in DOMAIN lumgMap \cap f.lumgs :
    lumgMap[name] \notin LumgsOf(d, b) \/ LumgsNamed(d, b, name) \ {lumgMap[name]} # {}

LumgsRefused(d, f, b, lumgMap) ==
  \E name \in DOMAIN lumgMap \cap f.lumgs :
    \/ lumgMap[name] \notin LumgsOf(d, b)
    \/ LumgsNamed(d, b, name) \ {lumgMap[name]} # {}
    \/ \E other \in f.lumgs \ {name} : lumgMap[name] \in LumgsFor(d, b, other, lumgMap)

Bag(history) == [c \in Range(history) |-> Cardinality({t \in DOMAIN history : history[t] = c})]
enterprise_key(p) == <<p.name, Bag(p.history)>>

SameKey(ps, i, j) == i # j /\ enterprise_key(ps[i]) = enterprise_key(ps[j])
Ambiguous(ps) == \E i, j \in DOMAIN ps : SameKey(ps, i, j)

\* _validate: what is refused before a single write.
Refused(d, f, b, choice, lumgMap) ==
  TargetRefused(d, f, choice) \/ LumgsRefused(d, f, b, lumgMap) \/ Ambiguous(f.points)

\* ---- The rows the file's names stand for, old or new ------------------------
Only(found, new) == IF found = {} THEN new ELSE CHOOSE i \in found : TRUE

LumgId(d, b, n, lumgMap, name) == Only(LumgsFor(d, b, name, lumgMap), <<n, name>>)
CalcId(d, l, n, key) ==
  Only({c \in DOMAIN d.calc : d.calc[c].lumg = l /\ d.calc[c].address = key[2]}, <<n, key[1], key[2]>>)
LineId_Number(d, c, n, key) ==  \* mutant: a line is found by its number alone
  Only({i \in DOMAIN d.line : d.line[i].no = key[3]}, <<n, key[1], key[2], key[3]>>)
LineId(d, c, n, key) ==
  Only({i \in DOMAIN d.line : d.line[i].calc = c /\ d.line[i].no = key[3]}, <<n, key[1], key[2], key[3]>>)
RowId_Anywhere(table, b, n, name) ==  \* mutant: the branch is not asked
  Only({i \in DOMAIN table : table[i].name = name}, <<n, name>>)
RowId(table, b, n, name) == Only({i \in In(table, b) : table[i].name = name}, <<n, name>>)
RouteId(d, b, n, number) == Only({i \in In(d.route, b) : d.route[i].number = number}, <<n, number>>)

\* A point is found by its name and correctors, or by a name nobody shares on
\* either side.
PointId(d, f, b, n, k) ==
  LET p      == f.points[k]
      byKey  == {i \in In(d.point, b) : enterprise_key(d.point[i]) = enterprise_key(p)}
      byName == {i \in In(d.point, b) : d.point[i].name = p.name}
      unique == Cardinality(byName) = 1 /\ \A j \in DOMAIN f.points : f.points[j].name = p.name => j = k
  IN  IF byKey = {} /\ unique THEN CHOOSE i \in byName : TRUE ELSE Only(byKey, <<n, k>>)

\* ---- The merge ------------------------------------------------------------
\* The table of the rows that the names of a file stand for.
Keyed(ids, rows) == [i \in Range(ids) |-> rows[CHOOSE k \in DOMAIN ids : ids[k] = i]]

HistoryOf(table, i) == IF i \in DOMAIN table THEN table[i].history ELSE <<>>
MembersOf(table, i) == IF i \in DOMAIN table THEN table[i].members ELSE {}

\* uq_gas_volume_calc of name: each UPDATE is held against the names that stand, in
\* the order of the rows (`up`), and an INSERT against what the UPDATEs left.
Collides(d, calc, up) ==
  \/ \E i, j \in DOMAIN calc : i # j /\ calc[i].lumg = calc[j].lumg /\ calc[i].name = calc[j].name
  \/ \E i, j \in DOMAIN d.calc :
       /\ d.calc[i].lumg = d.calc[j].lumg
       /\ d.calc[i].name # calc[i].name
       /\ d.calc[j].name = calc[i].name
       /\ i # j
       /\ (d.calc[j].address < d.calc[i].address) # up

LeftCalcs_Address(d, lid, cid) ==  \* mutant: addresses are compared across the file
  {c \in DOMAIN d.calc : /\ d.calc[c].lumg \in Range(lid)
                         /\ d.calc[c].address \notin {k[2] : k \in DOMAIN cid}}

LeftCalcs(d, lid, cid) == {c \in DOMAIN d.calc : d.calc[c].lumg \in Range(lid)} \ Range(cid)

\* The rows that the names of a file stand for, table by table; `of` gives the
\* calculator of a line's name, and `row` what a reference stands for.
Stand(d, n, f, b, lumgMap) ==
  LET lid == [name \in f.lumgs |-> LumgId(d, b, n, lumgMap, name)]
      cid == [c \in f.calcs |-> CalcId(d, lid[c[1]], n, c)]
      calcOf == [key \in f.lines |-> cid[CHOOSE c \in f.calcs : c[1] = key[1] /\ c[2] = key[2]]]
      nid == [key \in f.lines |-> LineId(d, calcOf[key], n, key)]
      did == [x \in f.dpd |-> RowId(d.dpd, b, n, x.name)]
      dpdOf == [ref \in {<<x.name>> : x \in f.dpd} |-> did[CHOOSE x \in f.dpd : x.name = ref[1]]]
  IN  [lumg  |-> lid, calc |-> cid, of |-> calcOf, line |-> nid, dpd |-> did,
       ring  |-> [x \in f.rings |-> RowId(d.ring, b, n, x.name)],
       route |-> [x \in f.routes |-> RouteId(d, b, n, x.number)],
       point |-> [k \in DOMAIN f.points |-> PointId(d, f, b, n, k)],
       row   |-> Over(nid, Over(dpdOf, One(Null, Null)))]

\* ---- The tables as _write leaves them, parents before what refers to them ---------
NamedLumg(ids, name) == IF name = Null THEN Null ELSE ids.lumg[name]

LumgRows(d, f, b, ids) ==
  Over(Keyed(ids.lumg, [name \in f.lumgs |-> [branch |-> b, name |-> name]]), d.lumg)

\* A code is one lumg's in the whole database: who has it keeps it.
CodeRows(d, f, ids) ==
  Over(d.code, [e \in {x[2] : x \in f.codes} |-> ids.lumg[(CHOOSE x \in f.codes : x[2] = e)[1]]])

CalcRows(d, f, ids) ==
  Over(Keyed(ids.calc, [c \in f.calcs |-> [lumg |-> ids.lumg[c[1]], address |-> c[2], name |-> c[3]]]),
       d.calc)

LineRows(d, f, ids) ==
  Over(Keyed(ids.line, [key \in f.lines |-> [calc |-> ids.of[key], no |-> key[3]]]), d.line)

DpdRows(d, f, b, ids) ==
  Over(Keyed(ids.dpd, [x \in f.dpd |->
         [branch |-> b, name |-> x.name, lumg |-> NamedLumg(ids, x.lumg),
          history |-> Over(x.history, HistoryOf(d.dpd, ids.dpd[x]))]]), d.dpd)

RingRows(d, f, b, ids) ==
  Over(Keyed(ids.ring, [x \in f.rings |->
         [branch |-> b, name |-> x.name,
          members |-> {ids.row[r] : r \in x.members} \cup MembersOf(d.ring, ids.ring[x])]]), d.ring)

RouteRows(d, f, b, ids) ==
  Over(Keyed(ids.route, [x \in f.routes |-> [branch |-> b, number |-> x.number]]), d.route)

\* A line is on one route: the file takes it from the one it was on.
MemberRows(d, f, ids) ==
  LET on(i) == CHOOSE x \in f.routes : \E r \in x.members : ids.row[r] = i
  IN  Over([i \in {ids.row[r] : r \in UNION {x.members : x \in f.routes}} |-> ids.route[on(i)]],
           d.member)

PointRows(d, f, b, ids) ==
  Over(Keyed(ids.point, [k \in DOMAIN f.points |->
         [branch |-> b, name |-> f.points[k].name, line |-> ids.row[f.points[k].ref],
          history |-> Over(f.points[k].history, HistoryOf(d.point, ids.point[k]))]]), d.point)

Write(d, f, b, ids) ==
  [branch |-> Over(One(b, [uid |-> f.uid, name |-> f.name]), d.branch),
   lumg   |-> LumgRows(d, f, b, ids),
   code   |-> CodeRows(d, f, ids),
   calc   |-> CalcRows(d, f, ids),
   line   |-> LineRows(d, f, ids),
   dpd    |-> DpdRows(d, f, b, ids),
   ring   |-> RingRows(d, f, b, ids),
   route  |-> RouteRows(d, f, b, ids),
   member |-> MemberRows(d, f, ids),
   point  |-> PointRows(d, f, b, ids)]

\* report.leftover: the rows of the branch that the file does not name.
Left(d, b, ids) ==
  [lumg  |-> LumgsOf(d, b) \ Range(ids.lumg),
   calc  |-> LeftCalcs(d, ids.lumg, ids.calc),
   line  |-> {i \in DOMAIN d.line : d.line[i].calc \in Range(ids.calc)} \ Range(ids.line),
   dpd   |-> In(d.dpd, b) \ Range(ids.dpd),
   ring  |-> In(d.ring, b) \ Range(ids.ring),
   route |-> In(d.route, b) \ Range(ids.route),
   point |-> In(d.point, b) \ Range(ids.point)]

\* A history on this server has an entry that the file's has not.
Extra(d, f, ids) ==
  {ids.point[k] : k \in {x \in DOMAIN f.points :
     ~ DOMAIN HistoryOf(d.point, ids.point[x]) \subseteq DOMAIN f.points[x].history}}

Merge(d, n, f, choice, lumgMap) ==
  LET b   == Branch(d, f, n, choice)
      ids == Stand(d, n, f, b, lumgMap)
  IN  [branch |-> b, db |-> Write(d, f, b, ids), left |-> Left(d, b, ids), extra |-> Extra(d, f, ids)]

\* What the administrator may choose.  A mapping comes with a chosen branch: with FromFile
\* it would mean the same for the branch the file finds.
Unmapped == [name \in {} |-> Null]
Choices(d, f) ==
  ({FromFile, New} \X {Unmapped})
    \cup ((DOMAIN d.branch) \X ({Unmapped} \cup {One(name, l) : name \in f.lumgs, l \in DOMAIN d.lumg}))

TransferInit ==
  /\ db = Start
  /\ files = {}
  /\ report = NoReport
  /\ edits = 0
  /\ imports = 0

export(s) ==
  /\ Room
  /\ \E b \in DOMAIN db[s].branch : files' = files \cup {Export(db[s], b)}
  /\ UNCHANGED <<db, report, edits, imports>>

Refuse(s, f) == report' = [server |-> s, ok |-> FALSE, file |-> f] /\ UNCHANGED db

Apply(s, f, m) ==
  /\ db' = [db EXCEPT ![s] = m.db]
  /\ report' = [server |-> s, ok |-> TRUE, file |-> f, branch |-> m.branch, left |-> m.left, extra |-> m.extra]

import_branch(s, f, choice, lumgMap) ==
  IF Refused(db[s], f, Branch(db[s], f, Serial, choice), choice, lumgMap)
  THEN Refuse(s, f)
  ELSE LET m == Merge(db[s], Serial, f, choice, lumgMap)
       IN  \/ (\E up \in BOOLEAN : Collides(db[s], m.db.calc, up)) /\ Refuse(s, f)
           \/ (\E up \in BOOLEAN : ~Collides(db[s], m.db.calc, up)) /\ Apply(s, f, m)

import(s) ==
  /\ Room
  /\ \E f \in files : \E pick \in Choices(db[s], f) : import_branch(s, f, pick[1], pick[2])
  /\ imports' = imports + 1
  /\ UNCHANGED <<files, edits>>

\* ---- Edits by hand ---------------------------------------------------------
Drop(f, S) == Restrict(f, DOMAIN f \ S)

\* ON DELETE of the rows S, in the column of a table that refers to them.
SetNull(table, column, S) == [i \in DOMAIN table |-> [table[i] EXCEPT ![column] = IF @ \in S THEN Null ELSE @]]
Without(ring, S) == [i \in DOMAIN ring |-> [ring[i] EXCEPT !.members = @ \ S]]

DropLines(d, S) ==
  [d EXCEPT !.line = Drop(@, S), !.member = Drop(@, S), !.ring = Without(@, S), !.point = SetNull(@, "line", S)]

Edited(s, d) ==
  /\ Room
  /\ edits < MaxEdits
  /\ db' = [db EXCEPT ![s] = d]
  /\ report' = NoReport
  /\ edits' = edits + 1
  /\ UNCHANGED <<files, imports>>

update_branch(s) ==
  \E b \in DOMAIN db[s].branch, name \in BranchNames :
    /\ \A o \in DOMAIN db[s].branch : db[s].branch[o].name # name
    /\ Edited(s, [db[s] EXCEPT !.branch[b].name = name])

\* A lumg is renamed or handed to another branch, with everything under it.
update_lumg(s) ==
  \E l \in DOMAIN db[s].lumg, b \in DOMAIN db[s].branch, name \in LumgNames :
    /\ LumgsNamed(db[s], b, name) = {}
    /\ Edited(s, [db[s] EXCEPT !.lumg[l] = [branch |-> b, name |-> name]])

delete_lumg(s) ==
  \E l \in DOMAIN db[s].lumg :
    LET calcs == {c \in DOMAIN db[s].calc : db[s].calc[c].lumg = l}
        d     == DropLines(db[s], {n \in DOMAIN db[s].line : db[s].line[n].calc \in calcs})
    IN  Edited(s, [d EXCEPT !.lumg = Drop(@, {l}),
                            !.calc = Drop(@, calcs),
                            !.code = Drop(@, {e \in DOMAIN @ : @[e] = l}),
                            !.dpd = SetNull(@, "lumg", {l})])

update_calc(s) ==
  \E c \in DOMAIN db[s].calc, a \in Addresses, name \in CalcNames :
    /\ \A o \in DOMAIN db[s].calc \ {c} :
         db[s].calc[o].lumg = db[s].calc[c].lumg => db[s].calc[o].address # a /\ db[s].calc[o].name # name
    /\ Edited(s, [db[s] EXCEPT !.calc[c].address = a, !.calc[c].name = name])

create_line(s) ==
  \E c \in DOMAIN db[s].calc, no \in LineNos :
    /\ \A i \in DOMAIN db[s].line : db[s].line[i].calc = c => db[s].line[i].no # no
    /\ Edited(s, [db[s] EXCEPT !.line = Over(One(<<Serial, 0, 0, no>>, [calc |-> c, no |-> no]), @)])

delete_line(s) == \E i \in DOMAIN db[s].line : Edited(s, DropLines(db[s], {i}))

\* Lines of the route's own branch that no other route has.
update_route(s) ==
  \E r \in DOMAIN db[s].route :
    \E members \in (SUBSET LinesOf(db[s], db[s].route[r].branch)) \ {{}} :
      /\ \A i \in members \cap DOMAIN db[s].member : db[s].member[i] = r
      /\ Edited(s, [db[s] EXCEPT !.member =
           Over([i \in members |-> r], Drop(@, {i \in DOMAIN @ : @[i] = r}))])

update_ring(s) ==
  \E r \in DOMAIN db[s].ring :
    \E line \in DOMAIN db[s].line \cup DOMAIN db[s].dpd :
      Edited(s, [db[s] EXCEPT !.ring[r].members = {line}])

create_point(s) ==
  \E b \in DOMAIN db[s].branch, h \in Histories :
    Edited(s, [db[s] EXCEPT !.point =
      Over(One(<<Serial, 0>>, [branch |-> b, name |-> 1, line |-> Null, history |-> h]), @)])

update_point(s) ==
  \E p \in DOMAIN db[s].point :
    \/ \E h \in Histories : Edited(s, [db[s] EXCEPT !.point[p].history = h])
    \/ \E line \in {Null} \cup DOMAIN db[s].line \cup DOMAIN db[s].dpd :
         Edited(s, [db[s] EXCEPT !.point[p].line = line])

delete_point(s) ==
  \E p \in DOMAIN db[s].point : Edited(s, [db[s] EXCEPT !.point = Drop(@, {p})])

TransferNext ==
  \E s \in Servers :
    \/ export(s) \/ import(s)
    \/ update_branch(s) \/ update_lumg(s) \/ delete_lumg(s) \/ update_calc(s)
    \/ create_line(s) \/ delete_line(s) \/ update_route(s) \/ update_ring(s)
    \/ create_point(s) \/ update_point(s) \/ delete_point(s)

TransferSpec == TransferInit /\ [][TransferNext]_transfer

\* ---- Properties --------------------------------------------------------------
TransferTypeOK ==
  /\ edits \in Nat /\ imports \in Nat
  /\ DOMAIN db = Servers /\ \A s \in Servers : Sound(db[s], Serial)
  /\ report.server \in Servers \cup {Null}

Applied == report.server # Null /\ report.ok

Extends(h, g) == DOMAIN g \subseteq DOMAIN h /\ Restrict(h, DOMAIN g) = g

\* Every row of the file is in the branch after the import, under the same names
\* and with the same references: entries of a history and members of a ring or a
\* route that only this server has stay beside those of the file, and points of
\* one name stay as many as they were.
ImportCarries ==
  Applied =>
    LET f == report.file
        g == Export(db[report.server], report.branch)
        Same(k, i) == /\ g.points[i].name = f.points[k].name
                      /\ g.points[i].ref = f.points[k].ref
                      /\ Extends(g.points[i].history, f.points[k].history)
    IN  /\ g.uid = f.uid /\ g.name = f.name
        /\ f.lumgs \subseteq g.lumgs /\ f.calcs \subseteq g.calcs /\ f.lines \subseteq g.lines
        /\ \A x \in f.dpd : \E y \in g.dpd :
             y.name = x.name /\ y.lumg = x.lumg /\ Extends(y.history, x.history)
        /\ \A x \in f.rings : \E y \in g.rings : y.name = x.name /\ x.members \subseteq y.members
        /\ \A x \in f.routes : \E y \in g.routes : y.number = x.number /\ x.members \subseteq y.members
        /\ \A k \in DOMAIN f.points :
             /\ \E i \in DOMAIN g.points : Same(k, i)
             /\ Cardinality({j \in DOMAIN f.points : f.points[j].name = f.points[k].name}) <=
                Cardinality({i \in DOMAIN g.points : g.points[i].name = f.points[k].name})

Silent(d, f) ==
  LET b == Branch(d, f, Serial, FromFile)
      m == Merge(d, Serial, f, FromFile, Unmapped)
  IN  /\ ~Refused(d, f, b, FromFile, Unmapped)
      /\ \A up \in BOOLEAN : ~Collides(d, m.db.calc, up)
      /\ m.db = d

BranchPoints(d, b) == Restrict(d.point, In(d.point, b))

\* A file imported once more finds its branch and its rows by itself and changes
\* nothing, whatever the administrator had chosen the first time; but for a point
\* that kept an entry of its own while another bears its name.
SecondImportIsSilent ==
  Applied /\ ~Ambiguous(BranchPoints(db[report.server], report.branch)) =>
    LET points == BranchPoints(db[report.server], report.branch)
    IN  (\A i \in report.extra, j \in DOMAIN points : points[j].name = points[i].name => i = j)
          => Silent(db[report.server], report.file)

\* What _apply promises without an exception: a file imported once more says
\* that nothing was updated.
AgainIsSilent ==
  Applied /\ ~Ambiguous(BranchPoints(db[report.server], report.branch)) =>
    Silent(db[report.server], report.file)

\* Every row of the branch that the file does not have is reported, by itself or by
\* what it hangs from: nothing is left behind unseen.
LeftoversAreTold ==
  Applied =>
    LET d == db[report.server]
        b == report.branch
        f == report.file
    IN  /\ \A l \in LumgsOf(d, b) : d.lumg[l].name \in f.lumgs \/ l \in report.left.lumg
        /\ \A c \in CalcsOf(d, b) :
             \/ CalcKey(d, c) \in f.calcs
             \/ c \in report.left.calc
             \/ d.calc[c].lumg \in report.left.lumg
        /\ \A i \in LinesOf(d, b) :
             \/ PhysicalRef(d, i) \in f.lines
             \/ i \in report.left.line
             \/ d.line[i].calc \in report.left.calc
             \/ d.calc[d.line[i].calc].lumg \in report.left.lumg
        /\ \A i \in In(d.dpd, b) : i \in report.left.dpd \/ \E x \in f.dpd : x.name = d.dpd[i].name
        /\ \A i \in In(d.point, b) :
             \/ i \in report.left.point
             \/ \E k \in DOMAIN f.points :
                  /\ f.points[k].name = d.point[i].name
                  /\ Extends(d.point[i].history, f.points[k].history)

\* No point and no DPD line of the branch hangs from a row of another branch.
Closed(d, b) ==
  /\ \A i \in In(d.point, b) : d.point[i].line \in {Null} \cup LinesOf(d, b) \cup In(d.dpd, b)
  /\ \A i \in In(d.dpd, b) : d.dpd[i].lumg = Null \/ d.dpd[i].lumg \in LumgsOf(d, b)

\* An import touches no other branch of the server, even with a wrong choice or a
\* mapping to a foreign row.
OthersUntouched ==
  [][Applied' /\ imports' # imports =>
       \A b \in DOMAIN db[report'.server].branch \ {report'.branch} :
         Export(db'[report'.server], b) = Export(db[report'.server], b)]_transfer
=============================================================================
