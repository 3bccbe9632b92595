---------------------------- MODULE ModemArchive ----------------------------
(***************************************************************************)
(* What a modem brings into the archives: the plan names the newest hour    *)
(* stored and the holes behind it, the agent reads those hours from the     *)
(* corrector that answers and pushes them (polling_dao.archive_gaps,        *)
(* polling_agent_ep.get_plan and push_data).  A site's readings are kept    *)
(* under the corrector, a DPD line's under the line.                        *)
(*                                                                         *)
(* The register is read twice for a batch and nothing holds it still in     *)
(* between: the serial is compared first, the archive is chosen afterwards. *)
(* A batch without a serial, or for a place nothing is entered for, is not  *)
(* compared at all.                                                        *)
(*                                                                         *)
(* Moments are hours.  A corrector keeps its last hours wherever it stands; *)
(* it is moved, and the move is registered when somebody gets to it.  The   *)
(* agent is outside of the repository: it is what its plan and the manual   *)
(* (docs/gsm-polling.md) say of it.                                         *)
(***************************************************************************)
EXTENDS Integers, FiniteSets, FiniteSetsExt

CONSTANTS
  Meters,      \* correctors
  Site, Line,  \* an enterprise and a DPD line, each with a modem
  Elsewhere,   \* wherever else a corrector may stand
  Standing,    \* where each corrector stands first
  Telling,     \* correctors that say where their own archive starts
  Nobody,      \* no corrector, no call, no batch
  Nowhere,     \* an hour a corrector does not hold
  Depth,       \* hours a corrector keeps
  HoursBack,   \* GAP_HOURS_BACK
  Horizon,     \* the last moment
  MaxMoves,    \* bound on the moves of correctors
  MaxTroubles  \* bound on lost records, cut calls, hours not recorded, rows from the DPD API,
               \* answers without a serial and correctors taken out of the register

VARIABLES
  now,
  stands,      \* where each corrector stands
  ring,        \* for each corrector and hour, where it recorded that hour
  arrived,     \* when the corrector that stands at a place came
  registered,  \* what is entered for a place: a corrector, if any, and installed_from
  rows,        \* the hourly archives, of correctors and of the line
  call,        \* the call of the agent's modem
  push,        \* the batch whose serial has been compared and which is not stored yet
  moves, troubles,
  returned,    \* history: the correctors that were back at a place before anybody entered that they had left
  unchecked    \* history: the line was called with nothing entered for it, or answered without a serial

vars == <<now, stands, ring, arrived, registered, rows, call, push, moves, troubles, returned, unchecked>>

Places   == {Site, Line}
Archives == Meters \cup {Line}
Hours    == 0 .. Horizon - 1
NoHour   == -1

ASSUME ArchiveAssumption ==
  /\ Standing \in [Meters -> Places \cup {Elsewhere}]
  /\ \A p \in Places : \E d \in Meters : {x \in Meters : Standing[x] = p} = {d}
  /\ Depth \in Nat \ {0}
  /\ HoursBack \in Nat /\ HoursBack >= Depth
  /\ Horizon \in Nat
  /\ Site # Line /\ Elsewhere \notin Places
  /\ Line \notin Meters /\ Nobody \notin Meters
  /\ Nowhere \notin Places \cup {Elsewhere}

Row   == [of : Meters, at : Places \cup {Elsewhere}, source : {"gsm", "dpd"}, hole : BOOLEAN]
NoRow == [of |-> Nobody]

Batch == [hour : Hours, of : Meters, at : Places \cup {Elsewhere}, hole : BOOLEAN,
          seen : Meters \cup {Nobody}]

TypeOK ==
  /\ now \in 0 .. Horizon
  /\ stands \in [Meters -> Places \cup {Elsewhere}]
  /\ ring \in [Meters -> [Hours -> Places \cup {Elsewhere, Nowhere}]]
  /\ arrived \in [Places -> 0 .. Horizon]
  /\ registered \in [Places -> [device : Meters \cup {Nobody}, from : 0 .. Horizon]]
  /\ rows \in [Archives -> [Hours -> Row \cup {NoRow}]]
  /\ returned \subseteq Meters /\ unchecked \in BOOLEAN
  /\ push \in Batch \cup {Nobody}
  /\ call # Nobody => call.place \in Places /\ call.new \cup call.holes \subseteq Hours

At(p) == CHOOSE d \in Meters : stands[d] = p

Init ==
  /\ now = 0
  /\ stands = Standing
  /\ ring = [d \in Meters |-> [h \in Hours |-> Nowhere]]
  /\ arrived = [p \in Places |-> 0]
  /\ registered = [p \in Places |-> [device |-> CHOOSE d \in Meters : Standing[d] = p, from |-> 0]]
  /\ rows = [k \in Archives |-> [h \in Hours |-> NoRow]]
  /\ call = Nobody /\ push = Nobody
  /\ moves = 0 /\ troubles = 0
  /\ returned = {} /\ unchecked = FALSE

Trouble == troubles < MaxTroubles /\ troubles' = troubles + 1

\* ---- The archives ------------------------------------------------------
\* The corrector a card calls today, if any: what is entered, not what stands there.
Fitted(p) == registered[p].device

archive_of_Any(p) ==  \* mutant: a line has no floor either
  IF p = Line THEN [key |-> Line, since |-> 0] ELSE [key |-> Fitted(p), since |-> 0]
archive_of(p) == IF p = Line THEN [key |-> Line, since |-> registered[p].from]
                              ELSE [key |-> Fitted(p), since |-> 0]

stored(k)  == {h \in Hours : rows[k][h] # NoRow}
oldest(k)  == Min(stored(k) \cup {Horizon})
coverage(k) == Max(stored(k) \cup {NoHour})

missing_hours(from, to, have) == (from .. to) \ have

\* The holes behind the newest hour stored.
archive_gaps_None(a, newest) == {}  \* mutant: the plan says only where the archive ends
archive_gaps(a, newest) ==
  LET floor == Max({now - HoursBack, a.since, 0})
  IN IF newest = NoHour \/ floor >= newest THEN {} ELSE missing_hours(floor, newest, stored(a.key))

\* ---- A call ------------------------------------------------------------
\* The plan of a place that is due.  Nothing is remembered from earlier calls.  A site
\* with nothing entered is not called; a line is.
get_plan(p) ==
  /\ call = Nobody /\ push = Nobody
  /\ p = Site => Fitted(p) # Nobody
  /\ LET a == archive_of(p)
     IN call' = [place |-> p, by |-> Nobody, expected |-> Fitted(p),
                 last |-> coverage(a.key), first |-> oldest(a.key),
                 new |-> {}, holes |-> archive_gaps(a, coverage(a.key))]
  /\ unchecked' = (unchecked \/ Fitted(p) = Nobody)
  /\ UNCHANGED <<now, stands, ring, arrived, registered, rows, push, moves, troubles, returned>>

\* Whichever corrector stands there answers, and says its serial or does not.  The agent
\* leaves another than it was told of, and asks one that cannot say where its archive
\* starts only for the holes between the records.
answer ==
  /\ call # Nobody
  /\ call.by = Nobody
  /\ LET d    == At(call.place)
         held == {h \in Hours : ring[d][h] # Nowhere}
     IN \E told \in BOOLEAN :
          /\ IF told THEN UNCHANGED troubles ELSE Trouble
          /\ call' = IF told /\ call.expected \notin {d, Nobody} THEN Nobody
                     ELSE [place |-> call.place, by |-> d, told |-> told,
                           new |-> {h \in held : h > call.last},
                           holes |-> {h \in call.holes \cap held : d \in Telling \/ h > call.first}]
          /\ unchecked' = (unchecked \/ (~told /\ call.place = Line))
  /\ UNCHANGED <<now, stands, ring, arrived, registered, rows, push, moves, returned>>

\* The new records first, then the holes.
Next_hour == IF call.new # {} THEN Min(call.new) ELSE Min(call.holes)

Reading == call # Nobody /\ call.by # Nobody /\ call.new \cup call.holes # {}

Asked == [call EXCEPT !.new = @ \ {Next_hour}, !.holes = @ \ {Next_hour}]

\* What is stored for an hour belongs to the modem once it has read it.
upsert_Last(old, new) == new  \* mutant: the last writer wins
upsert(old, new) == IF old = NoRow \/ old.source # "gsm" \/ new.source = "gsm" THEN new ELSE old

\* What answered must be what is entered; with no serial on either side there is nothing
\* to compare.
Expected_Any == TRUE  \* mutant: no serial is compared
Expected == call.told => Fitted(call.place) \in {call.by, Nobody}

\* The agent pushes what it has read; the serial is compared.
push_data ==
  /\ Reading
  /\ push = Nobody
  /\ IF ~Expected
     THEN call' = Nobody /\ UNCHANGED push
     ELSE LET h == Next_hour
          IN /\ push' = [hour |-> h, of |-> call.by, at |-> ring[call.by][h],
                         hole |-> call.place = Line /\ h \in call.holes, seen |-> Fitted(call.place)]
             /\ call' = Asked
  /\ UNCHANGED <<now, stands, ring, arrived, registered, rows, moves, troubles, returned, unchecked>>

\* Then the archive is chosen, by another read of the register, and the batch stored;
\* for a site nothing is entered for any more it is refused.
store_batch ==
  /\ push # Nobody
  /\ push' = Nobody
  /\ LET k == archive_of(call.place).key
     IN IF k = Nobody
        THEN call' = Nobody /\ UNCHANGED rows
        ELSE /\ rows' = [rows EXCEPT ![k][push.hour] =
                           upsert(@, [of |-> push.of, at |-> push.at, source |-> "gsm", hole |-> push.hole])]
             /\ UNCHANGED call
  /\ UNCHANGED <<now, stands, ring, arrived, registered, moves, troubles, returned, unchecked>>

\* The line swallows a record.
lose ==
  /\ Reading
  /\ push = Nobody
  /\ Trouble
  /\ call' = Asked
  /\ UNCHANGED <<now, stands, ring, arrived, registered, rows, push, moves, returned, unchecked>>

\* The call ends because everything was asked for, or is cut.
finish ==
  /\ call # Nobody
  /\ call.by # Nobody
  /\ push = Nobody
  /\ IF Reading THEN Trouble ELSE UNCHANGED troubles
  /\ call' = Nobody
  /\ UNCHANGED <<now, stands, ring, arrived, registered, rows, push, moves, returned, unchecked>>

\* ---- The rest of the world ---------------------------------------------
\* An hour passes.  Whoever is switched off does not record it, and an hour beyond the
\* depth is overwritten; what a call is in the middle of may be among them.
tick ==
  /\ now < Horizon
  /\ \E off \in {{}} \cup {{d} : d \in Meters} :
       /\ IF off # {} THEN Trouble ELSE UNCHANGED troubles
       /\ LET after == [d \in Meters |-> [h \in Hours |->
                          CASE h = now /\ d \notin off -> stands[d]
                            [] h <= now - Depth        -> Nowhere
                            [] OTHER                   -> ring[d][h]]]
          IN /\ ring' = after
             /\ call' = IF call = Nobody \/ call.by = Nobody THEN call
                        ELSE LET kept == {h \in Hours : after[call.by][h] # Nowhere}
                             IN [call EXCEPT !.new = @ \cap kept, !.holes = @ \cap kept]
  /\ now' = now + 1
  /\ UNCHANGED <<stands, arrived, registered, rows, push, moves, returned, unchecked>>

\* A corrector takes the place of another, which goes elsewhere.  What the agent had read
\* of that one by then it still pushes.
move(p) ==
  /\ moves < MaxMoves
  /\ \E d \in {x \in Meters : stands[x] = Elsewhere} :
       /\ stands' = [stands EXCEPT ![d] = p, ![At(p)] = Elsewhere]
       /\ returned' = IF Fitted(p) = d THEN returned \cup {d} ELSE returned
  /\ arrived' = [arrived EXCEPT ![p] = now]
  /\ moves' = moves + 1
  /\ UNCHANGED <<now, ring, registered, rows, call, push, troubles, unchecked>>

\* The move is entered, with its true moment.
register(p) ==
  /\ registered[p] # [device |-> At(p), from |-> arrived[p]]
  /\ registered' = [registered EXCEPT ![p] = [device |-> At(p), from |-> arrived[p]]]
  /\ UNCHANGED <<now, stands, ring, arrived, rows, call, push, moves, troubles, returned, unchecked>>

\* The corrector of a place is taken out of the register, and no other is entered yet.
take_out(p) ==
  /\ Fitted(p) # Nobody
  /\ Trouble
  /\ registered' = [registered EXCEPT ![p] = [device |-> Nobody, from |-> 0]]
  /\ UNCHANGED <<now, stands, ring, arrived, rows, call, push, moves, returned, unchecked>>

\* The refresh stores an hour of the corrector of the enterprise.
upsert_dpd ==
  /\ Fitted(Site) # Nobody
  /\ Trouble
  /\ LET d == Fitted(Site)
     IN \E h \in {x \in Hours : ring[d][x] = Site} :
          rows' = [rows EXCEPT ![d][h] = upsert(@, [of |-> d, at |-> Site, source |-> "dpd", hole |-> FALSE])]
  /\ UNCHANGED <<now, stands, ring, arrived, registered, call, push, moves, returned, unchecked>>

Next ==
  \/ \E p \in Places : get_plan(p) \/ move(p) \/ register(p) \/ take_out(p)
  \/ answer \/ push_data \/ store_batch \/ lose \/ finish
  \/ tick \/ upsert_dpd

Spec == Init /\ [][Next]_vars

\* The plan is sorted by the oldest poll, so no place that is due waits for ever; an agent
\* reads on and ends its calls.
Calling ==
  /\ \A p \in Places : SF_vars(get_plan(p))
  /\ WF_vars(answer) /\ WF_vars(push_data) /\ WF_vars(store_batch) /\ WF_vars(finish)
FairSpec == Spec /\ Calling

\* ---- Properties --------------------------------------------------------
\* The readings of a corrector get into the archive of another in one way only: the batch
\* passed the comparison of serials, as the corrector that was entered then or with
\* nothing to compare, and the register was edited before the archive was chosen.  No
\* plan, move or late entry brings it about, and no batch compared with another
\* corrector's serial is stored.
MisfiledOnlyBetweenTheReads ==
  [][\A d \in Meters, h \in Hours :
       rows'[d][h] # rows[d][h] /\ rows'[d][h].of # d =>
         /\ push # Nobody /\ push.hour = h /\ push.of = rows'[d][h].of
         /\ call.told => push.seen \in {push.of, Nobody}]_vars

\* An hour the modem has read is not taken over by the refresh.
FromModem(row) == row # NoRow /\ row.source = "gsm"
ModemIsTheTruth == [][\A d \in Meters, h \in Hours : FromModem(rows[d][h]) => FromModem(rows'[d][h])]_vars

\* A hole filled in a line's archive is filled with what was recorded on the line, and
\* with nothing the corrector brought along, as long as whoever answered on the line was
\* compared with an entry; but the register cannot tell the hours of an absence nobody
\* entered.
HolesAreTheLines ==
  \A h \in Hours : rows[Line][h] # NoRow /\ rows[Line][h].hole =>
    rows[Line][h].at = Line \/ rows[Line][h].of \in returned \/ unchecked

\* No hour the corrector of a place recorded there since it was installed and still holds
\* stays unread for ever: a record lost behind newer ones is read by a later call.  A corrector that does not tell
\* where its archive starts is asked for what lies between records.
Unread(p, h) ==
  LET d == Fitted(p)
      k == archive_of(p).key
  IN /\ d # Nobody /\ stands[d] = p /\ ring[d][h] = p /\ h >= archive_of(p).since
     /\ d \in Telling \/ h > oldest(k)
     /\ rows[k][h] = NoRow

EveryHourIsRead == \A p \in Places, h \in Hours : []<>~Unread(p, h)
=============================================================================
