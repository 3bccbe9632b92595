---------------------------- MODULE PollSession ----------------------------
(***************************************************************************)
(* GSM polling: the cards (poll_device rows) that several agents share.     *)
(*                                                                         *)
(* An agent fetches a plan, takes a card with /start, reads the meter over  *)
(* its modem while it pushes /log and /data, and closes with /finish.       *)
(* Operators ask for a poll or cancel one from the browser.  Every handler  *)
(* is an async transaction: it loads the card, awaits, and commits only the *)
(* columns whose value differs from the one it loaded (SQLAlchemy's unit of *)
(* work), so a handler is a Read step and a Commit step, and handlers of    *)
(* different clients interleave between the two.  A `worker` is one such    *)
(* open transaction.                                                        *)
(*                                                                         *)
(* Time is kept as ages: polling_since and cancel_requested_at count the    *)
(* ticks since they were stamped, saturating just past the limit they are   *)
(* compared with.  A tick is minutes long: no handler stays open across one *)
(* and no plan is carried across one (plans are fetched every few seconds). *)
(***************************************************************************)
EXTENDS Naturals, FiniteSets

CONSTANTS
  Agents,         \* poll_agent rows, each with one modem
  Cards,          \* poll_device rows
  Workers,        \* transactions that may be open at once
  Null,           \* SQL NULL / nobody / nothing
  ClaimTimeout,   \* CLAIM_TIMEOUT, in ticks
  CancelWindow,   \* CANCEL_WINDOW, in ticks
  Overrunners,    \* agents whose calls may outlive ClaimTimeout
  MaxDisruptions  \* bound on crashes and on changes made to the fleet

ASSUME TimesAssumption ==
  /\ ClaimTimeout \in Nat \ {0}
  /\ CancelWindow \in Nat \ {0}
  /\ MaxDisruptions \in Nat

ASSUME NamesAssumption ==
  /\ Overrunners \subseteq Agents
  /\ Null \notin Agents \cup Cards \cup Nat

VARIABLES
  polling_agent_id,     \* who holds the card, or Null
  polling_since,        \* age of the claim, or Null
  cancel_requested_at,  \* age of the stop flag, or Null
  manual_requested_at,  \* "none", or whether it is "newer" or "older" than last_poll_at
  slotDue,              \* is_due apart from its manual branch
  account,              \* "active", "inactive" or "deleted"
  assigned,             \* poll_agent_device, by agent
  plan,                 \* cards the agent's last plan offered and it has not tried
  line,                 \* the card the agent's modem is on, or Null
  lineAge,              \* ticks since the agent was told the card is its
  tx,                   \* open transactions
  disruptions,
  \* history, read by no action's guard
  claimer,              \* the agent whose claim succeeded last
  early,                \* transactions that passed their check before another claim of the card
  overran,              \* some call has outlived its claim
  takenBack             \* the operators' last word was to take a waiting request back

row   == <<polling_agent_id, polling_since, cancel_requested_at,
           manual_requested_at, slotDue>>
fleet == <<account, assigned, disruptions>>
agent == <<plan, line, lineAge>>
ghost == <<claimer, early, overran, takenBack>>
vars  == <<row, fleet, agent, tx, ghost>>

AgentOps    == {"withdrawn", "expired", "claim", "data", "finish"}
OperatorOps == {"poll", "unrequest", "cancel"}
Ops         == {"closed"} \cup AgentOps \cup OperatorOps

\* An open transaction: the handler, whose call it is (Null: an operator's), the
\* card, whether the caller still waits for the answer, and those columns of the
\* card it loaded that the handler goes on to use.
Transaction ==
  {t \in [op : Ops, agent : Agents \cup {Null}, card : Cards \cup {Null},
          heard : BOOLEAN, ok : BOOLEAN, holder : Agents \cup {Null},
          since : BOOLEAN, cancel : BOOLEAN, requested : BOOLEAN] :
     /\ t.op # "closed" => t.card \in Cards
     /\ t.op \in AgentOps => t.agent \in Agents}

Call(op, a, c) ==
  [op |-> op, agent |-> a, card |-> c, heard |-> a # Null, ok |-> FALSE,
   holder |-> Null, since |-> FALSE, cancel |-> FALSE, requested |-> FALSE]

Closed == Call("closed", Null, Null)

Ages(limit) == 0 .. limit + 1

TypeOK ==
  /\ polling_agent_id \in [Cards -> Agents \cup {Null}]
  /\ polling_since \in [Cards -> Ages(ClaimTimeout) \cup {Null}]
  /\ cancel_requested_at \in [Cards -> Ages(CancelWindow) \cup {Null}]
  /\ manual_requested_at \in [Cards -> {"none", "newer", "older"}]
  /\ slotDue \in [Cards -> BOOLEAN]
  /\ account \in [Agents -> {"active", "inactive", "deleted"}]
  /\ assigned \in [Agents -> SUBSET Cards]
  /\ plan \in [Agents -> SUBSET Cards]
  /\ line \in [Agents -> Cards \cup {Null}]
  /\ lineAge \in [Agents -> Ages(ClaimTimeout)]
  /\ tx \in [Workers -> Transaction]
  /\ disruptions \in 0 .. MaxDisruptions
  /\ claimer \in [Cards -> Agents \cup {Null}]
  /\ early \subseteq Workers
  /\ overran \in BOOLEAN
  /\ takenBack \in [Cards -> BOOLEAN]

Init ==
  /\ polling_agent_id = [c \in Cards |-> Null]
  /\ polling_since = [c \in Cards |-> Null]
  /\ cancel_requested_at = [c \in Cards |-> Null]
  /\ manual_requested_at = [c \in Cards |-> "none"]
  /\ slotDue = [c \in Cards |-> FALSE]
  /\ account = [a \in Agents |-> "active"]
  /\ assigned = [a \in Agents |-> Cards]
  /\ plan = [a \in Agents |-> {}]
  /\ line = [a \in Agents |-> Null]
  /\ lineAge = [a \in Agents |-> 0]
  /\ tx = [w \in Workers |-> Closed]
  /\ disruptions = 0
  /\ claimer = [c \in Cards |-> Null]
  /\ early = {}
  /\ overran = FALSE
  /\ takenBack = [c \in Cards |-> FALSE]

-----------------------------------------------------------------------------
(* Helpers *)

Requested(c) == manual_requested_at[c] # "none"
Flagged(c)   == cancel_requested_at[c] # Null

Open(w, t) == tx[w].op = "closed" /\ tx' = [tx EXCEPT ![w] = t]
Close(w)   == tx' = [tx EXCEPT ![w] = Closed]

\* The agent is in the middle of an HTTP call of its own.
Waiting(a) == \E w \in Workers : tx[w].agent = a /\ tx[w].heard

claim_is_live(c) ==
  /\ polling_agent_id[c] # Null
  /\ polling_since[c] # Null
  /\ polling_since[c] < ClaimTimeout

Claimable_Early(c) ==  \* mutant: the claim runs out one tick early
  polling_since[c] # Null => polling_since[c] >= ClaimTimeout
Claimable_Unheld(c) ==  \* mutant: the holder decides, not the time
  polling_agent_id[c] = Null

\* claim's WHERE clause: only the time of the claim counts.
Claimable(c) == polling_since[c] # Null => polling_since[c] > ClaimTimeout

\* The manual branch of is_due, then the schedule's own answer.
Due(c) == manual_requested_at[c] = "newer" \/ slotDue[c]

Admitted_Anyone(a, c) ==  \* mutant: whoever holds the card
  account[a] = "active" /\ c \in assigned[a]

\* _agent_card: 401, 404 and 403 aside, the card is held by the caller or by nobody.
Admitted(a, c) ==
  /\ account[a] = "active"
  /\ c \in assigned[a]
  /\ polling_agent_id[c] \in {Null, a}

-----------------------------------------------------------------------------
(* The agent's calls *)

get_plan(a) ==
  /\ account[a] = "active" /\ line[a] = Null /\ ~Waiting(a)
  /\ plan' = [plan EXCEPT ![a] =
       {c \in assigned[a] : Due(c) /\ (polling_agent_id[c] = a \/ ~claim_is_live(c))}]
  /\ UNCHANGED <<row, fleet, line, lineAge, tx, ghost>>

\* start_session up to the point where it knows whether a flag is in the way.
start_read(a, w, c) ==
  /\ c \in plan[a] /\ line[a] = Null /\ ~Waiting(a)
  /\ plan' = [plan EXCEPT ![a] = @ \ {c}]
  /\ IF account[a] = "active" /\ c \in assigned[a]
     THEN Open(w, Call(
            IF polling_agent_id[c] # Null \/ ~Flagged(c)
              THEN "claim"
              ELSE IF cancel_requested_at[c] < CancelWindow
                THEN "withdrawn" ELSE "expired", a, c))
     ELSE tx' = tx
  /\ UNCHANGED <<row, fleet, line, lineAge, ghost>>

\* The flag is spent by whoever meets it; only a fresh one refuses the call.
start_clear(w) ==
  LET t == tx[w] IN
  /\ t.op \in {"withdrawn", "expired"}
  /\ cancel_requested_at' = [cancel_requested_at EXCEPT ![t.card] = Null]
  /\ IF t.op = "withdrawn" THEN Close(w)
                           ELSE tx' = [tx EXCEPT ![w].op = "claim"]
  /\ UNCHANGED <<polling_agent_id, polling_since, manual_requested_at, slotDue,
                 fleet, agent, ghost>>

\* The UPDATE ... WHERE that settles who dials; a deleted agent fails the
\* foreign key, and an agent that has crashed never hears the answer.
claim(w) ==
  LET t == tx[w]  a == t.agent  c == t.card IN
  /\ t.op = "claim"
  /\ Close(w)
  /\ \/ /\ Claimable(c) /\ account[a] # "deleted"
        /\ polling_agent_id' = [polling_agent_id EXCEPT ![c] = a]
        /\ polling_since' = [polling_since EXCEPT ![c] = 0]
        /\ line' = IF t.heard THEN [line EXCEPT ![a] = c] ELSE line
        /\ lineAge' = IF t.heard THEN [lineAge EXCEPT ![a] = 0] ELSE lineAge
        /\ claimer' = [claimer EXCEPT ![c] = a]
        /\ early' = early \cup {v \in Workers : tx[v].op \in {"data", "finish"} /\ tx[v].card = c}
     \/ /\ ~(Claimable(c) /\ account[a] # "deleted")
        /\ UNCHANGED <<polling_agent_id, polling_since, line, lineAge, claimer, early>>
  /\ UNCHANGED <<cancel_requested_at, manual_requested_at, slotDue, fleet, plan, overran, takenBack>>

HangUp(a) ==
  /\ line' = [line EXCEPT ![a] = Null]
  /\ lineAge' = [lineAge EXCEPT ![a] = 0]

\* push_log: the one answer that changes anything is a refusal, on which the
\* agent hangs up.  Told to stop, it goes on to finish_session like any call.
push_log_refused(a) ==
  /\ line[a] # Null /\ ~Waiting(a)
  /\ ~Admitted(a, line[a])
  /\ HangUp(a)
  /\ UNCHANGED <<row, fleet, plan, tx, ghost>>

\* push_data: the card is checked, then the readings are resolved and stored.
push_data_read(a, w) ==
  /\ line[a] # Null /\ ~Waiting(a)
  /\ Admitted(a, line[a])
  /\ Open(w, Call("data", a, line[a]))
  /\ UNCHANGED <<row, fleet, agent, ghost>>

push_data_commit(w) ==
  /\ tx[w].op = "data"
  /\ Close(w)
  /\ early' = early \ {w}
  /\ UNCHANGED <<row, fleet, agent, claimer, overran, takenBack>>

\* finish_session: the phone is down before it is called, whether the call ran
\* to its end or push_log's answer told the agent to stop.
finish_read(a, w, ok) ==
  /\ line[a] # Null /\ ~Waiting(a)
  /\ Admitted(a, line[a])
  /\ LET c == line[a] IN
     Open(w, [Call("finish", a, c) EXCEPT
       !.ok = ok, !.holder = polling_agent_id[c], !.since = polling_since[c] # Null,
       !.cancel = Flagged(c), !.requested = Requested(c)])
  /\ HangUp(a)
  /\ UNCHANGED <<row, fleet, plan, ghost>>

\* PollingDao.release: each column is written only where it differs from the
\* value the handler loaded.
release(t) ==
  /\ polling_agent_id' = [polling_agent_id EXCEPT ![t.card] =
       IF t.holder # Null THEN Null ELSE @]
  /\ polling_since' = [polling_since EXCEPT ![t.card] = IF t.since THEN Null ELSE @]
  /\ cancel_requested_at' = [cancel_requested_at EXCEPT ![t.card] =
       IF t.cancel THEN Null ELSE @]

\* PollingDao.finish: any outcome answers the request the handler loaded;
\* last_poll_at moves on success, past a request committed since.
finish_commit(w) ==
  LET t == tx[w]  c == t.card IN
  /\ t.op = "finish"
  /\ Close(w)
  /\ \/ /\ account[t.agent] # "deleted"
        /\ release(t)
        /\ manual_requested_at' = [manual_requested_at EXCEPT ![c] =
             IF t.requested THEN "none"
             ELSE IF t.ok /\ @ = "newer" THEN "older" ELSE @]
        /\ slotDue' = [slotDue EXCEPT ![c] = FALSE]
     \/ /\ account[t.agent] = "deleted"
        /\ UNCHANGED row
  /\ early' = early \ {w}
  /\ UNCHANGED <<fleet, agent, claimer, overran, takenBack>>

-----------------------------------------------------------------------------
(* The operators' calls *)

operator_read(w, c) ==
  /\ \/ Open(w, [Call("poll", Null, c) EXCEPT !.cancel = Flagged(c)])
     \/ Open(w, [Call("unrequest", Null, c) EXCEPT !.requested = Requested(c)])
     \/ Open(w, [Call("cancel", Null, c) EXCEPT
          !.holder = polling_agent_id[c], !.requested = Requested(c)])
  /\ UNCHANGED <<row, fleet, agent, ghost>>

\* request_poll and poll_enterprise, through PollingDao.request_manual.
request_manual(w) ==
  LET t == tx[w]  c == t.card IN
  /\ t.op = "poll"
  /\ Close(w)
  /\ manual_requested_at' = [manual_requested_at EXCEPT ![c] = "newer"]
  /\ cancel_requested_at' = [cancel_requested_at EXCEPT ![c] =
       IF t.cancel THEN Null ELSE @]
  /\ takenBack' = [takenBack EXCEPT ![c] = FALSE]
  /\ UNCHANGED <<polling_agent_id, polling_since, slotDue, fleet, agent, claimer, early, overran>>

\* request_poll with cancel=true: the request alone, no flag.
cancel_manual(w) ==
  LET t == tx[w]  c == t.card IN
  /\ t.op = "unrequest"
  /\ Close(w)
  /\ manual_requested_at' = [manual_requested_at EXCEPT ![c] =
       IF t.requested THEN "none" ELSE @]
  /\ UNCHANGED <<polling_agent_id, polling_since, cancel_requested_at, slotDue,
                 fleet, agent, ghost>>

\* cancel_enterprise_poll: "asked" when somebody holds the card, "queued" when
\* a request waits, otherwise "idle".
cancel_enterprise_poll(w) ==
  LET t == tx[w]  c == t.card IN
  /\ t.op = "cancel"
  /\ Close(w)
  /\ IF t.holder = Null /\ ~t.requested
     THEN UNCHANGED <<cancel_requested_at, manual_requested_at, takenBack>>
     ELSE /\ cancel_requested_at' = [cancel_requested_at EXCEPT ![c] = 0]
          /\ manual_requested_at' = [manual_requested_at EXCEPT ![c] =
               IF t.holder = Null THEN "none" ELSE @]
          /\ takenBack' = [takenBack EXCEPT ![c] = (t.holder = Null)]
  /\ UNCHANGED <<polling_agent_id, polling_since, slotDue, fleet, agent, claimer, early, overran>>

-----------------------------------------------------------------------------
(* What happens to the fleet *)

Disrupt == disruptions < MaxDisruptions /\ disruptions' = disruptions + 1

\* The workstation is switched off mid-anything and comes back knowing nothing;
\* transactions it had opened run on in the server.
crash(a) ==
  /\ Disrupt
  /\ line[a] # Null \/ Waiting(a)
  /\ plan' = [plan EXCEPT ![a] = {}]
  /\ HangUp(a)
  /\ tx' = [w \in Workers |-> IF tx[w].agent = a
                              THEN [tx[w] EXCEPT !.heard = FALSE] ELSE tx[w]]
  /\ UNCHANGED <<row, account, assigned, ghost>>

\* delete_agent: ON DELETE SET NULL clears the holder and leaves polling_since.
delete_agent(a) ==
  /\ Disrupt
  /\ account[a] # "deleted"
  /\ account' = [account EXCEPT ![a] = "deleted"]
  /\ assigned' = [assigned EXCEPT ![a] = {}]
  /\ polling_agent_id' = [c \in Cards |->
       IF polling_agent_id[c] = a THEN Null ELSE polling_agent_id[c]]
  /\ UNCHANGED <<polling_since, cancel_requested_at, manual_requested_at, slotDue,
                 agent, tx, ghost>>

\* update_agent: the key stops, or starts, being accepted.
update_agent(a) ==
  /\ Disrupt
  /\ account[a] # "deleted"
  /\ account' = [account EXCEPT ![a] = IF @ = "active" THEN "inactive" ELSE "active"]
  /\ UNCHANGED <<row, assigned, agent, tx, ghost>>

\* set_agent_devices and set_device_agents.
set_agent_devices(a) ==
  /\ Disrupt
  /\ account[a] # "deleted"
  /\ \E s \in SUBSET Cards : s # assigned[a] /\ assigned' = [assigned EXCEPT ![a] = s]
  /\ UNCHANGED <<row, account, agent, tx, ghost>>

\* A slot passes, or the pause after a failure does.
slot_arrives(c) ==
  /\ ~slotDue[c]
  /\ slotDue' = [slotDue EXCEPT ![c] = TRUE]
  /\ UNCHANGED <<polling_agent_id, polling_since, cancel_requested_at,
                 manual_requested_at, fleet, agent, tx, ghost>>

Older(age, limit) == IF age = Null \/ age > limit THEN age ELSE age + 1

tick ==
  /\ \A w \in Workers : tx[w].op = "closed"
  /\ \A a \in Agents \ Overrunners : line[a] # Null => lineAge[a] < ClaimTimeout
  /\ polling_since' = [c \in Cards |-> Older(polling_since[c], ClaimTimeout)]
  /\ cancel_requested_at' = [c \in Cards |-> Older(cancel_requested_at[c], CancelWindow)]
  /\ lineAge' = [a \in Agents |-> IF line[a] = Null THEN lineAge[a]
                                  ELSE Older(lineAge[a], ClaimTimeout)]
  /\ plan' = [a \in Agents |-> {}]
  /\ overran' = (overran \/ \E a \in Agents : line[a] # Null /\ lineAge[a] >= ClaimTimeout)
  /\ UNCHANGED <<polling_agent_id, manual_requested_at, slotDue, fleet, line, tx, claimer, early, takenBack>>

-----------------------------------------------------------------------------

Commit(w) ==
  \/ start_clear(w) \/ claim(w) \/ push_data_commit(w) \/ finish_commit(w)
  \/ request_manual(w) \/ cancel_manual(w) \/ cancel_enterprise_poll(w)

Next ==
  \/ \E a \in Agents : get_plan(a) \/ push_log_refused(a)
  \/ \E a \in Agents, w \in Workers, c \in Cards : start_read(a, w, c)
  \/ \E a \in Agents, w \in Workers : push_data_read(a, w)
  \/ \E a \in Agents, w \in Workers, ok \in BOOLEAN : finish_read(a, w, ok)
  \/ \E w \in Workers, c \in Cards : operator_read(w, c)
  \/ \E w \in Workers : Commit(w)
  \/ \E a \in Agents : crash(a) \/ delete_agent(a) \/ update_agent(a)
                       \/ set_agent_devices(a)
  \/ \E c \in Cards : slot_arrives(c)
  \/ tick

Spec == Init /\ [][Next]_vars

\* Agents keep asking for the plan, take what it offers and end their calls; the
\* server completes what it began; time passes.  Strong fairness where a step
\* waits for a free transaction, which others may keep taking in between.
Fairness ==
  /\ \A a \in Agents :
       /\ WF_vars(get_plan(a))
       /\ WF_vars(push_log_refused(a))
       /\ SF_vars(\E w \in Workers, c \in Cards : start_read(a, w, c))
       /\ SF_vars(\E w \in Workers, ok \in BOOLEAN : finish_read(a, w, ok))
  /\ \A w \in Workers : WF_vars(Commit(w))
  /\ SF_vars(tick)

FairSpec == Spec /\ Fairness

-----------------------------------------------------------------------------
(* Properties *)

\* No two modems dial one site: the claim settles which of the agents that
\* both found a card due is the one to call (start_session, claim).  Nothing renews
\* a claim, so this is so until a call outlives the one it began with.
OneCallPerCard ==
  ~overran => \A a, b \in Agents : a # b /\ line[a] # Null => line[a] # line[b]

\* An agent whose card has passed to another stops: while the other holds it, all it
\* still gets in is the one call of its own that was past the check when the card was
\* claimed.  Whatever it sends afterwards is refused (_agent_card).
Late(w) ==
  /\ tx[w].op \in {"data", "finish"}
  /\ polling_agent_id[tx[w].card] \notin {tx[w].agent, Null}
LoserStops ==
  \A w \in Workers : Late(w) =>
    /\ w \in early
    /\ tx[w].heard => \A v \in early : tx[v].heard /\ tx[v].agent = tx[w].agent => v = w

\* A holder is one whose claim can run out: until a call outlives its claim, no
\* interleaving of claims, releases and deletions leaves a card held with no polling_since.
HolderHasSince ==
  \A c \in Cards : polling_agent_id[c] # Null => polling_since[c] # Null

\* Why these hold until a call outlives its claim.  A call in progress still owns the claim it began with.
CallOwnsClaim ==
  \A a \in Agents : line[a] # Null =>
    LET c == line[a] IN
    /\ claimer[c] = a
    /\ polling_since[c] = lineAge[a] /\ lineAge[a] <= ClaimTimeout
    /\ polling_agent_id[c] \in {a, Null}

\* So does an open push_data or finish_session, and if anybody is on the line
\* to its card it is the agent waiting for that very push_data.
TxOwnsClaim ==
  \A w \in Workers : tx[w].op \in {"data", "finish"} =>
    LET t == tx[w]  c == t.card IN
    /\ claimer[c] = t.agent
    /\ polling_since[c] # Null /\ polling_since[c] <= ClaimTimeout
    /\ t.op = "finish" => t.since /\ polling_agent_id[c] \in {t.holder, Null}
    /\ \A a \in Agents : line[a] = c => t.op = "data" /\ t.heard /\ t.agent = a

TxDistinct ==
  \A v, w \in Workers :
    v # w /\ tx[v].op \in {"data", "finish"} /\ tx[w].op \in {"data", "finish"}
      => tx[v].card # tx[w].card

\* An agent starting a call is not on another one, and waits for one answer.
StartAlone ==
  \A w \in Workers :
    tx[w].op \in {"withdrawn", "expired", "claim"} /\ tx[w].heard
      => line[tx[w].agent] = Null

OneAnswer ==
  \A v, w \in Workers :
    tx[v].heard /\ tx[w].heard /\ tx[v].agent = tx[w].agent => v = w

SessionInv ==
  /\ TypeOK /\ CallOwnsClaim /\ TxOwnsClaim /\ TxDistinct /\ StartAlone
  /\ OneAnswer /\ HolderHasSince

\* A call begun on a withdrawn request is one the agent is going to be told to
\* drop: it carried the request past the withdrawal, but the flag is still up
\* (cancel_enterprise_poll, start_session).
WithdrawnIsNotDialled ==
  \A c \in Cards, a \in Agents :
    takenBack[c] /\ ~slotDue[c] /\ line[a] = c => Flagged(c)

\* A request that stands is one the plan offers (request_manual, is_due).
StandingRequestIsDue == \A c \in Cards : manual_requested_at[c] # "older"

\* Nobody is at work who may poll the card.
Unattended(c) == \A a \in Agents : account[a] # "active" \/ c \notin assigned[a]

\* While an agent that may poll the card is at work, a request is answered by a
\* finished call or withdrawn: no crash holds the card for good (claim).
RequestAnswered ==
  \A c \in Cards :
    manual_requested_at[c] = "newer" ~> manual_requested_at[c] # "newer" \/ Unattended(c)

\* A missing agent loses nothing: a card the schedule calls due stays due, and
\* one of the agents left polls it, unless operators go on raising the stop flag
\* (poll_schedule).
SlotAnswered ==
  \A c \in Cards : slotDue[c] ~> ~slotDue[c] \/ Unattended(c) \/ Flagged(c)
=============================================================================
