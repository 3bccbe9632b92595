------------------------- MODULE PollSession_proofs -------------------------
(***************************************************************************)
(* What holds of the card protocol for any fleet, any number of open        *)
(* transactions and any time limits.                                        *)
(***************************************************************************)
EXTENDS PollSession, TLAPS

(* ---- Types ---- *)

LEMMA OlderType ==
  ASSUME NEW limit \in Nat, NEW age \in Ages(limit) \cup {Null}
  PROVE  /\ Older(age, limit) \in Ages(limit) \cup {Null}
         /\ age # Null => Older(age, limit) \in Ages(limit)
BY NamesAssumption DEF Older, Ages

\* Opening and closing a transaction keeps the set of them well formed.
LEMMA OpenType ==
  ASSUME TypeOK, NEW w \in Workers, NEW t \in Transaction, Open(w, t)
  PROVE  tx' \in [Workers -> Transaction]
BY DEF Open, TypeOK

LEMMA CallType ==
  ASSUME NEW op \in Ops, NEW a \in Agents \cup {Null}, NEW c \in Cards \cup {Null},
         op # "closed" => c \in Cards, op \in AgentOps => a \in Agents
  PROVE  Call(op, a, c) \in Transaction
BY DEF Call, Transaction

LEMMA TxFields ==
  ASSUME NEW t \in Transaction
  PROVE  /\ t.op \in Ops /\ t.agent \in Agents \cup {Null} /\ t.card \in Cards \cup {Null}
         /\ t.heard \in BOOLEAN /\ t.ok \in BOOLEAN /\ t.holder \in Agents \cup {Null}
         /\ t.since \in BOOLEAN /\ t.cancel \in BOOLEAN /\ t.requested \in BOOLEAN
         /\ t.op # "closed" => t.card \in Cards
         /\ t.op \in AgentOps => t.agent \in Agents
BY DEF Transaction

\* The changes handlers make to a transaction's record.
LEMMA TxChange ==
  ASSUME NEW t \in Transaction, NEW b \in BOOLEAN
  PROVE  /\ [t EXCEPT !.heard = b] \in Transaction
         /\ [t EXCEPT !.cancel = b] \in Transaction
         /\ [t EXCEPT !.requested = b] \in Transaction
         /\ \A h \in Agents \cup {Null} :
              [t EXCEPT !.holder = h, !.requested = b] \in Transaction
         /\ t.op \in AgentOps => [t EXCEPT !.op = "claim"] \in Transaction
<1>1. [t EXCEPT !.heard = b] \in Transaction
  BY DEF Transaction
<1>2. [t EXCEPT !.cancel = b] \in Transaction
  BY DEF Transaction
<1>3. [t EXCEPT !.requested = b] \in Transaction
  BY DEF Transaction
<1>4. ASSUME NEW h \in Agents \cup {Null}
      PROVE  [t EXCEPT !.holder = h, !.requested = b] \in Transaction
  BY DEF Transaction
<1>5. t.op \in AgentOps => [t EXCEPT !.op = "claim"] \in Transaction
  BY DEF Transaction, Ops, AgentOps
<1>6. QED
  BY <1>1, <1>2, <1>3, <1>4, <1>5

LEMMA TxFinish ==
  ASSUME NEW t \in Transaction, NEW ok \in BOOLEAN, NEW h \in Agents \cup {Null},
         NEW s \in BOOLEAN, NEW x \in BOOLEAN, NEW r \in BOOLEAN
  PROVE  [t EXCEPT !.ok = ok, !.holder = h, !.since = s, !.cancel = x,
                   !.requested = r] \in Transaction
BY DEF Transaction

LEMMA ClosedType == Closed \in Transaction
BY CallType DEF Closed, Ops, AgentOps

\* No handler, no operator and no change to the fleet leaves a column, an agent
\* or a transaction with a value outside its type.
LEMMA TypeStep ==
  ASSUME TypeOK, [Next]_vars
  PROVE  TypeOK'
<1> USE TimesAssumption
<1>1. CASE UNCHANGED vars
  BY <1>1 DEF TypeOK, vars, row, fleet, agent, ghost
<1>2. ASSUME NEW a \in Agents, get_plan(a) PROVE TypeOK'
  BY <1>2 DEF get_plan, TypeOK, row, fleet, ghost
<1>3. ASSUME NEW a \in Agents, push_log_refused(a) PROVE TypeOK'
  BY <1>3 DEF push_log_refused, HangUp, TypeOK, row, fleet, ghost, Ages
<1>4. ASSUME NEW a \in Agents, NEW w \in Workers, NEW c \in Cards, start_read(a, w, c)
      PROVE  TypeOK'
  <2>1. tx' \in [Workers -> Transaction]
    <3>1. PICK op \in Ops : Open(w, Call(op, a, c)) \/ tx' = tx
      BY <1>4 DEF start_read, Ops, AgentOps
    <3>2. Call(op, a, c) \in Transaction
      BY CallType
    <3>3. QED
      BY <3>1, <3>2, OpenType DEF TypeOK
  <2>2. QED
    BY <1>4, <2>1 DEF start_read, TypeOK, row, fleet, ghost
<1>5. ASSUME NEW a \in Agents, NEW w \in Workers, push_data_read(a, w) PROVE TypeOK'
  <2>1. line[a] \in Cards
    BY <1>5 DEF push_data_read, TypeOK
  <2>2. Call("data", a, line[a]) \in Transaction
    BY <2>1, CallType DEF Ops, AgentOps
  <2>3. tx' \in [Workers -> Transaction]
    BY <1>5, <2>2, OpenType DEF push_data_read
  <2>4. QED
    BY <1>5, <2>3 DEF push_data_read, TypeOK, row, fleet, agent, ghost
<1>6. ASSUME NEW a \in Agents, NEW w \in Workers, NEW ok \in BOOLEAN, finish_read(a, w, ok)
      PROVE  TypeOK'
  <2> DEFINE c == line[a]
             t == [Call("finish", a, c) EXCEPT
                     !.ok = ok, !.holder = polling_agent_id[c],
                     !.since = polling_since[c] # Null,
                     !.cancel = Flagged(c), !.requested = Requested(c)]
  <2>1. c \in Cards
    BY <1>6 DEF finish_read, TypeOK
  <2>2. t \in Transaction
    <3>1. Call("finish", a, c) \in Transaction
      BY <2>1, CallType DEF Ops, AgentOps
    <3>2. polling_agent_id[c] \in Agents \cup {Null}
      BY <2>1 DEF TypeOK
    <3>3. \A s, x, r \in BOOLEAN :
            [Call("finish", a, c) EXCEPT
               !.ok = ok, !.holder = polling_agent_id[c], !.since = s,
               !.cancel = x, !.requested = r] \in Transaction
      <4> DEFINE call == Call("finish", a, c)  h == polling_agent_id[c]
      <4>1. call \in Transaction /\ h \in Agents \cup {Null}
        BY <3>1, <3>2
      <4> HIDE DEF call, h
      <4>2. \A s, x, r \in BOOLEAN :
              [call EXCEPT !.ok = ok, !.holder = h, !.since = s, !.cancel = x,
                           !.requested = r] \in Transaction
        BY <4>1, TxFinish
      <4>3. QED
        BY <4>2 DEF call, h
    <3>4. PICK s, x, r \in BOOLEAN :
            s = (polling_since[c] # Null) /\ x = Flagged(c) /\ r = Requested(c)
      BY DEF Flagged, Requested
    <3>5. QED
      BY <3>3, <3>4
  <2>3. Open(w, t)
    BY <1>6 DEF finish_read
  <2>4. tx' \in [Workers -> Transaction]
    BY <2>2, <2>3, OpenType
  <2>5. QED
    BY <1>6, <2>4 DEF finish_read, HangUp, TypeOK, Ages, row, fleet, ghost
<1>7. ASSUME NEW w \in Workers, NEW c \in Cards, operator_read(w, c) PROVE TypeOK'
  <2> DEFINE poll == [Call("poll", Null, c) EXCEPT !.cancel = Flagged(c)]
             unrequest == [Call("unrequest", Null, c) EXCEPT !.requested = Requested(c)]
             cancel == [Call("cancel", Null, c) EXCEPT
                          !.holder = polling_agent_id[c], !.requested = Requested(c)]
  <2>1. poll \in Transaction /\ unrequest \in Transaction /\ cancel \in Transaction
    <3>1. \A op \in OperatorOps : Call(op, Null, c) \in Transaction
      BY CallType, NamesAssumption DEF Ops, AgentOps, OperatorOps
    <3>2. polling_agent_id[c] \in Agents \cup {Null}
      BY DEF TypeOK
    <3>3. QED
      BY <3>1, <3>2, TxChange DEF Flagged, Requested, OperatorOps
  <2>2. Open(w, poll) \/ Open(w, unrequest) \/ Open(w, cancel)
    BY <1>7 DEF operator_read
  <2>3. tx' \in [Workers -> Transaction]
    BY <2>1, <2>2, OpenType
  <2>4. QED
    BY <1>7, <2>3 DEF operator_read, TypeOK, row, fleet, agent, ghost
<1>8. ASSUME NEW w \in Workers, Commit(w) PROVE TypeOK'
  <2> DEFINE t == tx[w]
  <2>1. t \in Transaction
    BY DEF TypeOK
  <2> HIDE DEF t
  <2>2. Close(w) => tx' \in [Workers -> Transaction]
    BY ClosedType DEF Close, TypeOK
  <2>3. CASE start_clear(w)
    <3>1. [t EXCEPT !.op = "claim"] \in Transaction
      BY <2>1, <2>3, TxChange DEF start_clear, AgentOps, t
    <3>2. tx' \in [Workers -> Transaction]
      BY <2>2, <2>3, <3>1 DEF start_clear, TypeOK, t
    <3>3. QED
      BY <2>3, <3>2 DEF start_clear, TypeOK, fleet, agent, ghost
  <2>4. CASE claim(w)
    <3>1. t.agent \in Agents /\ t.card \in Cards
      BY <2>1, <2>4, TxFields DEF claim, AgentOps, t
    <3>2. tx' \in [Workers -> Transaction]
      BY <2>2, <2>4 DEF claim
    <3>3. /\ polling_agent_id' \in [Cards -> Agents \cup {Null}]
          /\ polling_since' \in [Cards -> Ages(ClaimTimeout) \cup {Null}]
      BY <2>4, <3>1 DEF claim, TypeOK, Ages, t
    <3>4. /\ line' \in [Agents -> Cards \cup {Null}]
          /\ lineAge' \in [Agents -> Ages(ClaimTimeout)]
      <4>1. \/ line' = [line EXCEPT ![t.agent] = t.card] \/ line' = line
        BY <2>4 DEF claim, t
      <4>2. \/ lineAge' = [lineAge EXCEPT ![t.agent] = 0] \/ lineAge' = lineAge
        BY <2>4 DEF claim, t
      <4>3. QED
        BY <3>1, <4>1, <4>2 DEF TypeOK, Ages
    <3>5. /\ claimer' \in [Cards -> Agents \cup {Null}]
          /\ early' \subseteq Workers /\ overran' \in BOOLEAN
          /\ takenBack' \in [Cards -> BOOLEAN]
      BY <2>4, <3>1 DEF claim, TypeOK, ghost, t
    <3>6. UNCHANGED <<cancel_requested_at, manual_requested_at, slotDue, fleet, plan>>
      BY <2>4 DEF claim
    <3>7. QED
      BY <3>2, <3>3, <3>4, <3>5, <3>6 DEF TypeOK, fleet
  <2>5. CASE push_data_commit(w)
    BY <2>2, <2>5 DEF push_data_commit, TypeOK, row, fleet, agent
  <2>6. CASE finish_commit(w)
    <3>1. /\ tx' \in [Workers -> Transaction] /\ early' \subseteq Workers
          /\ UNCHANGED <<fleet, agent, claimer, overran, takenBack>>
      BY <2>2, <2>6 DEF finish_commit, TypeOK
    <3>2. CASE UNCHANGED row
      BY <3>1, <3>2 DEF TypeOK, row, fleet, agent
    <3>3. CASE account[t.agent] # "deleted"
      <4>1. release(t)
        BY <2>6, <3>3 DEF finish_commit, t
      <4>2. /\ polling_agent_id' \in [Cards -> Agents \cup {Null}]
            /\ polling_since' \in [Cards -> Ages(ClaimTimeout) \cup {Null}]
            /\ cancel_requested_at' \in [Cards -> Ages(CancelWindow) \cup {Null}]
        BY <4>1 DEF release, TypeOK
      <4>3. manual_requested_at' \in [Cards -> {"none", "newer", "older"}]
        BY <2>6, <3>3 DEF finish_commit, TypeOK, t
      <4>4. slotDue' \in [Cards -> BOOLEAN]
        BY <2>6, <3>3 DEF finish_commit, TypeOK, t
      <4>5. QED
        BY <3>1, <4>2, <4>3, <4>4 DEF TypeOK, fleet, agent
    <3>4. QED
      BY <2>6, <3>2, <3>3 DEF finish_commit, t
  <2>7. CASE request_manual(w)
    BY <2>2, <2>7 DEF request_manual, TypeOK, fleet, agent
  <2>8. CASE cancel_manual(w)
    BY <2>2, <2>8 DEF cancel_manual, TypeOK, fleet, agent, ghost
  <2>9. CASE cancel_enterprise_poll(w)
    <3>1. t.holder \in Agents \cup {Null}
      BY <2>1, TxFields
    <3>2. takenBack' \in [Cards -> BOOLEAN]
      <4>1. ASSUME NEW b \in BOOLEAN, NEW c \in Cards
            PROVE  [takenBack EXCEPT ![c] = b] \in [Cards -> BOOLEAN]
        BY DEF TypeOK
      <4>2. \/ takenBack' = takenBack
            \/ takenBack' = [takenBack EXCEPT ![t.card] = (t.holder = Null)]
        BY <2>9 DEF cancel_enterprise_poll, t
      <4>3. (t.holder = Null) \in BOOLEAN
        OBVIOUS
      <4>4. QED
        BY <2>2, <4>1, <4>2, <4>3 DEF TypeOK
    <3>3. cancel_requested_at' \in [Cards -> Ages(CancelWindow) \cup {Null}]
      BY <2>2, <2>9 DEF cancel_enterprise_poll, TypeOK, Ages, t
    <3>4. manual_requested_at' \in [Cards -> {"none", "newer", "older"}]
      BY <2>2, <2>9 DEF cancel_enterprise_poll, TypeOK, t
    <3>5. /\ tx' \in [Workers -> Transaction]
          /\ UNCHANGED <<polling_agent_id, polling_since, slotDue, fleet, agent,
                         claimer, early, overran>>
      BY <2>2, <2>9 DEF cancel_enterprise_poll, t
    <3>6. QED
      BY <3>2, <3>3, <3>4, <3>5 DEF TypeOK, fleet, agent
  <2>10. QED
    BY <1>8, <2>3, <2>4, <2>5, <2>6, <2>7, <2>8, <2>9 DEF Commit
<1>9. ASSUME NEW a \in Agents, crash(a) PROVE TypeOK'
  <2>1. \A w \in Workers :
          IF tx[w].agent = a THEN [tx[w] EXCEPT !.heard = FALSE] \in Transaction
                             ELSE tx[w] \in Transaction
    BY TxChange DEF TypeOK
  <2>2. tx' \in [Workers -> Transaction]
    BY <1>9, <2>1 DEF crash
  <2>3. QED
    BY <1>9, <2>2 DEF crash, Disrupt, HangUp, TypeOK, row, ghost, Ages
<1>10. ASSUME NEW a \in Agents, delete_agent(a) PROVE TypeOK'
  BY <1>10 DEF delete_agent, Disrupt, TypeOK, agent, ghost
<1>11. ASSUME NEW a \in Agents, update_agent(a) PROVE TypeOK'
  BY <1>11 DEF update_agent, Disrupt, TypeOK, row, agent, ghost
<1>12. ASSUME NEW a \in Agents, set_agent_devices(a) PROVE TypeOK'
  BY <1>12 DEF set_agent_devices, Disrupt, TypeOK, row, agent, ghost
<1>13. ASSUME NEW c \in Cards, slot_arrives(c) PROVE TypeOK'
  BY <1>13 DEF slot_arrives, TypeOK, fleet, agent, ghost
<1>14. CASE tick
  <2>1. polling_since' \in [Cards -> Ages(ClaimTimeout) \cup {Null}]
    BY <1>14, OlderType DEF tick, TypeOK
  <2>2. cancel_requested_at' \in [Cards -> Ages(CancelWindow) \cup {Null}]
    BY <1>14, OlderType DEF tick, TypeOK
  <2>3. lineAge' \in [Agents -> Ages(ClaimTimeout)]
    BY <1>14, OlderType, NamesAssumption DEF tick, TypeOK, Ages
  <2>4. QED
    BY <1>14, <2>1, <2>2, <2>3 DEF tick, TypeOK, fleet
<1>15. QED
  BY <1>1, <1>2, <1>3, <1>4, <1>5, <1>6, <1>7, <1>8, <1>9, <1>10, <1>11, <1>12,
     <1>13, <1>14 DEF Next

LEMMA TypeStart == Init => TypeOK
<1>1. Init => early \subseteq Workers /\ overran \in BOOLEAN
  BY Zenon DEF Init
<1>2. QED
  BY <1>1, TimesAssumption, ClosedType DEF Init, TypeOK, Ages

\* Ages stop just past the limits they are compared with, and every transaction
\* a handler opens names the card, and the caller, its commit will use.
THEOREM TypeInvariant == Spec => []TypeOK
<1>1. TypeOK /\ [Next]_vars => TypeOK'
  BY TypeStep
<1>2. QED
  BY TypeStart, <1>1, PTL DEF Spec
-----------------------------------------------------------------------------
(* Who is on the line *)

LEMMA CallFields ==
  ASSUME NEW op, NEW a, NEW c
  PROVE  /\ Call(op, a, c).op = op /\ Call(op, a, c).agent = a
         /\ Call(op, a, c).card = c /\ Call(op, a, c).heard = (a # Null)
BY DEF Call

\* Closing a transaction that changes neither the claim nor the history.
LEMMA ClosingKeeps ==
  ASSUME SessionInv, TypeOK', NEW w \in Workers, Close(w),
         UNCHANGED <<polling_agent_id, polling_since, line, lineAge, claimer>>
  PROVE  SessionInv'
<1>1. Closed.op = "closed" /\ ~Closed.heard
  BY DEF Closed, Call
<1>2. \A v \in Workers : tx'[v] = IF v = w THEN Closed ELSE tx[v]
  BY DEF Close, SessionInv, TypeOK
<1>3. CallOwnsClaim' /\ HolderHasSince'
  BY DEF SessionInv, CallOwnsClaim, HolderHasSince
<1>4. TxOwnsClaim'
  BY <1>1, <1>2 DEF SessionInv, TxOwnsClaim
<1>5. TxDistinct' /\ StartAlone' /\ OneAnswer'
  BY <1>1, <1>2 DEF SessionInv, TxDistinct, StartAlone, OneAnswer
<1>6. QED
  BY <1>3, <1>4, <1>5 DEF SessionInv

\* Opening a transaction that will not write for a call in progress.
LEMMA OpeningKeeps ==
  ASSUME SessionInv, TypeOK', NEW w \in Workers, NEW t \in Transaction, Open(w, t),
         t.op \notin {"data", "finish"},
         t.op \in {"withdrawn", "expired", "claim"} /\ t.heard => line[t.agent] = Null,
         t.heard => ~Waiting(t.agent),
         UNCHANGED <<polling_agent_id, polling_since, line, lineAge, claimer>>
  PROVE  SessionInv'
<1>1. \A v \in Workers : tx'[v] = IF v = w THEN t ELSE tx[v]
  BY DEF Open, SessionInv, TypeOK
<1>2. CallOwnsClaim' /\ HolderHasSince'
  BY DEF SessionInv, CallOwnsClaim, HolderHasSince
<1>3. TxOwnsClaim'
  BY <1>1 DEF SessionInv, TxOwnsClaim
<1>4. TxDistinct' /\ StartAlone'
  BY <1>1 DEF SessionInv, TxDistinct, StartAlone
<1>5. OneAnswer'
  BY <1>1 DEF SessionInv, OneAnswer, Waiting
<1>6. QED
  BY <1>2, <1>3, <1>4, <1>5 DEF SessionInv

\* A modem leaving its line, with or without the server hearing of it.
LEMMA HangUpKeeps ==
  ASSUME SessionInv, TypeOK', NEW a \in Agents, HangUp(a),
         UNCHANGED <<polling_agent_id, polling_since, tx, claimer>>
  PROVE  SessionInv'
<1>1. \A b \in Agents : line'[b] # Null => b # a /\ line'[b] = line[b] /\ lineAge'[b] = lineAge[b]
  BY DEF HangUp, SessionInv, TypeOK
<1>2. CallOwnsClaim' /\ TxOwnsClaim'
  BY <1>1, NamesAssumption DEF SessionInv, CallOwnsClaim, TxOwnsClaim, TypeOK, Transaction
<1>3. TxDistinct' /\ OneAnswer' /\ HolderHasSince'
  BY DEF SessionInv, TxDistinct, OneAnswer, HolderHasSince
<1>4. StartAlone'
  BY <1>1 DEF SessionInv, StartAlone, HangUp, TypeOK
<1>5. QED
  BY <1>2, <1>3, <1>4 DEF SessionInv

\* An agent that may write is the one that claimed the card last, nobody else is
\* on its line, and no other session's transaction is open on it.
LEMMA CallerIsAlone ==
  ASSUME SessionInv, NEW a \in Agents, line[a] # Null, ~Waiting(a)
  PROVE  LET c == line[a] IN
         /\ c \in Cards
         /\ claimer[c] = a /\ polling_since[c] # Null /\ polling_since[c] <= ClaimTimeout
         /\ polling_agent_id[c] \in {a, Null}
         /\ \A b \in Agents : line[b] = c => b = a
         /\ \A v \in Workers : tx[v].op \in {"data", "finish"} => tx[v].card # c
<1> DEFINE c == line[a]
<1>1. c \in Cards
  BY DEF SessionInv, TypeOK
<1>2. /\ claimer[c] = a /\ polling_since[c] = lineAge[a] /\ lineAge[a] <= ClaimTimeout
      /\ polling_agent_id[c] \in {a, Null}
  BY DEF SessionInv, CallOwnsClaim
<1>3. polling_since[c] # Null
  BY <1>2, NamesAssumption DEF SessionInv, TypeOK, Ages
<1>4. \A b \in Agents : line[b] = c => b = a
  BY <1>1, <1>2 DEF SessionInv, CallOwnsClaim
<1>5. ASSUME NEW v \in Workers, tx[v].op \in {"data", "finish"}, tx[v].card = c
      PROVE  FALSE
  BY <1>5 DEF SessionInv, TxOwnsClaim, Waiting
<1>6. QED
  BY <1>1, <1>2, <1>3, <1>4, <1>5

LEMMA PushDataOpens ==
  ASSUME SessionInv, TypeOK', NEW a \in Agents, NEW w \in Workers, push_data_read(a, w)
  PROVE  SessionInv'
<1> DEFINE c == line[a]  t == Call("data", a, c)
<1>1. /\ c \in Cards
      /\ claimer[c] = a /\ polling_since[c] # Null /\ polling_since[c] <= ClaimTimeout
      /\ \A b \in Agents : line[b] = c => b = a
      /\ \A v \in Workers : tx[v].op \in {"data", "finish"} => tx[v].card # c
  BY CallerIsAlone DEF push_data_read
<1>2. t.op = "data" /\ t.agent = a /\ t.card = c /\ t.heard
  <2>1. a # Null
    BY NamesAssumption
  <2>2. QED
    BY <2>1 DEF Call
<1>3. UNCHANGED <<polling_agent_id, polling_since, line, lineAge, claimer>>
  BY DEF push_data_read, row, agent, ghost
<1> HIDE DEF t
<1>4. /\ ~Waiting(a)
      /\ \A v \in Workers : tx'[v] = IF v = w THEN t ELSE tx[v]
  BY DEF push_data_read, Open, SessionInv, TypeOK, t
<1>5. CallOwnsClaim' /\ HolderHasSince'
  BY <1>3 DEF SessionInv, CallOwnsClaim, HolderHasSince
<1>6. TxOwnsClaim'
  BY <1>1, <1>2, <1>3, <1>4 DEF SessionInv, TxOwnsClaim
<1>7. TxDistinct' /\ StartAlone'
  BY <1>1, <1>2, <1>3, <1>4 DEF SessionInv, TxDistinct, StartAlone
<1>8. OneAnswer'
  BY <1>2, <1>4 DEF SessionInv, OneAnswer, Waiting
<1>9. QED
  BY <1>5, <1>6, <1>7, <1>8 DEF SessionInv

LEMMA FinishOpens ==
  ASSUME SessionInv, TypeOK', NEW a \in Agents, NEW w \in Workers, NEW ok \in BOOLEAN,
         finish_read(a, w, ok)
  PROVE  SessionInv'
<1> DEFINE c == line[a]
           t == [Call("finish", a, c) EXCEPT
                   !.ok = ok, !.holder = polling_agent_id[c],
                   !.since = polling_since[c] # Null,
                   !.cancel = Flagged(c), !.requested = Requested(c)]
<1>1. /\ c \in Cards
      /\ claimer[c] = a /\ polling_since[c] # Null /\ polling_since[c] <= ClaimTimeout
      /\ \A b \in Agents : line[b] = c => b = a
      /\ \A v \in Workers : tx[v].op \in {"data", "finish"} => tx[v].card # c
  BY CallerIsAlone DEF finish_read
<1>2. /\ t.op = "finish" /\ t.agent = a /\ t.card = c /\ t.holder = polling_agent_id[c]
      /\ t.since = (polling_since[c] # Null)
  BY DEF Call
<1>3. /\ UNCHANGED <<polling_agent_id, polling_since, claimer>>
      /\ \A b \in Agents : line'[b] # Null => b # a /\ line'[b] = line[b] /\ lineAge'[b] = lineAge[b]
  BY DEF finish_read, HangUp, row, ghost, SessionInv, TypeOK
<1> HIDE DEF t
<1>4. /\ ~Waiting(a)
      /\ \A v \in Workers : tx'[v] = IF v = w THEN t ELSE tx[v]
  BY DEF finish_read, Open, SessionInv, TypeOK, t
<1>5. CallOwnsClaim' /\ HolderHasSince'
  BY <1>3 DEF SessionInv, CallOwnsClaim, HolderHasSince
<1>6. TxOwnsClaim'
  <2> SUFFICES ASSUME NEW v \in Workers, tx'[v].op \in {"data", "finish"}
               PROVE  /\ claimer[tx'[v].card] = tx'[v].agent
                      /\ polling_since[tx'[v].card] # Null
                      /\ polling_since[tx'[v].card] <= ClaimTimeout
                      /\ tx'[v].op = "finish" =>
                           /\ tx'[v].since
                           /\ polling_agent_id[tx'[v].card] \in {tx'[v].holder, Null}
                      /\ \A b \in Agents : line'[b] = tx'[v].card =>
                           tx'[v].op = "data" /\ tx'[v].heard /\ tx'[v].agent = b
    BY <1>3 DEF TxOwnsClaim
  <2>1. CASE v = w
    <3>1. tx'[v] = t
      BY <2>1, <1>4
    <3>2. \A b \in Agents : line'[b] # c
      BY <1>1, <1>3, NamesAssumption
    <3>3. t.since
      BY <1>1, <1>2
    <3>4. QED
      BY <3>1, <3>2, <3>3, <1>1, <1>2, <1>3
  <2>2. CASE v # w
    <3>1. tx'[v] = tx[v] /\ tx[v].card \in Cards
      BY <2>2, <1>4 DEF SessionInv, TypeOK, Transaction
    <3>2. QED
      BY <3>1, <1>3, NamesAssumption DEF SessionInv, TxOwnsClaim
  <2>3. QED
    BY <2>1, <2>2
<1>7. TxDistinct'
  BY <1>1, <1>2, <1>4 DEF SessionInv, TxDistinct
<1>8. StartAlone'
  <2>1. ASSUME NEW v \in Workers, tx'[v].op \in {"withdrawn", "expired", "claim"}, tx'[v].heard
        PROVE  line'[tx'[v].agent] = Null
    <3>1. tx'[v] = tx[v]
      BY <2>1, <1>2, <1>4
    <3>2. tx[v].agent \in Agents /\ line[tx[v].agent] = Null
      BY <2>1, <3>1 DEF SessionInv, StartAlone, TypeOK, Transaction, AgentOps
    <3>3. QED
      BY <3>1, <3>2, <1>3
  <2>2. QED
    BY <2>1 DEF StartAlone
<1>9. OneAnswer'
  BY <1>2, <1>4 DEF SessionInv, OneAnswer, Waiting
<1>10. QED
  BY <1>5, <1>6, <1>7, <1>8, <1>9 DEF SessionInv

\* The one step that gives a card to an agent: nobody can be on its line, and no
\* session can be about to write to it, when the claim's WHERE clause passes.
LEMMA ClaimKeeps ==
  ASSUME SessionInv, TypeOK', NEW w \in Workers, claim(w)
  PROVE  SessionInv'
<1> DEFINE t == tx[w]  a == t.agent  c == t.card
<1>1. t \in Transaction /\ t.op = "claim" /\ a \in Agents /\ c \in Cards /\ a # Null /\ c # Null
  BY NamesAssumption DEF claim, SessionInv, TypeOK, Transaction, AgentOps
<1>2. CASE UNCHANGED <<polling_agent_id, polling_since, line, lineAge, claimer>>
  BY <1>2, ClosingKeeps DEF claim
<1>3. CASE Claimable(c) /\ account[a] # "deleted"
  <2>1. /\ polling_agent_id' = [polling_agent_id EXCEPT ![c] = a]
        /\ polling_since' = [polling_since EXCEPT ![c] = 0]
        /\ claimer' = [claimer EXCEPT ![c] = a]
    BY <1>3 DEF claim
  <2>2. IF t.heard THEN line' = [line EXCEPT ![a] = c] /\ lineAge' = [lineAge EXCEPT ![a] = 0]
                   ELSE line' = line /\ lineAge' = lineAge
    BY <1>3 DEF claim
  <2>3. \A v \in Workers : tx'[v] = IF v = w THEN Closed ELSE tx[v]
    BY DEF claim, Close, SessionInv, TypeOK
  <2>4. Closed.op = "closed" /\ ~Closed.heard
    BY DEF Closed, Call
  <2>5. \A b \in Agents : line[b] # c
    <3> SUFFICES ASSUME NEW b \in Agents, line[b] = c PROVE FALSE
      OBVIOUS
    <3>1. polling_since[c] = lineAge[b] /\ lineAge[b] <= ClaimTimeout /\ lineAge[b] \in Nat
      BY <1>1 DEF SessionInv, CallOwnsClaim, TypeOK, Ages
    <3>2. polling_since[c] > ClaimTimeout
      BY <3>1, <1>3, NamesAssumption DEF Claimable
    <3>3. QED
      BY <3>1, <3>2, TimesAssumption
  <2>6. \A v \in Workers : tx[v].op \in {"data", "finish"} => tx[v].card # c
    <3> SUFFICES ASSUME NEW v \in Workers, tx[v].op \in {"data", "finish"}, tx[v].card = c
                 PROVE  FALSE
      OBVIOUS
    <3>1. polling_since[c] # Null /\ polling_since[c] <= ClaimTimeout
      BY DEF SessionInv, TxOwnsClaim
    <3>2. polling_since[c] > ClaimTimeout
      BY <3>1, <1>3 DEF Claimable
    <3>3. polling_since[c] \in Nat
      BY <1>1, <3>1, TimesAssumption DEF SessionInv, TypeOK, Ages
    <3>4. QED
      BY <3>1, <3>2, <3>3, TimesAssumption
  <2>7. t.heard => line[a] = Null
    BY <1>1 DEF SessionInv, StartAlone
  <2>8. \A b \in Agents : line'[b] # Null =>
          \/ line'[b] = line[b] /\ lineAge'[b] = lineAge[b] /\ line[b] # c
          \/ b = a /\ line'[b] = c /\ lineAge'[b] = 0
    BY <1>1, <2>2, <2>5 DEF SessionInv, TypeOK
  <2> HIDE DEF t, a, c
  <2>9. CallOwnsClaim'
    <3> SUFFICES ASSUME NEW b \in Agents, line'[b] # Null
                 PROVE  /\ claimer'[line'[b]] = b
                        /\ polling_since'[line'[b]] = lineAge'[b]
                        /\ lineAge'[b] <= ClaimTimeout
                        /\ polling_agent_id'[line'[b]] \in {b, Null}
      BY DEF CallOwnsClaim
    <3>1. CASE b = a /\ line'[b] = c /\ lineAge'[b] = 0
      BY <3>1, <1>1, <2>1, TimesAssumption DEF SessionInv, TypeOK
    <3>2. CASE line'[b] = line[b] /\ lineAge'[b] = lineAge[b] /\ line[b] # c
      BY <3>2, <1>1, <2>1 DEF SessionInv, TypeOK, CallOwnsClaim
    <3>3. QED
      BY <3>1, <3>2, <2>8
  <2>10. TxOwnsClaim'
    <3> SUFFICES ASSUME NEW v \in Workers, tx'[v].op \in {"data", "finish"}
                 PROVE  /\ claimer'[tx'[v].card] = tx'[v].agent
                        /\ polling_since'[tx'[v].card] # Null
                        /\ polling_since'[tx'[v].card] <= ClaimTimeout
                        /\ tx'[v].op = "finish" =>
                             /\ tx'[v].since
                             /\ polling_agent_id'[tx'[v].card] \in {tx'[v].holder, Null}
                        /\ \A b \in Agents : line'[b] = tx'[v].card =>
                             tx'[v].op = "data" /\ tx'[v].heard /\ tx'[v].agent = b
      BY DEF TxOwnsClaim
    <3>1. tx'[v] = tx[v] /\ tx[v].card # c /\ tx[v].card \in Cards
      BY <2>3, <2>4, <2>6 DEF SessionInv, TypeOK, Transaction
    <3>2. /\ claimer'[tx[v].card] = claimer[tx[v].card]
          /\ polling_since'[tx[v].card] = polling_since[tx[v].card]
          /\ polling_agent_id'[tx[v].card] = polling_agent_id[tx[v].card]
      BY <3>1, <2>1, <1>1 DEF SessionInv, TypeOK
    <3>3. \A b \in Agents : line'[b] = tx[v].card => line[b] = tx[v].card
      BY <3>1, <2>8, NamesAssumption
    <3>4. QED
      BY <3>1, <3>2, <3>3 DEF SessionInv, TxOwnsClaim
  <2>11. TxDistinct' /\ OneAnswer'
    BY <2>3, <2>4 DEF SessionInv, TxDistinct, OneAnswer
  <2>12. StartAlone'
    <3> SUFFICES ASSUME NEW v \in Workers,
                        tx'[v].op \in {"withdrawn", "expired", "claim"}, tx'[v].heard
                 PROVE  line'[tx'[v].agent] = Null
      BY DEF StartAlone
    <3>1. v # w /\ tx'[v] = tx[v] /\ tx[v].agent \in Agents
      BY <2>3, <2>4 DEF SessionInv, TypeOK, Transaction, AgentOps
    <3>2. t.heard => tx[v].agent # a
      BY <3>1 DEF SessionInv, OneAnswer, t, a
    <3>3. line[tx[v].agent] = Null
      BY <3>1 DEF SessionInv, StartAlone
    <3>4. QED
      BY <3>1, <3>2, <3>3, <2>2, <1>1 DEF SessionInv, TypeOK
  <2>13. HolderHasSince'
    BY <1>1, <2>1, NamesAssumption DEF SessionInv, HolderHasSince, TypeOK
  <2>14. QED
    BY <2>9, <2>10, <2>11, <2>12, <2>13 DEF SessionInv
<1>4. QED
  BY <1>2, <1>3 DEF claim

LEMMA PushDataCommits ==
  ASSUME SessionInv, TypeOK', NEW w \in Workers, push_data_commit(w)
  PROVE  SessionInv'
BY ClosingKeeps DEF push_data_commit, row, agent

\* The card finish clears is still its own, and nobody is on the line to it.
LEMMA FinishCommits ==
  ASSUME SessionInv, TypeOK', NEW w \in Workers, finish_commit(w)
  PROVE  SessionInv'
<1> DEFINE t == tx[w]  c == t.card
<1>1. CASE UNCHANGED row
  BY <1>1, ClosingKeeps DEF finish_commit, row, agent
<1>2. CASE account[t.agent] # "deleted"
  <2>1. /\ t.op = "finish" /\ c \in Cards /\ t.since
        /\ polling_agent_id[c] \in {t.holder, Null}
        /\ \A b \in Agents : line[b] # c
    BY DEF finish_commit, SessionInv, TxOwnsClaim, TypeOK, Transaction
  <2>2. \A v \in Workers : v # w /\ tx[v].op \in {"data", "finish"} => tx[v].card # c
    BY <2>1 DEF SessionInv, TxDistinct
  <2>3. /\ polling_agent_id' = [polling_agent_id EXCEPT ![c] = IF t.holder # Null THEN Null ELSE @]
        /\ polling_since' = [polling_since EXCEPT ![c] = Null]
        /\ UNCHANGED <<line, lineAge, claimer>>
    BY <1>2, <2>1 DEF finish_commit, release, agent
  <2>4. \A v \in Workers : tx'[v] = IF v = w THEN Closed ELSE tx[v]
    BY DEF finish_commit, Close, SessionInv, TypeOK
  <2>5. Closed.op = "closed" /\ ~Closed.heard
    BY DEF Closed, Call
  <2> HIDE DEF t, c
  <2>6. /\ polling_agent_id'[c] = Null
        /\ \A d \in Cards \ {c} : /\ polling_agent_id'[d] = polling_agent_id[d]
                                  /\ polling_since'[d] = polling_since[d]
    BY <2>1, <2>3 DEF SessionInv, TypeOK
  <2>7. CallOwnsClaim'
    BY <2>1, <2>3, <2>6 DEF SessionInv, CallOwnsClaim, TypeOK
  <2>8. TxOwnsClaim'
    <3> SUFFICES ASSUME NEW v \in Workers, tx'[v].op \in {"data", "finish"}
                 PROVE  /\ claimer'[tx'[v].card] = tx'[v].agent
                        /\ polling_since'[tx'[v].card] # Null
                        /\ polling_since'[tx'[v].card] <= ClaimTimeout
                        /\ tx'[v].op = "finish" =>
                             /\ tx'[v].since
                             /\ polling_agent_id'[tx'[v].card] \in {tx'[v].holder, Null}
                        /\ \A b \in Agents : line'[b] = tx'[v].card =>
                             tx'[v].op = "data" /\ tx'[v].heard /\ tx'[v].agent = b
      BY DEF TxOwnsClaim
    <3>1. tx'[v] = tx[v] /\ tx[v].card \in Cards \ {c}
      BY <2>2, <2>4, <2>5 DEF SessionInv, TypeOK, Transaction
    <3>2. QED
      BY <3>1, <2>3, <2>6 DEF SessionInv, TxOwnsClaim
  <2>9. TxDistinct' /\ StartAlone' /\ OneAnswer'
    BY <2>3, <2>4, <2>5 DEF SessionInv, TxDistinct, StartAlone, OneAnswer
  <2>10. HolderHasSince'
    BY <2>6 DEF SessionInv, HolderHasSince
  <2>11. QED
    BY <2>7, <2>8, <2>9, <2>10 DEF SessionInv
<1>3. QED
  BY <1>1, <1>2 DEF finish_commit

LEMMA CrashKeeps ==
  ASSUME SessionInv, TypeOK', NEW a \in Agents, crash(a)
  PROVE  SessionInv'
<1>1. /\ UNCHANGED <<polling_agent_id, polling_since, claimer>>
      /\ \A b \in Agents : line'[b] # Null => b # a /\ line'[b] = line[b] /\ lineAge'[b] = lineAge[b]
  BY DEF crash, HangUp, row, ghost, SessionInv, TypeOK
<1>2. \A v \in Workers :
        /\ tx'[v].op = tx[v].op /\ tx'[v].agent = tx[v].agent /\ tx'[v].card = tx[v].card
        /\ tx'[v].since = tx[v].since /\ tx'[v].holder = tx[v].holder
        /\ tx'[v].heard => tx[v].heard
        /\ tx[v].agent # a => tx'[v].heard = tx[v].heard
        /\ tx[v].card \in Cards \cup {Null} /\ tx[v].op \in AgentOps => tx[v].agent \in Agents
  <2> SUFFICES ASSUME NEW v \in Workers
               PROVE  /\ tx'[v].op = tx[v].op /\ tx'[v].agent = tx[v].agent
                      /\ tx'[v].card = tx[v].card /\ tx'[v].since = tx[v].since
                      /\ tx'[v].holder = tx[v].holder
                      /\ tx'[v].heard => tx[v].heard
                      /\ tx[v].agent # a => tx'[v].heard = tx[v].heard
                      /\ tx[v].card \in Cards \cup {Null}
                      /\ tx[v].op \in AgentOps => tx[v].agent \in Agents
    BY Zenon
  <2>1. tx[v] \in Transaction
    BY DEF SessionInv, TypeOK
  <2>2. tx'[v] = IF tx[v].agent = a THEN [tx[v] EXCEPT !.heard = FALSE] ELSE tx[v]
    BY DEF crash
  <2>3. QED
    BY <2>1, <2>2 DEF Transaction
<1>3. CallOwnsClaim' /\ HolderHasSince'
  BY <1>1 DEF SessionInv, CallOwnsClaim, HolderHasSince
<1>4. TxOwnsClaim'
  <2> SUFFICES ASSUME NEW v \in Workers, tx'[v].op \in {"data", "finish"}
               PROVE  /\ claimer[tx'[v].card] = tx'[v].agent
                      /\ polling_since[tx'[v].card] # Null
                      /\ polling_since[tx'[v].card] <= ClaimTimeout
                      /\ tx'[v].op = "finish" =>
                           /\ tx'[v].since
                           /\ polling_agent_id[tx'[v].card] \in {tx'[v].holder, Null}
                      /\ \A b \in Agents : line'[b] = tx'[v].card =>
                           tx'[v].op = "data" /\ tx'[v].heard /\ tx'[v].agent = b
    BY <1>1 DEF TxOwnsClaim
  <2>1. tx[v].card \in Cards
    BY <1>2 DEF SessionInv, TypeOK, Transaction
  <2>2. \A b \in Agents : line'[b] = tx[v].card => b # a /\ line[b] = tx[v].card
    BY <2>1, <1>1, NamesAssumption
  <2>3. QED
    BY <2>1, <2>2, <1>2 DEF SessionInv, TxOwnsClaim
<1>5. TxDistinct' /\ OneAnswer'
  BY <1>2 DEF SessionInv, TxDistinct, OneAnswer
<1>6. StartAlone'
  <2> SUFFICES ASSUME NEW v \in Workers,
                      tx'[v].op \in {"withdrawn", "expired", "claim"}, tx'[v].heard
               PROVE  line'[tx'[v].agent] = Null
    BY DEF StartAlone
  <2>1. tx[v].agent \in Agents /\ line[tx[v].agent] = Null
    BY <1>2 DEF SessionInv, StartAlone, TypeOK, Transaction, AgentOps
  <2>2. QED
    BY <1>1, <1>2, <2>1
<1>7. QED
  BY <1>3, <1>4, <1>5, <1>6 DEF SessionInv

LEMMA DeleteKeeps ==
  ASSUME SessionInv, TypeOK', NEW a \in Agents, delete_agent(a)
  PROVE  SessionInv'
<1>1. /\ UNCHANGED <<polling_since, line, lineAge, tx, claimer>>
      /\ \A c \in Cards : polling_agent_id'[c] \in {polling_agent_id[c], Null}
  BY DEF delete_agent, agent, ghost, SessionInv, TypeOK
<1>2. CallOwnsClaim'
  BY <1>1 DEF SessionInv, CallOwnsClaim, TypeOK
<1>3. TxOwnsClaim'
  BY <1>1 DEF SessionInv, TxOwnsClaim, TypeOK, Transaction
<1>4. TxDistinct' /\ StartAlone' /\ OneAnswer' /\ HolderHasSince'
  BY <1>1 DEF SessionInv, TxDistinct, StartAlone, OneAnswer, HolderHasSince
<1>5. QED
  BY <1>2, <1>3, <1>4 DEF SessionInv

\* Time passes only over calls that are younger than their claims may be.
LEMMA TickKeeps ==
  ASSUME ~overran', SessionInv, TypeOK', tick
  PROVE  SessionInv'
<1>1. /\ UNCHANGED <<polling_agent_id, line, tx, claimer>>
      /\ \A w \in Workers : tx[w].op = "closed"
  BY DEF tick, fleet
<1>2. CallOwnsClaim'
  <2> SUFFICES ASSUME NEW a \in Agents, line[a] # Null
               PROVE  /\ claimer[line[a]] = a
                      /\ polling_since'[line[a]] = lineAge'[a] /\ lineAge'[a] <= ClaimTimeout
                      /\ polling_agent_id[line[a]] \in {a, Null}
    BY <1>1 DEF CallOwnsClaim
  <2>1. line[a] \in Cards /\ lineAge[a] \in Nat /\ lineAge[a] # Null /\ lineAge[a] < ClaimTimeout
    <3>1. ~(lineAge[a] >= ClaimTimeout)
      BY Zenon DEF tick
    <3>2. line[a] \in Cards /\ lineAge[a] \in Nat
      BY TimesAssumption DEF SessionInv, TypeOK, Ages
    <3>3. QED
      BY <3>1, <3>2, TimesAssumption, NamesAssumption
  <2>2. polling_since[line[a]] = lineAge[a]
    BY DEF SessionInv, CallOwnsClaim
  <2>3. lineAge'[a] = lineAge[a] + 1 /\ polling_since'[line[a]] = lineAge[a] + 1
    BY <2>1, <2>2, TimesAssumption DEF tick, Older
  <2>4. QED
    BY <2>1, <2>3, TimesAssumption DEF SessionInv, CallOwnsClaim
<1>3. HolderHasSince'
  <2>1. \A c \in Cards : polling_since[c] # Null => polling_since'[c] # Null
    BY NamesAssumption, TimesAssumption DEF tick, Older, SessionInv, TypeOK, Ages
  <2>2. QED
    BY <1>1, <2>1 DEF SessionInv, HolderHasSince
<1>4. TxOwnsClaim' /\ TxDistinct' /\ StartAlone' /\ OneAnswer'
  BY <1>1 DEF SessionInv, TxOwnsClaim, TxDistinct, StartAlone, OneAnswer
<1>5. QED
  BY <1>2, <1>3, <1>4 DEF SessionInv

LEMMA SessionStep ==
  ASSUME ~overran', SessionInv, [Next]_vars
  PROVE  SessionInv'
<1>1. TypeOK'
  BY TypeStep DEF SessionInv
<1>2. ASSUME UNCHANGED <<polling_agent_id, polling_since, line, lineAge, tx, claimer>>
      PROVE  SessionInv'
  BY <1>1, <1>2 DEF SessionInv, CallOwnsClaim, TxOwnsClaim, TxDistinct, StartAlone,
                    OneAnswer, HolderHasSince
<1>3. CASE UNCHANGED vars
  BY <1>2, <1>3 DEF vars, row, agent, ghost
<1>4. ASSUME NEW a \in Agents, get_plan(a) \/ update_agent(a) \/ set_agent_devices(a)
      PROVE  SessionInv'
  BY <1>2, <1>4 DEF get_plan, update_agent, set_agent_devices, row, agent, ghost
<1>5. ASSUME NEW c \in Cards, slot_arrives(c) PROVE SessionInv'
  BY <1>2, <1>5 DEF slot_arrives, agent, ghost
<1>6. ASSUME NEW a \in Agents, push_log_refused(a) PROVE SessionInv'
  BY <1>1, <1>6, HangUpKeeps DEF push_log_refused, row, ghost
<1>7. ASSUME NEW a \in Agents, NEW w \in Workers, NEW c \in Cards, start_read(a, w, c)
      PROVE  SessionInv'
  <2>1. UNCHANGED <<polling_agent_id, polling_since, line, lineAge, claimer>>
    BY <1>7 DEF start_read, row, ghost
  <2>2. CASE tx' = tx
    BY <1>2, <2>1, <2>2
  <2>3. ASSUME NEW op \in {"withdrawn", "expired", "claim"}, Open(w, Call(op, a, c))
        PROVE  SessionInv'
    <3>1. /\ Call(op, a, c) \in Transaction /\ Call(op, a, c).op = op
          /\ Call(op, a, c).agent = a
      BY <2>3, CallType, CallFields DEF Ops, AgentOps
    <3>2. line[a] = Null /\ ~Waiting(a)
      BY <1>7 DEF start_read
    <3>3. QED
      BY <1>1, <2>1, <2>3, <3>1, <3>2, OpeningKeeps
  <2>4. QED
    BY <1>7, <2>2, <2>3 DEF start_read
<1>8. ASSUME NEW w \in Workers, NEW c \in Cards, operator_read(w, c) PROVE SessionInv'
  <2>1. UNCHANGED <<polling_agent_id, polling_since, line, lineAge, claimer>>
    BY <1>8 DEF operator_read, row, agent, ghost
  <2>2. ASSUME NEW t, Open(w, t), t.op \in OperatorOps, ~t.heard PROVE SessionInv'
    <3>1. t \in Transaction
      BY <1>1, <2>2 DEF Open, SessionInv, TypeOK
    <3>2. QED
      BY <1>1, <2>1, <2>2, <3>1, OpeningKeeps DEF OperatorOps
  <2> DEFINE poll == [Call("poll", Null, c) EXCEPT !.cancel = Flagged(c)]
             unrequest == [Call("unrequest", Null, c) EXCEPT !.requested = Requested(c)]
             cancel == [Call("cancel", Null, c) EXCEPT
                          !.holder = polling_agent_id[c], !.requested = Requested(c)]
  <2>3. /\ poll.op = "poll" /\ ~poll.heard /\ unrequest.op = "unrequest" /\ ~unrequest.heard
        /\ cancel.op = "cancel" /\ ~cancel.heard
    BY DEF Call
  <2>4. Open(w, poll) \/ Open(w, unrequest) \/ Open(w, cancel)
    BY <1>8 DEF operator_read
  <2> HIDE DEF poll, unrequest, cancel
  <2>5. QED
    BY <2>2, <2>3, <2>4 DEF OperatorOps
<1>9. ASSUME NEW w \in Workers, Commit(w) PROVE SessionInv'
  <2>1. CASE start_clear(w)
    <3>1. UNCHANGED <<polling_agent_id, polling_since, line, lineAge, claimer>>
      BY <2>1 DEF start_clear, agent, ghost
    <3>2. CASE Close(w)
      BY <1>1, <3>1, <3>2, ClosingKeeps
    <3>3. CASE tx' = [tx EXCEPT ![w].op = "claim"]
      <4>1. tx[w].op \in {"withdrawn", "expired"}
        BY <2>1 DEF start_clear
      <4>2. \A v \in Workers :
              /\ tx'[v].op = IF v = w THEN "claim" ELSE tx[v].op
              /\ tx'[v].agent = tx[v].agent /\ tx'[v].card = tx[v].card
              /\ tx'[v].heard = tx[v].heard /\ tx'[v].since = tx[v].since
              /\ tx'[v].holder = tx[v].holder
        BY <3>3 DEF SessionInv, TypeOK, Transaction
      <4>3. CallOwnsClaim' /\ HolderHasSince'
        BY <3>1 DEF SessionInv, CallOwnsClaim, HolderHasSince
      <4>4. TxOwnsClaim' /\ TxDistinct'
        BY <3>1, <4>2 DEF SessionInv, TxOwnsClaim, TxDistinct
      <4>5. StartAlone' /\ OneAnswer'
        BY <3>1, <4>1, <4>2 DEF SessionInv, StartAlone, OneAnswer
      <4>6. QED
        BY <1>1, <4>3, <4>4, <4>5 DEF SessionInv
    <3>4. QED
      BY <2>1, <3>2, <3>3 DEF start_clear
  <2>2. CASE claim(w)
    BY <1>1, <2>2, ClaimKeeps
  <2>3. CASE push_data_commit(w)
    BY <1>1, <2>3, PushDataCommits
  <2>4. CASE finish_commit(w)
    BY <1>1, <2>4, FinishCommits
  <2>5. CASE request_manual(w) \/ cancel_manual(w) \/ cancel_enterprise_poll(w)
    <3>1. Close(w) /\ UNCHANGED <<polling_agent_id, polling_since, line, lineAge, claimer>>
      BY <2>5 DEF request_manual, cancel_manual, cancel_enterprise_poll, agent, ghost
    <3>2. QED
      BY <1>1, <3>1, ClosingKeeps
  <2>6. QED
    BY <1>9, <2>1, <2>2, <2>3, <2>4, <2>5 DEF Commit
<1>10. QED
  <2>1. ASSUME NEW a \in Agents, NEW w \in Workers, push_data_read(a, w) PROVE SessionInv'
    BY <1>1, <2>1, PushDataOpens
  <2>2. ASSUME NEW a \in Agents, NEW w \in Workers, NEW ok \in BOOLEAN, finish_read(a, w, ok)
        PROVE  SessionInv'
    BY <1>1, <2>2, FinishOpens
  <2>3. ASSUME NEW a \in Agents, crash(a) PROVE SessionInv'
    BY <1>1, <2>3, CrashKeeps
  <2>4. ASSUME NEW a \in Agents, delete_agent(a) PROVE SessionInv'
    BY <1>1, <2>4, DeleteKeeps
  <2>5. CASE tick
    BY <1>1, <2>5, TickKeeps
  <2>6. QED
    BY <1>3, <1>4, <1>5, <1>6, <1>7, <1>8, <1>9, <2>1, <2>2, <2>3, <2>4, <2>5 DEF Next

LEMMA SessionStarts == Init => SessionInv
<1>1. Closed.op = "closed" /\ ~Closed.heard
  BY DEF Closed, Call
<1>2. QED
  BY <1>1, TypeStart DEF Init, SessionInv, CallOwnsClaim, TxOwnsClaim, TxDistinct, StartAlone,
                    OneAnswer, HolderHasSince

\* Once a call has outlived its claim, that stays said.
LEMMA OverranStays ==
  ASSUME [Next]_vars, overran
  PROVE  overran'
<1>1. CASE UNCHANGED overran
  BY <1>1
<1>2. CASE tick
  BY <1>2 DEF tick
<1>3. ASSUME NEW w \in Workers, Commit(w) PROVE UNCHANGED overran
  BY <1>3 DEF Commit, start_clear, claim, push_data_commit, finish_commit, request_manual,
              cancel_manual, cancel_enterprise_poll, ghost
<1>4. QED
  BY <1>1, <1>2, <1>3 DEF Next, vars, ghost, get_plan, push_log_refused, start_read,
     push_data_read, finish_read, operator_read, crash, delete_agent, update_agent,
     set_agent_devices, slot_arrives

\* Until a call outlives its claim, a call in progress and an open handler of
\* that call own the card they began with: the strengthening the two theorems
\* below rest on.
THEOREM SessionInvariant == Spec => [](~overran => SessionInv)
<1>1. (~overran => SessionInv) /\ [Next]_vars => (~overran => SessionInv)'
  BY SessionStep, OverranStays
<1>2. QED
  BY SessionStarts, <1>1, PTL DEF Spec

\* The claim keeps two modems off one site (start_session, PollingDao.claim).
THEOREM OneCall == Spec => []OneCallPerCard
<1>1. (~overran => SessionInv) => OneCallPerCard
  BY DEF SessionInv, CallOwnsClaim, OneCallPerCard
<1>2. QED
  BY <1>1, SessionInvariant, PTL

\* Every held card has the time its claim runs out by (claim, release, ON DELETE).
THEOREM HoldersRunOut == Spec => [](~overran => HolderHasSince)
<1>1. (~overran => SessionInv) => (~overran => HolderHasSince)
  BY DEF SessionInv
<1>2. QED
  BY <1>1, SessionInvariant, PTL
-----------------------------------------------------------------------------
(* What an agent whose card has passed to another still gets in *)

LateInv ==
  /\ TypeOK
  /\ OneAnswer
  /\ \A w \in Workers : Late(w) => w \in early

\* An agent waits for one answer at a time, whatever else happens.
LEMMA OneAnswerStep ==
  ASSUME TypeOK, OneAnswer, [Next]_vars
  PROVE  OneAnswer'
<1>1. ~Closed.heard
  BY DEF Closed, Call
<1>2. CASE tx' = tx
  BY <1>2 DEF OneAnswer
<1>3. ASSUME NEW w \in Workers, Close(w) PROVE OneAnswer'
  <2>1. \A v \in Workers : tx'[v] = IF v = w THEN Closed ELSE tx[v]
    BY <1>3 DEF Close, TypeOK
  <2>2. QED
    BY <1>1, <2>1 DEF OneAnswer
<1>4. ASSUME NEW w \in Workers, NEW t, Open(w, t), t.heard => ~Waiting(t.agent)
      PROVE  OneAnswer'
  <2>1. \A v \in Workers : tx'[v] = IF v = w THEN t ELSE tx[v]
    BY <1>4 DEF Open, TypeOK
  <2>2. QED
    BY <1>4, <2>1 DEF OneAnswer, Waiting
<1>5. ASSUME NEW a \in Agents, NEW w \in Workers, NEW c \in Cards, start_read(a, w, c)
      PROVE  OneAnswer'
  <2>1. CASE tx' = tx
    BY <1>2, <2>1
  <2>2. ASSUME NEW op, Open(w, Call(op, a, c)) PROVE OneAnswer'
    BY <1>4, <1>5, <2>2, CallFields DEF start_read
  <2>3. QED
    BY <1>5, <2>1, <2>2 DEF start_read
<1>6. ASSUME NEW a \in Agents, NEW w \in Workers, push_data_read(a, w) PROVE OneAnswer'
  BY <1>4, <1>6, CallFields DEF push_data_read
<1>7. ASSUME NEW a \in Agents, NEW w \in Workers, NEW ok \in BOOLEAN, finish_read(a, w, ok)
      PROVE  OneAnswer'
  <2> DEFINE t == [Call("finish", a, line[a]) EXCEPT
                     !.ok = ok, !.holder = polling_agent_id[line[a]],
                     !.since = polling_since[line[a]] # Null,
                     !.cancel = Flagged(line[a]), !.requested = Requested(line[a])]
  <2>1. t.agent = a
    BY DEF Call
  <2>2. Open(w, t) /\ ~Waiting(a)
    BY <1>7 DEF finish_read
  <2> HIDE DEF t
  <2>3. QED
    BY <1>4, <2>1, <2>2
<1>8. ASSUME NEW w \in Workers, NEW c \in Cards, operator_read(w, c) PROVE OneAnswer'
  <2> DEFINE poll == [Call("poll", Null, c) EXCEPT !.cancel = Flagged(c)]
             unrequest == [Call("unrequest", Null, c) EXCEPT !.requested = Requested(c)]
             cancel == [Call("cancel", Null, c) EXCEPT
                          !.holder = polling_agent_id[c], !.requested = Requested(c)]
  <2>1. ~poll.heard /\ ~unrequest.heard /\ ~cancel.heard
    BY DEF Call
  <2>2. Open(w, poll) \/ Open(w, unrequest) \/ Open(w, cancel)
    BY <1>8 DEF operator_read
  <2> HIDE DEF poll, unrequest, cancel
  <2>3. QED
    BY <1>4, <2>1, <2>2
<1>9. ASSUME NEW w \in Workers, Commit(w) PROVE OneAnswer'
  <2>1. CASE start_clear(w)
    <3>1. CASE Close(w)
      BY <1>3, <3>1
    <3>2. CASE tx' = [tx EXCEPT ![w].op = "claim"]
      <4>1. \A v \in Workers : tx'[v].agent = tx[v].agent /\ tx'[v].heard = tx[v].heard
        BY <3>2 DEF TypeOK, Transaction
      <4>2. QED
        BY <4>1 DEF OneAnswer
    <3>3. QED
      BY <2>1, <3>1, <3>2 DEF start_clear
  <2>2. CASE Close(w)
    BY <1>3, <2>2
  <2>3. QED
    BY <1>9, <2>1, <2>2 DEF Commit, claim, push_data_commit, finish_commit, request_manual,
                            cancel_manual, cancel_enterprise_poll
<1>10. ASSUME NEW a \in Agents, crash(a) PROVE OneAnswer'
  <2>1. ASSUME NEW v \in Workers
        PROVE  tx'[v].agent = tx[v].agent /\ (tx'[v].heard => tx[v].heard)
    <3>1. tx[v] \in Transaction
      BY DEF TypeOK
    <3>2. tx'[v] = IF tx[v].agent = a THEN [tx[v] EXCEPT !.heard = FALSE] ELSE tx[v]
      BY <1>10 DEF crash
    <3>3. QED
      BY <3>1, <3>2 DEF Transaction
  <2>2. QED
    BY <2>1 DEF OneAnswer
<1>11. QED
  BY <1>2, <1>5, <1>6, <1>7, <1>8, <1>9, <1>10 DEF Next, vars, agent, get_plan,
     push_log_refused, delete_agent, update_agent, set_agent_devices, slot_arrives, tick

\* A step that opens no session's transaction and makes no claim: nobody is late
\* who was not.
LEMMA NobodyElseIsLate ==
  ASSUME NEW w \in Workers, Late(w) => w \in early,
         tx'[w].op \in {"data", "finish"} =>
           /\ tx'[w].op = tx[w].op /\ tx'[w].agent = tx[w].agent /\ tx'[w].card = tx[w].card
           /\ polling_agent_id'[tx[w].card] \in {polling_agent_id[tx[w].card], Null}
           /\ w \in early => w \in early'
  PROVE  Late(w)' => w \in early'
BY DEF Late

\* An agent past the check holds the card, or nobody does; from then on the card
\* can only be let go, or claimed, and a claim marks who was past the check.
LEMMA LateStep ==
  ASSUME LateInv, [Next]_vars, NEW w \in Workers
  PROVE  Late(w)' => w \in early'
<1> DEFINE Same == /\ tx'[w].op = tx[w].op /\ tx'[w].agent = tx[w].agent
                   /\ tx'[w].card = tx[w].card
           Freed == polling_agent_id'[tx[w].card] \in {polling_agent_id[tx[w].card], Null}
           Goal == Late(w)' => w \in early'
<1>1. Late(w) => w \in early
  BY DEF LateInv
<1>2. tx \in [Workers -> Transaction] /\ early \subseteq Workers
  BY DEF LateInv, TypeOK
<1> HIDE DEF Goal
<1>3. ASSUME tx'[w].op \in {"data", "finish"} => Same, Freed, w \in early => w \in early'
      PROVE  Goal
  BY <1>1, <1>3, NobodyElseIsLate DEF Goal
<1>4. ASSUME NEW v \in Workers, NEW t, Open(v, t), t.op \notin {"data", "finish"},
             UNCHANGED <<polling_agent_id, early>>
      PROVE  Goal
  <2>1. tx'[w] = IF w = v THEN t ELSE tx[w]
    BY <1>2, <1>4 DEF Open
  <2>2. QED
    BY <1>3, <1>4, <2>1
<1>5. ASSUME NEW v \in Workers, NEW t, Open(v, t), t.card = line[t.agent],
             polling_agent_id[t.card] \in {t.agent, Null},
             UNCHANGED <<polling_agent_id, early>>
      PROVE  Goal
  <2>1. tx'[w] = IF w = v THEN t ELSE tx[w]
    BY <1>2, <1>5 DEF Open
  <2>2. CASE w = v
    BY <1>5, <2>1, <2>2 DEF Late, Goal
  <2>3. CASE w # v
    BY <1>3, <1>5, <2>1, <2>3
  <2>4. QED
    BY <2>2, <2>3
<1>6. ASSUME NEW v \in Workers, Close(v), Freed, early \ {v} \subseteq early'
      PROVE  Goal
  <2>1. tx'[w] = IF w = v THEN Closed ELSE tx[w]
    BY <1>2, <1>6 DEF Close
  <2>2. CASE w = v
    <3>1. Closed.op = "closed"
      BY DEF Closed, Call
    <3>2. QED
      BY <2>1, <2>2, <3>1 DEF Late, Goal
  <2>3. CASE w # v
    BY <1>3, <1>6, <2>1, <2>3
  <2>4. QED
    BY <2>2, <2>3
<1>7. ASSUME tx' = tx, polling_agent_id' = polling_agent_id, early' = early PROVE Goal
  <2>1. Freed /\ Same
    BY <1>7
  <2>2. QED
    BY <1>3, <1>7, <2>1
<1>8. ASSUME NEW a \in Agents, NEW v \in Workers, NEW c \in Cards, start_read(a, v, c)
      PROVE  Goal
  <2>1. UNCHANGED <<polling_agent_id, early>>
    BY <1>8 DEF start_read, row, ghost
  <2>2. CASE tx' = tx
    BY <1>7, <2>1, <2>2
  <2>3. ASSUME NEW op \in {"withdrawn", "expired", "claim"}, Open(v, Call(op, a, c)) PROVE Goal
    BY <1>4, <2>1, <2>3, CallFields
  <2>4. QED
    BY <1>8, <2>2, <2>3 DEF start_read
<1>9. ASSUME NEW a \in Agents, NEW v \in Workers, push_data_read(a, v) PROVE Goal
  BY <1>5, <1>9, CallFields DEF push_data_read, Admitted, row, ghost
<1>10. ASSUME NEW a \in Agents, NEW v \in Workers, NEW ok \in BOOLEAN, finish_read(a, v, ok)
       PROVE  Goal
  <2> DEFINE t == [Call("finish", a, line[a]) EXCEPT
                     !.ok = ok, !.holder = polling_agent_id[line[a]],
                     !.since = polling_since[line[a]] # Null,
                     !.cancel = Flagged(line[a]), !.requested = Requested(line[a])]
  <2>1. t.agent = a /\ t.card = line[a]
    BY DEF Call
  <2>2. /\ Open(v, t) /\ polling_agent_id[line[a]] \in {a, Null}
        /\ UNCHANGED <<polling_agent_id, early>>
    BY <1>10 DEF finish_read, Admitted, row, ghost
  <2> HIDE DEF t
  <2>3. QED
    BY <1>5, <2>1, <2>2
<1>11. ASSUME NEW v \in Workers, NEW c \in Cards, operator_read(v, c) PROVE Goal
  <2> DEFINE poll == [Call("poll", Null, c) EXCEPT !.cancel = Flagged(c)]
             unrequest == [Call("unrequest", Null, c) EXCEPT !.requested = Requested(c)]
             cancel == [Call("cancel", Null, c) EXCEPT
                          !.holder = polling_agent_id[c], !.requested = Requested(c)]
  <2>1. poll.op = "poll" /\ unrequest.op = "unrequest" /\ cancel.op = "cancel"
    BY DEF Call
  <2>2. /\ Open(v, poll) \/ Open(v, unrequest) \/ Open(v, cancel)
        /\ UNCHANGED <<polling_agent_id, early>>
    BY <1>11 DEF operator_read, row, ghost
  <2> HIDE DEF poll, unrequest, cancel
  <2>3. QED
    BY <1>4, <2>1, <2>2
<1>12. ASSUME NEW v \in Workers, claim(v) PROVE Goal
  <2>1. Close(v)
    BY <1>12 DEF claim
  <2>2. CASE UNCHANGED <<polling_agent_id, early>>
    BY <1>6, <2>1, <2>2
  <2>3. CASE /\ polling_agent_id' = [polling_agent_id EXCEPT ![tx[v].card] = tx[v].agent]
             /\ early' = early \cup {u \in Workers : /\ tx[u].op \in {"data", "finish"}
                                                     /\ tx[u].card = tx[v].card}
    <3>1. CASE tx[w].op \in {"data", "finish"} /\ tx[w].card = tx[v].card
      BY <2>3, <3>1 DEF Goal
    <3>2. CASE tx[w].card # tx[v].card
      <4>1. polling_agent_id'[tx[w].card] = polling_agent_id[tx[w].card]
        BY <2>3, <3>2 DEF LateInv, TypeOK
      <4>2. QED
        BY <1>6, <2>1, <2>3, <4>1
    <3>3. CASE tx[w].op \notin {"data", "finish"}
      <4>1. tx'[w].op \notin {"data", "finish"}
        BY <1>2, <2>1, <3>3 DEF Close, Closed, Call
      <4>2. QED
        BY <4>1 DEF Late, Goal
    <3>4. QED
      BY <3>1, <3>2, <3>3
  <2>4. QED
    BY <1>12, <2>2, <2>3 DEF claim
<1>13. ASSUME NEW v \in Workers, start_clear(v) PROVE Goal
  <2>1. UNCHANGED <<polling_agent_id, early>>
    BY <1>13 DEF start_clear, ghost
  <2>2. CASE Close(v)
    BY <1>6, <2>1, <2>2
  <2>3. CASE tx' = [tx EXCEPT ![v].op = "claim"]
    <3>1. tx'[w] = IF w = v THEN [tx[v] EXCEPT !.op = "claim"] ELSE tx[w]
      BY <1>2, <2>3
    <3>2. tx[v] \in Transaction
      BY <1>2
    <3>3. tx'[w].op \in {"data", "finish"} => tx'[w] = tx[w]
      BY <3>1, <3>2 DEF Transaction
    <3>4. QED
      BY <1>3, <2>1, <3>3
  <2>4. QED
    BY <1>13, <2>2, <2>3 DEF start_clear
<1>14. ASSUME NEW v \in Workers, push_data_commit(v) PROVE Goal
  BY <1>6, <1>14 DEF push_data_commit, row
<1>15. ASSUME NEW v \in Workers, finish_commit(v) PROVE Goal
  <2>1. Close(v) /\ early' = early \ {v}
    BY <1>15 DEF finish_commit
  <2>2. Freed
    <3>1. CASE UNCHANGED row
      BY <3>1 DEF row
    <3>2. CASE release(tx[v])
      BY <3>2 DEF release, LateInv, TypeOK
    <3>3. QED
      BY <1>15, <3>1, <3>2 DEF finish_commit
  <2>3. QED
    BY <1>6, <2>1, <2>2
<1>16. ASSUME NEW v \in Workers, request_manual(v) \/ cancel_manual(v) \/ cancel_enterprise_poll(v)
       PROVE  Goal
  BY <1>6, <1>16 DEF request_manual, cancel_manual, cancel_enterprise_poll, ghost
<1>17. ASSUME NEW a \in Agents, crash(a) PROVE Goal
  <2>1. tx'[w] = IF tx[w].agent = a THEN [tx[w] EXCEPT !.heard = FALSE] ELSE tx[w]
    BY <1>17 DEF crash
  <2>2. tx[w] \in Transaction
    BY <1>2
  <2>3. Same
    BY <2>1, <2>2 DEF Transaction
  <2>4. QED
    BY <1>3, <1>17, <2>3 DEF crash, row, ghost
<1>18. ASSUME NEW a \in Agents, delete_agent(a) PROVE Goal
  <2>1. \A c \in Cards : polling_agent_id'[c] \in {polling_agent_id[c], Null}
    BY <1>18 DEF delete_agent
  <2>2. UNCHANGED <<tx, early>>
    BY <1>18 DEF delete_agent, ghost
  <2>3. tx[w].op \in {"data", "finish"} => tx[w].card \in Cards
    BY <1>2 DEF Transaction
  <2>4. QED
    BY <1>1, <2>1, <2>2, <2>3, NobodyElseIsLate DEF Goal
<1>19. QED
  <2>1. ASSUME NEW v \in Workers, Commit(v) PROVE Goal
    BY <2>1, <1>12, <1>13, <1>14, <1>15, <1>16 DEF Commit
  <2>2. ASSUME NEW a \in Agents, \/ get_plan(a) \/ push_log_refused(a) \/ update_agent(a)
                                 \/ set_agent_devices(a)
        PROVE  Goal
    BY <1>7, <2>2 DEF get_plan, push_log_refused, update_agent, set_agent_devices, row, ghost
  <2>3. ASSUME NEW c \in Cards, slot_arrives(c) PROVE Goal
    BY <1>7, <2>3 DEF slot_arrives, ghost
  <2>4. ASSUME tick PROVE Goal
    <3>1. tx' = tx /\ polling_agent_id' = polling_agent_id /\ early' = early
      BY <2>4 DEF tick
    <3>2. QED
      BY <1>7, <3>1
  <2>5. ASSUME UNCHANGED vars PROVE Goal
    <3>1. tx' = tx /\ polling_agent_id' = polling_agent_id /\ early' = early
      BY <2>5 DEF vars, row, ghost
    <3>2. QED
      BY <1>7, <3>1
  <2>6. Goal
    BY <1>8, <1>9, <1>10, <1>11, <1>17, <1>18, <2>1, <2>2, <2>3, <2>4, <2>5 DEF Next
  <2>7. QED
    BY <2>6 DEF Goal

\* While another holds its card, an agent gets in at most the one call that was past
\* the check when the card was claimed, for any fleet and however long calls take
\* (_agent_card, claim, release).
THEOREM LosersStop == Spec => []LoserStops
<1>1. Init => LateInv
  <2>1. Closed.op = "closed" /\ ~Closed.heard
    BY DEF Closed, Call
  <2>2. \A w \in Workers : Init => ~Late(w) /\ ~tx[w].heard
    BY <2>1 DEF Init, Late
  <2>3. QED
    BY <2>2, TypeStart DEF LateInv, OneAnswer
<1>2. LateInv /\ [Next]_vars => LateInv'
  BY TypeStep, OneAnswerStep, LateStep DEF LateInv
<1>3. LateInv => LoserStops
  BY DEF LateInv, OneAnswer, LoserStops, TypeOK
<1>4. QED
  BY <1>1, <1>2, <1>3, PTL DEF Spec
=============================================================================
