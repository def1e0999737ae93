----------------------- MODULE OutreachDelivery_proofs -----------------------
(***************************************************************************)
(* What holds of governed outreach for any number of actions, users,       *)
(* workers and crashes.                                                    *)
(***************************************************************************)
EXTENDS OutreachDelivery, TLAPS

\* Where nobody but a user acts on an action: before its approval is claimed,
\* and after a refusal.
Undispatched(a) ==
    \/ status[a] \in {"absent", "draft", "pending_approval", "approved", "rejected"}
    \/ status[a] = "cancelled" /\ approved[a] = NoText

\* A worker that may deliver the action, or has just tried to.
Holds(w, a) == worker[w].pc \in {"claimed", "ready", "recording"} /\ worker[w].action = a

Recovers(w, a) == worker[w].pc = "recovering" /\ a \in worker[w].todo

\* Before its claim an action is in no worker's and no correlation's hands.
UndispatchedFree ==
    \A a \in Actions : Undispatched(a) =>
        /\ delivered[a] = <<>>
        /\ match # a
        /\ \A w \in Workers : ~Holds(w, a) /\ ~Recovers(w, a)

\* A text comes with the row, an approval with a text.
TextBeforeApproval ==
    \A a \in Actions :
        /\ status[a] # "absent" => text[a] # NoText
        /\ status[a] \in {"absent", "draft", "pending_approval", "rejected"}
             => approved[a] = NoText
        /\ status[a] = "approved" => approved[a] # NoText
        /\ ~Undispatched(a) => approved[a] # NoText

\* An action has one holder, of its channel, which has not delivered before
\* it tries.
OneHolder ==
    \A w \in Workers, a \in Actions : Holds(w, a) =>
        /\ channel[a] = ChannelOf(w)
        /\ worker[w].pc # "recording" => delivered[a] = <<>>
        /\ \A v \in Workers : Holds(v, a) => v = w

\* The sender gave up before it delivered.
Withheld(a) ==
    \/ status[a] = "failed" /\ channel[a] = "email"
    \/ status[a] = "cancelled" /\ approved[a] # NoText

\* What a holder is about to record, and what was recorded, agrees with what
\* the provider took.
ResultsTrue ==
    /\ SentWasTaken
    /\ \A w \in Workers, a \in Actions :
         worker[w].pc = "recording" /\ worker[w].action = a =>
           /\ worker[w].result = "sent" => delivered[a] # <<>>
           /\ worker[w].result = "failed" /\ channel[a] = "email" => delivered[a] = <<>>
           /\ worker[w].result = "cancelled" => approved[a] # NoText /\ delivered[a] = <<>>
    /\ \A a \in Actions : Withheld(a) =>
           /\ delivered[a] = <<>>
           /\ \A w \in Workers : ~Holds(w, a)

\* An answer follows a delivery, and a correlation follows an answer.
AnswersFollow ==
    \A a \in Actions :
        /\ \A s \in Senders : mail[a][s] # "none" => delivered[a] # <<>>
        /\ match = a => mail[a]["customer"] = "synced" /\ status[a] # "replied"
        /\ status[a] = "replied" => mail[a]["customer"] = "synced"

IInv ==
    /\ TypeOK
    /\ DeliveredOnce
    /\ UndispatchedFree
    /\ TextBeforeApproval
    /\ OneHolder
    /\ ResultsTrue
    /\ AnswersFollow

-----------------------------------------------------------------------------
LEMMA Frame ==
  ASSUME UNCHANGED <<status, channel, approved, delivered, mail, match, worker>>
  PROVE  /\ UndispatchedFree => UndispatchedFree'
         /\ OneHolder => OneHolder'
         /\ ResultsTrue => ResultsTrue'
         /\ AnswersFollow => AnswersFollow'
         /\ DeliveredOnce => DeliveredOnce'
  <1>1. UndispatchedFree => UndispatchedFree'
    BY DEF UndispatchedFree, Undispatched, Holds, Recovers
  <1>2. OneHolder => OneHolder'
    BY DEF OneHolder, Holds, ChannelOf
  <1>3. ResultsTrue => ResultsTrue'
    BY DEF ResultsTrue, Withheld, SentWasTaken, Holds
  <1>4. AnswersFollow => AnswersFollow'
    BY DEF AnswersFollow
  <1>5. DeliveredOnce => DeliveredOnce'
    BY DEF DeliveredOnce
  <1> QED
    BY <1>1, <1>2, <1>3, <1>4, <1>5

LEMMA UserMove ==
  ASSUME NEW a \in Actions, IInv, Undispatched(a), Undispatched(a)',
         \A b \in Actions \ {a} :
            status'[b] = status[b] /\ approved'[b] = approved[b] /\ channel'[b] = channel[b],
         UNCHANGED <<delivered, mail, match, worker>>
  PROVE  UndispatchedFree' /\ OneHolder' /\ ResultsTrue' /\ AnswersFollow'
  <1>0. /\ delivered[a] = <<>> /\ match # a
        /\ \A w \in Workers : ~Holds(w, a) /\ ~Recovers(w, a)
    BY DEF IInv, UndispatchedFree
  <1>1. UndispatchedFree'
    BY DEF IInv, UndispatchedFree, Undispatched, Holds, Recovers
  <1>2. OneHolder'
    BY <1>0 DEF IInv, OneHolder, Holds, ChannelOf
  <1>3. ResultsTrue'
    BY <1>0 DEF IInv, ResultsTrue, Withheld, SentWasTaken, Holds, Undispatched
  <1>4. AnswersFollow'
    BY <1>0 DEF IInv, AnswersFollow, Undispatched
  <1> QED
    BY <1>1, <1>2, <1>3, <1>4

-----------------------------------------------------------------------------
(* The shapes of what users and workers hold.                              *)

LEMMA ReqShape ==
  ASSUME TypeOK, NEW u \in Users
  PROVE  /\ req[u].op = "edit" => req[u].action \in Actions /\ req[u].text \in Texts
         /\ req[u].op \in {"submit", "approve"} => req[u].action \in Actions
         /\ [req EXCEPT ![u] = NoReq] \in [Users -> Edits \cup Moves \cup {NoReq}]
  <1>1. req[u] \in Edits \cup Moves \cup {NoReq}
    BY DEF TypeOK
  <1>2. CASE req[u] \in Edits
    BY <1>2 DEF Edits, TypeOK
  <1>3. CASE req[u] \in Moves
    BY <1>3 DEF Moves, TypeOK
  <1>4. CASE req[u] = NoReq
    BY <1>4 DEF NoReq, TypeOK
  <1> QED
    BY <1>1, <1>2, <1>3, <1>4

LEMMA WorkerShape ==
  ASSUME TypeOK, NEW w \in Workers
  PROVE  /\ worker[w].pc \in {"claimed", "ready"} =>
              worker[w] \in Sending /\ worker[w].action \in Actions /\ worker[w].text \in Texts
         /\ worker[w].pc = "recording" =>
              worker[w].action \in Actions /\ worker[w].result \in Results
         /\ worker[w].pc = "recovering" => worker[w].todo \subseteq Actions
  <1>1. worker[w] \in Sending \cup Recording \cup Recovering \cup {Idle}
    BY DEF TypeOK
  <1>2. CASE worker[w] \in Sending
    BY <1>2 DEF Sending
  <1>3. CASE worker[w] \in Recording
    BY <1>3 DEF Recording
  <1>4. CASE worker[w] \in Recovering
    BY <1>4 DEF Recovering
  <1>5. CASE worker[w] = Idle
    BY <1>5 DEF Idle
  <1> QED
    BY <1>1, <1>2, <1>3, <1>4, <1>5

\* A worker's next state, and what becomes of the others.
LEMMA WorkerMoves ==
  ASSUME TypeOK, NEW w \in Workers, NEW s,
         s \in Sending \cup Recording \cup Recovering \cup {Idle},
         worker' = [worker EXCEPT ![w] = s]
  PROVE  /\ worker' \in [Workers -> Sending \cup Recording \cup Recovering \cup {Idle}]
         /\ \A v \in Workers : worker'[v] = IF v = w THEN s ELSE worker[v]
  BY DEF TypeOK

-----------------------------------------------------------------------------
LEMMA InitIInv == Init => IInv
  <1> SUFFICES ASSUME Init PROVE IInv
    OBVIOUS
  <1>0. <<>> \in Seq(Texts) /\ Len(<<>>) = 0
    OBVIOUS
  <1>1. TypeOK
    <2>1. /\ status \in [Actions -> Statuses] /\ channel \in [Actions -> Channels]
          /\ delivered \in [Actions -> Seq(Texts)]
          /\ eligible \in [Actions -> BOOLEAN] /\ stale \in [Actions -> BOOLEAN]
          /\ mail \in [Actions -> [Senders -> {"none", "waiting", "synced"}]]
      BY <1>0 DEF Init, Statuses, Channels
    <2> QED
      BY <2>1 DEF Init, TypeOK
  <1>2. \A w \in Workers, a \in Actions : ~Holds(w, a) /\ ~Recovers(w, a)
    BY DEF Init, Holds, Recovers, Idle
  <1>3. /\ \A a \in Actions : /\ status[a] = "absent" /\ delivered[a] = <<>>
                              /\ approved[a] = NoText
                              /\ \A s \in Senders : mail[a][s] = "none"
        /\ match = NoMatch
        /\ \A w \in Workers : worker[w].pc = "idle"
    BY DEF Init, Idle
  <1>4. DeliveredOnce
    <2>1. ASSUME NEW a \in Actions PROVE Len(delivered[a]) <= 1
      <3>1. delivered[a] = <<>>
        BY <1>3
      <3>2. Len(delivered[a]) = Len(<<>>)
        BY <3>1, Zenon
      <3> QED
        BY <3>2, <1>0
    <2> QED
      BY <2>1 DEF DeliveredOnce
  <1>5. UndispatchedFree
    BY <1>2, <1>3, NoMatchAssumption DEF UndispatchedFree
  <1>6. TextBeforeApproval
    BY <1>3 DEF TextBeforeApproval, Undispatched
  <1>7. OneHolder /\ ResultsTrue /\ AnswersFollow
    BY <1>2, <1>3, NoMatchAssumption DEF OneHolder, ResultsTrue, Withheld, SentWasTaken, AnswersFollow
  <1> QED
    BY <1>1, <1>4, <1>5, <1>6, <1>7 DEF IInv

-----------------------------------------------------------------------------
(* Steps of users and of their surroundings.                               *)

LEMMA CreateStep ==
  ASSUME IInv, NEW a \in Actions, NEW c \in Channels, NEW t \in Texts, Create(a, c, t)
  PROVE  IInv'
  <1>1. TypeOK'
    BY DEF IInv, TypeOK, Create, Statuses, inbox
  <1>2. /\ \A b \in Actions \ {a} : /\ status'[b] = status[b] /\ channel'[b] = channel[b]
                                    /\ text'[b] = text[b]
        /\ status[a] = "absent" /\ status'[a] = "draft" /\ text'[a] = t
        /\ UNCHANGED <<approved, delivered, mail, match, worker>>
    BY DEF IInv, TypeOK, Create, inbox
  <1>3. Undispatched(a) /\ Undispatched(a)'
    BY <1>2 DEF Undispatched
  <1>4. UndispatchedFree' /\ OneHolder' /\ ResultsTrue' /\ AnswersFollow' /\ DeliveredOnce'
    BY <1>2, <1>3, UserMove DEF IInv, DeliveredOnce
  <1>5. TextBeforeApproval'
    BY <1>2, NoTextAssumption DEF IInv, TextBeforeApproval, Undispatched
  <1> QED
    BY <1>1, <1>4, <1>5 DEF IInv

LEMMA FrameStep ==
  ASSUME IInv, TypeOK',
         UNCHANGED <<status, channel, text, approved, delivered, mail, match, worker>>
  PROVE  IInv'
  <1>1. TextBeforeApproval'
    BY DEF IInv, TextBeforeApproval, Undispatched
  <1> QED
    BY <1>1, Frame DEF IInv

LEMMA FinishEditStep ==
  ASSUME IInv, NEW u \in Users, FinishEdit(u)
  PROVE  IInv'
  <1>1. req[u].action \in Actions /\ req[u].text \in Texts
    BY ReqShape DEF IInv, FinishEdit
  <1>2. TypeOK'
    BY <1>1, ReqShape DEF IInv, TypeOK, FinishEdit, inbox
  <1>3. \A b \in Actions : text'[b] = text[b] \/ text'[b] \in Texts
    BY <1>1 DEF IInv, TypeOK, FinishEdit
  <1>4. UNCHANGED <<status, channel, approved, delivered, mail, match, worker>>
    BY DEF FinishEdit, inbox
  <1>5. TextBeforeApproval'
    BY <1>3, <1>4, NoTextAssumption DEF IInv, TextBeforeApproval, Undispatched
  <1> QED
    BY <1>2, <1>4, <1>5, Frame DEF IInv

\* Submission, approval, rejection and the cancelling of a draft.
LEMMA DecisionStep ==
  ASSUME IInv, TypeOK', NEW a \in Actions,
         \/ status[a] = "draft" /\ status'[a] = "pending_approval" /\ approved'[a] = approved[a]
         \/ status[a] = "draft" /\ status'[a] = "cancelled" /\ approved'[a] = approved[a]
         \/ status[a] = "pending_approval" /\ status'[a] = "rejected"
              /\ approved'[a] = approved[a]
         \/ status[a] = "pending_approval" /\ status'[a] = "approved"
              /\ approved'[a] = text[a],
         \A b \in Actions \ {a} : status'[b] = status[b] /\ approved'[b] = approved[b],
         UNCHANGED <<channel, text, delivered, mail, match, worker>>
  PROVE  IInv'
  <1>1. Undispatched(a) /\ Undispatched(a)'
    BY DEF IInv, TextBeforeApproval, Undispatched
  <1>2. TextBeforeApproval'
    BY <1>1 DEF IInv, TextBeforeApproval, Undispatched
  <1>3. UndispatchedFree' /\ OneHolder' /\ ResultsTrue' /\ AnswersFollow' /\ DeliveredOnce'
    BY <1>1, UserMove DEF IInv, DeliveredOnce
  <1> QED
    BY <1>2, <1>3 DEF IInv

LEMMA UserSteps ==
  ASSUME IInv, NEW u \in Users, UserStep(u)
  PROVE  IInv'
  <1>1. ASSUME NEW a \in Actions, NEW t \in Texts, BeginEdit(u, a, t) PROVE IInv'
    <2>1. TypeOK'
      BY <1>1 DEF IInv, TypeOK, BeginEdit, Edits, rows, inbox
    <2> QED
      BY <1>1, <2>1, FrameStep DEF BeginEdit, rows, inbox
  <1>2. ASSUME NEW a \in Actions, NEW op \in {"submit", "approve"}, BeginMove(u, op, a)
        PROVE  IInv'
    <2>1. TypeOK'
      BY <1>2 DEF IInv, TypeOK, BeginMove, Moves, rows, inbox
    <2> QED
      BY <1>2, <2>1, FrameStep DEF BeginMove, rows, inbox
  <1>3. CASE FinishSubmit(u)
    <2>1. req[u].action \in Actions
      BY <1>3, ReqShape DEF IInv, FinishSubmit
    <2>2. TypeOK'
      BY <1>3, <2>1, ReqShape DEF IInv, TypeOK, FinishSubmit, Statuses, inbox
    <2>3. /\ status[req[u].action] = "draft" /\ status'[req[u].action] = "pending_approval"
          /\ \A b \in Actions \ {req[u].action} : status'[b] = status[b]
      BY <1>3, <2>1 DEF IInv, TypeOK, FinishSubmit
    <2>4. UNCHANGED <<approved, channel, text, delivered, mail, match, worker>>
      BY <1>3 DEF FinishSubmit, inbox
    <2> QED
      BY <2>1, <2>2, <2>3, <2>4, DecisionStep
  <1>4. CASE FinishApprove(u)
    <2>1. req[u].action \in Actions
      BY <1>4, ReqShape DEF IInv, FinishApprove, Approve
    <2>2. TypeOK'
      BY <1>4, <2>1, ReqShape DEF IInv, TypeOK, FinishApprove, Approve, Statuses, inbox
    <2>3. /\ status[req[u].action] = "pending_approval" /\ status'[req[u].action] = "approved"
          /\ approved'[req[u].action] = text[req[u].action]
          /\ \A b \in Actions \ {req[u].action} :
               status'[b] = status[b] /\ approved'[b] = approved[b]
      BY <1>4, <2>1 DEF IInv, TypeOK, FinishApprove, Approve
    <2>4. UNCHANGED <<channel, text, delivered, mail, match, worker>>
      BY <1>4 DEF FinishApprove, Approve, inbox
    <2> QED
      BY <2>1, <2>2, <2>3, <2>4, DecisionStep
  <1>5. CASE Abandon(u)
    <2>1. TypeOK'
      BY <1>5, ReqShape DEF IInv, TypeOK, Abandon, rows, inbox
    <2> QED
      BY <1>5, <2>1, FrameStep DEF Abandon, rows, inbox
  <1> QED
    BY <1>1, <1>2, <1>3, <1>4, <1>5, FinishEditStep DEF UserStep

LEMMA RefuseStep ==
  ASSUME IInv, NEW a \in Actions, Reject(a) \/ Cancel(a)
  PROVE  IInv'
  <1>1. TypeOK'
    BY DEF IInv, TypeOK, Reject, Cancel, Refuse, Statuses, inbox
  <1>2. /\ \/ status[a] = "draft" /\ status'[a] = "cancelled"
           \/ status[a] = "pending_approval" /\ status'[a] = "rejected"
        /\ \A b \in Actions \ {a} : status'[b] = status[b]
        /\ UNCHANGED <<approved, channel, text, delivered, mail, match, worker>>
    BY DEF IInv, TypeOK, Reject, Cancel, Refuse, inbox
  <1> QED
    BY <1>1, <1>2, DecisionStep

LEMMA SurroundingsStep ==
  ASSUME IInv, NEW a \in Actions, EligibilityChanges(a) \/ Lapse(a)
  PROVE  IInv'
  <1>1. TypeOK'
    BY DEF IInv, TypeOK, EligibilityChanges, Lapse, rows, inbox
  <1>2. UNCHANGED <<status, channel, text, approved, delivered, mail, match, worker>>
    BY DEF EligibilityChanges, Lapse, rows, inbox
  <1> QED
    BY <1>1, <1>2, FrameStep

-----------------------------------------------------------------------------
(* Steps of workers.                                                       *)

\* A worker that takes up an action nobody has dispatched.
LEMMA ClaimStep ==
  ASSUME IInv, NEW w \in Workers, NEW a \in Actions, Claim(w, a)
  PROVE  IInv'
  <1> DEFINE s == [pc |-> "claimed", action |-> a, text |-> text[a]]
  <1>1. text[a] \in Texts
    BY DEF IInv, TypeOK, TextBeforeApproval, Claim, ClaimFrom
  <1>2. /\ worker' \in [Workers -> Sending \cup Recording \cup Recovering \cup {Idle}]
        /\ \A v \in Workers : worker'[v] = IF v = w THEN s ELSE worker[v]
    <2>1. s \in Sending
      BY <1>1 DEF Sending
    <2> QED
      BY <2>1, WorkerMoves DEF IInv, Claim, ClaimFrom
  <1>3. TypeOK'
    BY <1>2 DEF IInv, TypeOK, Claim, ClaimFrom, Statuses, inbox
  <1>4. /\ status[a] = "approved" /\ status'[a] = "sending" /\ channel[a] = ChannelOf(w)
        /\ \A b \in Actions \ {a} : status'[b] = status[b]
        /\ UNCHANGED <<approved, channel, text, delivered, mail, match>>
    BY DEF IInv, TypeOK, Claim, ClaimFrom, inbox
  <1>5. /\ Undispatched(a) /\ ~Undispatched(a)' /\ approved[a] # NoText
        /\ delivered[a] = <<>> /\ match # a
        /\ \A v \in Workers : ~Holds(v, a) /\ ~Recovers(v, a)
    BY <1>4 DEF IInv, UndispatchedFree, TextBeforeApproval, Undispatched
  <1>6. /\ s.pc = "claimed" /\ s.action = a
    OBVIOUS
  <1> HIDE DEF s
  <1>7. UndispatchedFree'
    BY <1>2, <1>4, <1>5, <1>6 DEF IInv, UndispatchedFree, Undispatched, Holds, Recovers
  <1>8. TextBeforeApproval'
    BY <1>4, <1>5 DEF IInv, TextBeforeApproval, Undispatched
  <1>9. OneHolder'
    BY <1>2, <1>4, <1>5, <1>6 DEF IInv, OneHolder, Holds, ChannelOf
  <1>10. ResultsTrue'
    BY <1>2, <1>4, <1>5, <1>6 DEF IInv, ResultsTrue, Withheld, SentWasTaken, Holds
  <1>11. AnswersFollow' /\ DeliveredOnce'
    BY <1>4, <1>5 DEF IInv, AnswersFollow, DeliveredOnce
  <1> QED
    BY <1>3, <1>7, <1>8, <1>9, <1>10, <1>11 DEF IInv

\* A worker goes on with the action it holds, without touching the row: the
\* provider may take the text, and what the worker is about to record agrees.
LEMMA HolderStep ==
  ASSUME IInv, TypeOK', NEW w \in Workers, NEW a \in Actions, NEW s,
         Holds(w, a), worker[w].pc \in {"claimed", "ready"},
         \A v \in Workers : worker'[v] = IF v = w THEN s ELSE worker[v],
         s.pc \in {"ready", "recording"}, s.action = a,
         s.pc = "ready" => delivered'[a] = <<>>,
         s.pc = "recording" =>
            /\ s.result = "sent" => delivered'[a] # <<>>
            /\ s.result = "failed" /\ channel[a] = "email" => delivered'[a] = <<>>
            /\ s.result = "cancelled" => delivered'[a] = <<>>,
         \A b \in Actions \ {a} : delivered'[b] = delivered[b],
         Len(delivered'[a]) <= 1,
         UNCHANGED <<status, approved, channel, text, mail, match>>
  PROVE  IInv'
  <1>1. /\ ~Undispatched(a) /\ approved[a] # NoText /\ delivered[a] = <<>>
        /\ \A v \in Workers : Holds(v, a) => v = w
        /\ channel[a] = ChannelOf(w)
    BY DEF IInv, UndispatchedFree, TextBeforeApproval, OneHolder, Holds
  <1>2. UndispatchedFree'
    BY <1>1 DEF IInv, UndispatchedFree, Undispatched, Holds, Recovers
  <1>3. TextBeforeApproval'
    BY DEF IInv, TextBeforeApproval, Undispatched
  <1>4. OneHolder'
    BY <1>1 DEF IInv, OneHolder, Holds, ChannelOf
  <1>5. ResultsTrue'
    BY <1>1 DEF IInv, ResultsTrue, Withheld, SentWasTaken, Holds
  <1>6. AnswersFollow' /\ DeliveredOnce'
    BY <1>1 DEF IInv, AnswersFollow, DeliveredOnce
  <1> QED
    BY <1>2, <1>3, <1>4, <1>5, <1>6 DEF IInv

LEMMA RevalidateStep ==
  ASSUME IInv, NEW w \in Workers, Revalidate(w)
  PROVE  IInv'
  <1> DEFINE a == worker[w].action
             Recorded(r) == [pc |-> "recording", action |-> a, result |-> r]
             Ready == [pc |-> "ready", action |-> a, text |-> worker[w].text]
  <1>1. /\ worker[w].pc = "claimed" /\ a \in Actions /\ worker[w].text \in Texts
        /\ worker[w] \in Sending
    BY WorkerShape DEF IInv, Revalidate
  <1>2. Holds(w, a) /\ delivered[a] = <<>>
    BY <1>1 DEF Holds, IInv, OneHolder
  <1>3. UNCHANGED <<rows, delivered, eligible, req, inbox, crashes>>
    BY DEF Revalidate
  <1>4. PICK s \in {Ready, Recorded("failed"), Recorded("cancelled")} :
          worker' = [worker EXCEPT ![w] = s]
    <2>1. [worker[w] EXCEPT !.pc = "ready"] = Ready
      BY <1>1 DEF Sending
    <2>2. [worker EXCEPT ![w].pc = "ready"] = [worker EXCEPT ![w] = Ready]
      BY <2>1, Zenon
    <2>3. \/ worker' = [worker EXCEPT ![w].pc = "ready"]
          \/ worker' = [worker EXCEPT ![w] = Recorded("failed")]
          \/ worker' = [worker EXCEPT ![w] = Recorded("cancelled")]
      BY DEF Revalidate, Settle
    <2> QED
      BY <2>2, <2>3, Zenon
  <1>5. /\ s \in Sending \cup Recording
        /\ s.pc \in {"ready", "recording"} /\ s.action = a
        /\ s.pc = "recording" => s.result \in {"failed", "cancelled"}
    BY <1>1 DEF Sending, Recording, Results
  <1> HIDE DEF a, Recorded, Ready
  <1>6. /\ worker' \in [Workers -> Sending \cup Recording \cup Recovering \cup {Idle}]
        /\ \A v \in Workers : worker'[v] = IF v = w THEN s ELSE worker[v]
    BY <1>4, <1>5, WorkerMoves DEF IInv
  <1>7. TypeOK'
    BY <1>3, <1>6 DEF IInv, TypeOK, rows, inbox
  <1>8. Len(delivered'[a]) <= 1 /\ delivered'[a] = <<>>
    BY <1>1, <1>2, <1>3 DEF IInv, DeliveredOnce
  <1> QED
    BY <1>1, <1>2, <1>3, <1>5, <1>6, <1>7, <1>8, HolderStep DEF rows, inbox

LEMMA DeliverStep ==
  ASSUME IInv, NEW w \in Workers, Deliver(w)
  PROVE  IInv'
  <1> DEFINE a == worker[w].action
             Recorded(r) == [pc |-> "recording", action |-> a, result |-> r]
  <1>1. worker[w].pc = "ready" /\ a \in Actions /\ worker[w].text \in Texts
    BY WorkerShape DEF IInv, Deliver, Attempt
  <1>2. Holds(w, a) /\ delivered[a] = <<>>
    BY <1>1 DEF Holds, IInv, OneHolder
  <1>3. UNCHANGED <<rows, eligible, req, inbox, crashes>>
    BY DEF Deliver, Attempt
  <1>4. PICK taken \in BOOLEAN, result \in {"sent", "failed", "uncertain"} :
          /\ result = "sent" => taken
          /\ result = "failed" => ~taken
          /\ delivered' = IF taken THEN [delivered EXCEPT ![a] = Append(@, worker[w].text)]
                          ELSE delivered
          /\ worker' = [worker EXCEPT ![w] =
                          Recorded(IF result = "uncertain" THEN Uncertain(w) ELSE result)]
    BY DEF Deliver, Attempt, Settle
  <1> DEFINE out == IF result = "uncertain" THEN Uncertain(w) ELSE result
             s == Recorded(out)
  <1>5. /\ out \in Results
        /\ out = "sent" => taken
        /\ out = "failed" /\ channel[a] = "email" => ~taken
        /\ out # "cancelled"
    BY <1>1, <1>2, <1>4 DEF Uncertain, Results, IInv, OneHolder, ChannelOf
  <1>6. /\ s \in Recording
        /\ s.pc = "recording" /\ s.action = a /\ s.result = out
    BY <1>1, <1>5 DEF Recording
  <1>7. worker' = [worker EXCEPT ![w] = s]
    BY <1>4
  <1> HIDE DEF a, out, s, Recorded
  <1>8. /\ worker' \in [Workers -> Sending \cup Recording \cup Recovering \cup {Idle}]
        /\ \A v \in Workers : worker'[v] = IF v = w THEN s ELSE worker[v]
    BY <1>6, <1>7, WorkerMoves DEF IInv
  <1>9. PICK more \in Seq(Texts) :
          /\ Len(more) <= 1
          /\ more = <<>> <=> ~taken
          /\ delivered' = [delivered EXCEPT ![a] = more]
    <2>1. delivered = [delivered EXCEPT ![a] = <<>>] /\ <<>> \in Seq(Texts) /\ Len(<<>>) <= 1
      BY <1>1, <1>2 DEF IInv, TypeOK
    <2>2. CASE ~taken
      BY <1>4, <2>1, <2>2
    <2>3. CASE taken
      <3> DEFINE t == worker[w].text
      <3>1. Append(<<>>, t) \in Seq(Texts) /\ Len(Append(<<>>, t)) <= 1 /\ Append(<<>>, t) # <<>>
        BY <1>1
      <3>2. delivered' = [delivered EXCEPT ![a] = Append(delivered[a], t)]
        BY <1>4, <2>3
      <3>3. delivered' = [delivered EXCEPT ![a] = Append(<<>>, t)]
        BY <3>2, <1>2, Zenon
      <3> QED
        BY <3>1, <3>3, <2>3, Zenon
    <2> QED
      BY <2>2, <2>3
  <1>10. /\ delivered' \in [Actions -> Seq(Texts)]
         /\ delivered'[a] = more
         /\ \A b \in Actions \ {a} : delivered'[b] = delivered[b]
    BY <1>1, <1>9 DEF IInv, TypeOK
  <1>11. TypeOK'
    BY <1>3, <1>8, <1>10 DEF IInv, TypeOK, rows, inbox
  <1>12. /\ out = "sent" => delivered'[a] # <<>>
         /\ out = "failed" /\ channel[a] = "email" => delivered'[a] = <<>>
         /\ out # "cancelled"
    BY <1>5, <1>9, <1>10
  <1> QED
    BY <1>1, <1>2, <1>3, <1>6, <1>8, <1>9, <1>10, <1>11, <1>12, HolderStep DEF rows, inbox

\* A holder records its result.
LEMMA RecordedStep ==
  ASSUME IInv, NEW w \in Workers, worker[w].pc = "recording",
         NEW r \in Results,
         r = worker[w].result \/ r = "delivery_unknown",
         status' = [status EXCEPT ![worker[w].action] = r],
         worker' = [worker EXCEPT ![w] = Idle],
         UNCHANGED <<channel, text, approved, stale, delivered, eligible, req, inbox, crashes>>
  PROVE  IInv'
  <1>1. PICK a \in Actions : a = worker[w].action /\ Holds(w, a)
    BY WorkerShape DEF IInv, Holds
  <1>2. /\ worker' \in [Workers -> Sending \cup Recording \cup Recovering \cup {Idle}]
        /\ \A v \in Workers : worker'[v] = IF v = w THEN Idle ELSE worker[v]
    BY WorkerMoves DEF IInv
  <1>3. TypeOK'
    BY <1>1, <1>2 DEF IInv, TypeOK, Results, Statuses, inbox
  <1>4. /\ status'[a] = r
        /\ \A b \in Actions \ {a} : status'[b] = status[b]
        /\ UNCHANGED <<channel, text, approved, delivered, mail, match>>
    BY <1>1 DEF IInv, TypeOK, inbox
  <1>5. /\ r = "sent" => delivered[a] # <<>>
        /\ r = "failed" /\ channel[a] = "email" => delivered[a] = <<>>
    BY <1>1 DEF IInv, ResultsTrue, Withheld
  <1>6. /\ ~Undispatched(a) /\ approved[a] # NoText
        /\ \A v \in Workers : Holds(v, a) => v = w
    BY <1>1 DEF IInv, UndispatchedFree, TextBeforeApproval, OneHolder
  <1>7. ~Undispatched(a)' /\ Idle.pc = "idle"
    BY <1>4, <1>6 DEF Undispatched, Results, Idle
  <1>8. UndispatchedFree'
    BY <1>2, <1>4, <1>7 DEF IInv, UndispatchedFree, Undispatched, Holds, Recovers
  <1>9. TextBeforeApproval'
    BY <1>4, <1>6, <1>7 DEF IInv, TextBeforeApproval, Undispatched, Results
  <1>10. OneHolder'
    BY <1>2, <1>4, <1>7 DEF IInv, OneHolder, Holds, ChannelOf
  <1>11. ResultsTrue'
    BY <1>2, <1>4, <1>5, <1>6, <1>7 DEF IInv, ResultsTrue, Withheld, SentWasTaken, Holds, Results
  <1>12. AnswersFollow' /\ DeliveredOnce'
    BY <1>4 DEF IInv, AnswersFollow, DeliveredOnce, Results
  <1> QED
    BY <1>3, <1>8, <1>9, <1>10, <1>11, <1>12 DEF IInv

LEMMA RecordStep ==
  ASSUME IInv, NEW w \in Workers, Record(w) \/ RecordUnknown(w)
  PROVE  IInv'
  <1>1. worker[w].pc = "recording" /\ worker[w].result \in Results
    BY WorkerShape DEF IInv, Record, RecordUnknown
  <1>2. CASE Record(w)
    BY <1>1, <1>2, RecordedStep DEF Record
  <1>3. CASE RecordUnknown(w)
    BY <1>1, <1>3, RecordedStep DEF RecordUnknown, Results
  <1> QED
    BY <1>2, <1>3

\* A worker lets go of what it holds, or takes up no more than stale actions.
LEMMA LetGoStep ==
  ASSUME IInv, TypeOK', NEW w \in Workers, NEW s,
         \A v \in Workers : worker'[v] = IF v = w THEN s ELSE worker[v],
         s.pc \in {"idle", "recovering"},
         s.pc = "recovering" => \A a \in s.todo : a \in Actions => ~Undispatched(a),
         UNCHANGED <<status, channel, text, approved, delivered, mail, match>>
  PROVE  IInv'
  <1>1. UndispatchedFree'
    BY DEF IInv, UndispatchedFree, Undispatched, Holds, Recovers
  <1>2. TextBeforeApproval'
    BY DEF IInv, TextBeforeApproval, Undispatched
  <1>3. OneHolder'
    BY DEF IInv, OneHolder, Holds, ChannelOf
  <1>4. ResultsTrue'
    BY DEF IInv, ResultsTrue, Withheld, SentWasTaken, Holds
  <1>5. AnswersFollow' /\ DeliveredOnce'
    BY DEF IInv, AnswersFollow, DeliveredOnce
  <1> QED
    BY <1>1, <1>2, <1>3, <1>4, <1>5 DEF IInv

LEMMA SweepStep ==
  ASSUME IInv, NEW w \in Workers, Sweep(w)
  PROVE  IInv'
  <1> DEFINE s == [pc |-> "recovering", todo |-> Stale]
  <1>1. s \in Recovering /\ s.pc = "recovering" /\ s.todo = Stale
    BY DEF Recovering, Stale
  <1>2. \A a \in Stale : ~Undispatched(a)
    BY DEF Stale, Undispatched
  <1>3. worker' = [worker EXCEPT ![w] = s]
    BY DEF Sweep, SweepOf
  <1> HIDE DEF s
  <1>4. /\ worker' \in [Workers -> Sending \cup Recording \cup Recovering \cup {Idle}]
        /\ \A v \in Workers : worker'[v] = IF v = w THEN s ELSE worker[v]
    BY <1>1, <1>3, WorkerMoves DEF IInv
  <1>5. UNCHANGED <<rows, delivered, eligible, req, inbox, crashes>>
    BY DEF Sweep, SweepOf
  <1>6. TypeOK'
    BY <1>4, <1>5 DEF IInv, TypeOK, rows, inbox
  <1> QED
    BY <1>1, <1>2, <1>4, <1>5, <1>6, LetGoStep DEF rows, inbox

LEMMA CrashStep ==
  ASSUME IInv, NEW w \in Workers, Crash(w)
  PROVE  IInv'
  <1>1. /\ worker' \in [Workers -> Sending \cup Recording \cup Recovering \cup {Idle}]
        /\ \A v \in Workers : worker'[v] = IF v = w THEN Idle ELSE worker[v]
    BY WorkerMoves DEF IInv, Crash
  <1>2. TypeOK'
    BY <1>1 DEF IInv, TypeOK, Crash, rows, inbox
  <1>3. Idle.pc = "idle"
    BY DEF Idle
  <1> QED
    BY <1>1, <1>2, <1>3, LetGoStep DEF Crash, rows, inbox

LEMMA RecoverStep ==
  ASSUME IInv, NEW w \in Workers, Recover(w)
  PROVE  IInv'
  <1>1. worker[w].pc = "recovering" /\ worker[w].todo \subseteq Actions
    BY WorkerShape DEF IInv, Recover, RecoverAs
  <1>2. PICK a \in worker[w].todo :
          /\ status' = [status EXCEPT ![a] = "delivery_unknown"]
          /\ worker' = [worker EXCEPT ![w] =
                          IF worker[w].todo = {a} THEN Idle
                          ELSE [pc |-> "recovering", todo |-> worker[w].todo \ {a}]]
    BY DEF Recover, RecoverAs
  <1> DEFINE s == IF worker[w].todo = {a} THEN Idle
                  ELSE [pc |-> "recovering", todo |-> worker[w].todo \ {a}]
  <1>3. /\ s \in Recovering \cup {Idle}
        /\ s.pc \in {"idle", "recovering"}
        /\ s.pc = "recovering" => s.todo \subseteq worker[w].todo
    BY <1>1 DEF Recovering, Idle
  <1>4. worker' = [worker EXCEPT ![w] = s]
    BY <1>2
  <1> HIDE DEF s
  <1>5. /\ worker' \in [Workers -> Sending \cup Recording \cup Recovering \cup {Idle}]
        /\ \A v \in Workers : worker'[v] = IF v = w THEN s ELSE worker[v]
    BY <1>3, <1>4, WorkerMoves DEF IInv
  <1>6. UNCHANGED <<channel, text, approved, stale, delivered, eligible, req, inbox, crashes>>
    BY DEF Recover, RecoverAs
  <1>7. TypeOK'
    BY <1>1, <1>2, <1>5, <1>6 DEF IInv, TypeOK, Statuses, inbox
  <1>8. /\ a \in Actions /\ status'[a] = "delivery_unknown"
        /\ \A b \in Actions \ {a} : status'[b] = status[b]
    BY <1>1, <1>2 DEF IInv, TypeOK
  <1>9. \A b \in worker[w].todo : ~Undispatched(b)
    BY <1>1 DEF IInv, UndispatchedFree, Recovers
  <1>10. ~Undispatched(a) /\ ~Undispatched(a)' /\ approved[a] # NoText
    BY <1>8, <1>9 DEF IInv, TextBeforeApproval, Undispatched
  <1>11. UNCHANGED <<channel, text, approved, delivered, mail, match>>
    BY <1>6 DEF inbox
  <1>12. UndispatchedFree'
    BY <1>1, <1>3, <1>5, <1>8, <1>10, <1>11
       DEF IInv, UndispatchedFree, Undispatched, Holds, Recovers
  <1>13. TextBeforeApproval'
    BY <1>8, <1>10, <1>11 DEF IInv, TextBeforeApproval, Undispatched
  <1>14. OneHolder'
    BY <1>3, <1>5, <1>8, <1>11 DEF IInv, OneHolder, Holds, ChannelOf
  <1>15. ResultsTrue'
    BY <1>3, <1>5, <1>8, <1>11 DEF IInv, ResultsTrue, Withheld, SentWasTaken, Holds
  <1>16. AnswersFollow' /\ DeliveredOnce'
    BY <1>8, <1>11 DEF IInv, AnswersFollow, DeliveredOnce
  <1> QED
    BY <1>7, <1>12, <1>13, <1>14, <1>15, <1>16 DEF IInv

-----------------------------------------------------------------------------
(* Steps of correspondents and of reply correlation.                       *)

\* Only mail and the correlation in progress change.
LEMMA MailStep ==
  ASSUME IInv, TypeOK', AnswersFollow',
         \A a \in Actions : match' = a => match = a \/ ~Undispatched(a),
         UNCHANGED <<status, channel, text, approved, delivered, worker>>
  PROVE  IInv'
  <1>1. UndispatchedFree'
    BY DEF IInv, UndispatchedFree, Undispatched, Holds, Recovers
  <1>2. TextBeforeApproval'
    BY DEF IInv, TextBeforeApproval, Undispatched
  <1>3. OneHolder' /\ ResultsTrue' /\ DeliveredOnce'
    BY DEF IInv, OneHolder, Holds, ChannelOf, ResultsTrue, Withheld, SentWasTaken, DeliveredOnce
  <1> QED
    BY <1>1, <1>2, <1>3 DEF IInv

LEMMA WriteStep ==
  ASSUME IInv, NEW a \in Actions, NEW s \in Senders, Write(a, s)
  PROVE  IInv'
  <1>1. TypeOK'
    BY DEF IInv, TypeOK, Write, rows
  <1>2. /\ delivered[a] # <<>> /\ mail[a][s] = "none"
        /\ \A b \in Actions, r \in Senders :
             mail'[b][r] = IF b = a /\ r = s THEN "waiting" ELSE mail[b][r]
        /\ UNCHANGED <<status, channel, text, approved, delivered, worker, match>>
    BY DEF IInv, TypeOK, Write, rows
  <1>3. AnswersFollow'
    BY <1>2 DEF IInv, AnswersFollow, Senders
  <1> QED
    BY <1>1, <1>2, <1>3, MailStep

LEMMA MatchStep ==
  ASSUME IInv, NEW a \in Actions, Match(a)
  PROVE  IInv'
  <1>1. PICK s \in Senders :
          /\ mail[a][s] = "waiting"
          /\ mail' = [mail EXCEPT ![a][s] = "synced"]
          /\ match' = IF s \in {"customer"} /\ status[a] \in {"sent", "delivery_unknown"}
                      THEN a ELSE NoMatch
    BY DEF Match, MatchIn
  <1>2. /\ match = NoMatch
        /\ UNCHANGED <<rows, delivered, eligible, req, worker, correlated, crashes>>
    BY DEF Match, MatchIn
  <1>3. TypeOK'
    BY <1>1, <1>2 DEF IInv, TypeOK, rows
  <1>4. \A b \in Actions, r \in Senders :
          mail'[b][r] = IF b = a /\ r = s THEN "synced" ELSE mail[b][r]
    BY <1>1 DEF IInv, TypeOK
  <1>5. /\ match' # NoMatch => /\ match' = a /\ s = "customer"
                               /\ status[a] \in {"sent", "delivery_unknown"}
        /\ delivered[a] # <<>>
        /\ UNCHANGED <<status, channel, text, approved, delivered, worker>>
    BY <1>1, <1>2 DEF IInv, AnswersFollow, rows
  <1>6. AnswersFollow'
    BY <1>4, <1>5, NoMatchAssumption DEF IInv, AnswersFollow, Senders
  <1>7. \A b \in Actions : match' = b => ~Undispatched(b)
    BY <1>5, NoMatchAssumption DEF Undispatched
  <1> QED
    BY <1>3, <1>5, <1>6, <1>7, MailStep

LEMMA InterruptStep ==
  ASSUME IInv, Interrupt
  PROVE  IInv'
  <1>1. match \in Actions /\ match' = NoMatch
    BY DEF IInv, TypeOK, Interrupt
  <1>2. TypeOK'
    BY <1>1 DEF IInv, TypeOK, Interrupt, rows, Senders
  <1>3. /\ \A b \in Actions, r \in Senders :
             mail'[b][r] = IF b = match /\ r = "customer" THEN "waiting" ELSE mail[b][r]
        /\ UNCHANGED <<status, channel, text, approved, delivered, worker>>
    BY <1>1 DEF IInv, TypeOK, Interrupt, rows
  <1>4. AnswersFollow'
    BY <1>1, <1>3, NoMatchAssumption DEF IInv, AnswersFollow, Senders
  <1> QED
    BY <1>1, <1>2, <1>3, <1>4, NoMatchAssumption, MailStep

LEMMA AttachStep ==
  ASSUME IInv, Attach
  PROVE  IInv'
  <1>1. PICK a \in Actions : a = match
    BY DEF IInv, TypeOK, Attach
  <1>2. TypeOK'
    BY <1>1 DEF IInv, TypeOK, Attach, Statuses
  <1>3. /\ status'[a] = "replied" /\ match' = NoMatch
        /\ \A b \in Actions \ {a} : status'[b] = status[b]
        /\ UNCHANGED <<channel, text, approved, delivered, mail, worker>>
    BY <1>1 DEF IInv, TypeOK, Attach
  <1>4. ~Undispatched(a) /\ ~Undispatched(a)' /\ approved[a] # NoText
    BY <1>1, <1>3 DEF IInv, UndispatchedFree, TextBeforeApproval, Undispatched
  <1>5. mail[a]["customer"] = "synced" /\ delivered[a] # <<>>
    BY <1>1 DEF IInv, AnswersFollow, Senders
  <1>6. UndispatchedFree'
    BY <1>3, <1>4, NoMatchAssumption DEF IInv, UndispatchedFree, Undispatched, Holds, Recovers
  <1>7. TextBeforeApproval'
    BY <1>3, <1>4 DEF IInv, TextBeforeApproval, Undispatched
  <1>8. OneHolder'
    BY <1>3 DEF IInv, OneHolder, Holds, ChannelOf
  <1>9. ResultsTrue'
    BY <1>3, <1>5 DEF IInv, ResultsTrue, Withheld, SentWasTaken, Holds
  <1>10. AnswersFollow' /\ DeliveredOnce'
    BY <1>3, <1>5, NoMatchAssumption DEF IInv, AnswersFollow, DeliveredOnce
  <1> QED
    BY <1>2, <1>6, <1>7, <1>8, <1>9, <1>10 DEF IInv

-----------------------------------------------------------------------------
LEMMA NextIInv == IInv /\ [Next]_vars => IInv'
  <1> SUFFICES ASSUME IInv, [Next]_vars PROVE IInv'
    OBVIOUS
  <1>1. ASSUME NEW a \in Actions, NEW c \in Channels, NEW t \in Texts, Create(a, c, t)
        PROVE  IInv'
    BY <1>1, CreateStep
  <1>2. ASSUME NEW a \in Actions,
               \/ EligibilityChanges(a) \/ Lapse(a) \/ Reject(a) \/ Cancel(a) \/ Match(a)
               \/ \E s \in Senders : Write(a, s)
        PROVE  IInv'
    BY <1>2, SurroundingsStep, RefuseStep, MatchStep, WriteStep
  <1>3. ASSUME NEW u \in Users, UserStep(u) PROVE IInv'
    BY <1>3, UserSteps
  <1>4. ASSUME NEW w \in Workers, WorkerStep(w) \/ Crash(w) PROVE IInv'
    BY <1>4, ClaimStep, RevalidateStep, DeliverStep, RecordStep, SweepStep, RecoverStep,
       CrashStep DEF WorkerStep
  <1>5. CASE Attach \/ Interrupt
    BY <1>5, AttachStep, InterruptStep
  <1>6. CASE UNCHANGED vars
    <2>1. TypeOK'
      BY <1>6 DEF IInv, TypeOK, vars, rows, inbox
    <2> QED
      BY <1>6, <2>1, FrameStep DEF vars, rows, inbox
  <1> QED
    BY <1>1, <1>2, <1>3, <1>4, <1>5, <1>6 DEF Next

\* Refusals are never undone.
LEMMA RefusalStep ==
  ASSUME IInv, [Next]_vars, NEW a \in Actions
  PROVE  /\ status[a] = "rejected" => status'[a] = "rejected"
         /\ status[a] = "cancelled" /\ approved[a] = NoText => status'[a] = "cancelled"
  <1> SUFFICES ASSUME \/ status[a] = "rejected"
                      \/ status[a] = "cancelled" /\ approved[a] = NoText
               PROVE  status'[a] = status[a]
    OBVIOUS
  <1>1. /\ match # a
        /\ \A w \in Workers : ~Holds(w, a) /\ ~Recovers(w, a)
    BY DEF IInv, UndispatchedFree, Undispatched
  <1>2. ASSUME NEW b \in Actions, NEW c \in Channels, NEW t \in Texts, Create(b, c, t)
        PROVE  status'[a] = status[a]
    BY <1>2 DEF IInv, TypeOK, Create
  <1>3. ASSUME NEW b \in Actions,
               \/ EligibilityChanges(b) \/ Lapse(b) \/ Reject(b) \/ Cancel(b) \/ Match(b)
               \/ \E s \in Senders : Write(b, s)
        PROVE  status'[a] = status[a]
    BY <1>3 DEF IInv, TypeOK, EligibilityChanges, Lapse, Reject, Cancel, Refuse, Match, MatchIn,
                Write, rows
  <1>4. ASSUME NEW u \in Users, UserStep(u) PROVE status'[a] = status[a]
    BY <1>4 DEF IInv, TypeOK, UserStep, BeginEdit, BeginMove, FinishEdit, FinishSubmit,
                FinishApprove, Approve, Abandon, rows
  <1>5. ASSUME NEW w \in Workers, WorkerStep(w) \/ Crash(w) PROVE status'[a] = status[a]
    <2>1. ASSUME NEW b \in Actions, Claim(w, b) PROVE status'[a] = status[a]
      BY <2>1 DEF IInv, TypeOK, Claim, ClaimFrom
    <2>2. CASE Record(w) \/ RecordUnknown(w)
      BY <1>1, <2>2, WorkerShape DEF IInv, TypeOK, Record, RecordUnknown, Holds
    <2>3. CASE Recover(w)
      BY <1>1, <2>3 DEF IInv, TypeOK, Recover, RecoverAs, Recovers
    <2>4. CASE Revalidate(w) \/ Deliver(w) \/ Sweep(w) \/ Crash(w)
      BY <2>4 DEF Revalidate, Deliver, Attempt, Sweep, SweepOf, Crash, rows
    <2> QED
      BY <1>5, <2>1, <2>2, <2>3, <2>4 DEF WorkerStep
  <1>6. CASE Attach \/ Interrupt
    BY <1>1, <1>6 DEF IInv, TypeOK, Attach, Interrupt, rows
  <1>7. CASE UNCHANGED vars
    BY <1>7 DEF vars, rows
  <1> QED
    BY <1>2, <1>3, <1>4, <1>5, <1>6, <1>7 DEF Next

-----------------------------------------------------------------------------
(* One email worker: an answer, once correlated, keeps showing.            *)

\* More than one process of email_connector.runner is not what is deployed.
OneEmailWorker == \A v, w \in EmailWorkers : v = w

InHand(w, a) == Holds(w, a) \/ Recovers(w, a)

\* An email in a worker's hand is still "sending"; what is being correlated
\* was recorded, and what was correlated shows it.
RepliesKept ==
    \A a \in Actions :
        /\ channel[a] = "email" =>
              \A w \in Workers : InHand(w, a) => status[a] = "sending" /\ w \in EmailWorkers
        /\ \A s \in Senders : mail[a][s] # "none" => channel[a] = "email"
        /\ match = a => status[a] \in {"sent", "delivery_unknown"}
        /\ a \in correlated => status[a] = "replied" /\ channel[a] = "email"

\* Beside the correlation: no row changes, no hand is filled, no answer comes
\* but to an email.
LEMMA KeptBeside ==
  ASSUME RepliesKept,
         UNCHANGED <<status, channel, match, correlated>>,
         \A a \in Actions, s \in Senders :
            mail'[a][s] # "none" => mail[a][s] # "none" \/ channel[a] = "email",
         \A a \in Actions, w \in Workers : InHand(w, a)' => InHand(w, a)
  PROVE  RepliesKept'
  BY DEF RepliesKept

LEMMA KeptWorkers ==
  ASSUME RepliesKept, NEW w \in Workers, NEW s,
         UNCHANGED <<status, channel, match, correlated, mail>>,
         \A v \in Workers : worker'[v] = IF v = w THEN s ELSE worker[v],
         \A a \in Actions :
            \/ s.pc \in {"claimed", "ready", "recording"} /\ s.action = a
            \/ s.pc = "recovering" /\ a \in s.todo
            => InHand(w, a)
  PROVE  RepliesKept'
  <1>1. \A a \in Actions, v \in Workers : InHand(v, a)' => InHand(v, a)
    BY DEF InHand, Holds, Recovers
  <1> QED
    BY <1>1, KeptBeside

\* What only users act on was never in a hand, and nobody answers to it.
LEMMA KeptUndispatched ==
  ASSUME IInv, RepliesKept, NEW a \in Actions,
         status[a] \in {"absent", "draft", "pending_approval"},
         \A b \in Actions \ {a} : status'[b] = status[b] /\ channel'[b] = channel[b],
         UNCHANGED <<worker, mail, match, correlated>>
  PROVE  RepliesKept'
  <1>1. /\ match # a /\ a \notin correlated
        /\ \A w \in Workers : ~InHand(w, a)
        /\ \A s \in Senders : mail[a][s] = "none"
    BY DEF IInv, UndispatchedFree, Undispatched, AnswersFollow, RepliesKept, InHand
  <1>2. \A b \in Actions, w \in Workers : InHand(w, b)' <=> InHand(w, b)
    BY DEF InHand, Holds, Recovers
  <1> QED
    BY <1>1, <1>2 DEF RepliesKept

\* A worker takes an action in its hand, or writes to one that is in it.
LEMMA KeptWritten ==
  ASSUME IInv, RepliesKept, OneEmailWorker, NEW w \in Workers, NEW a \in Actions, NEW s,
         \/ status[a] = "approved" /\ status'[a] = "sending" /\ channel[a] = ChannelOf(w)
              /\ s.pc = "claimed" /\ s.action = a
         \/ InHand(w, a) /\ s.pc \in {"idle", "recovering"},
         s.pc = "recovering" => Recovers(w, a) /\ \A b \in s.todo : b # a /\ Recovers(w, b),
         \A b \in Actions \ {a} : status'[b] = status[b],
         \A v \in Workers : worker'[v] = IF v = w THEN s ELSE worker[v],
         UNCHANGED <<channel, mail, match, correlated>>
  PROVE  RepliesKept'
  <1>1. CASE status[a] = "approved"
    <2>1. match # a /\ a \notin correlated /\ \A v \in Workers : ~InHand(v, a)
      BY <1>1 DEF IInv, UndispatchedFree, Undispatched, RepliesKept, InHand
    <2>2. s.pc = "claimed" /\ s.action = a /\ status'[a] = "sending" /\ channel[a] = ChannelOf(w)
      BY <2>1
    <2>3. \A b \in Actions \ {a}, v \in Workers : InHand(v, b)' => InHand(v, b)
      BY <2>2 DEF InHand, Holds, Recovers
    <2>4. \A v \in Workers : InHand(v, a)' => v = w
      BY <2>1, <2>2 DEF InHand, Holds, Recovers
    <2>5. channel[a] = "email" => w \in EmailWorkers
      BY <2>2 DEF ChannelOf
    <2> QED
      BY <2>1, <2>2, <2>3, <2>4, <2>5 DEF RepliesKept
  <1>2. CASE status[a] # "approved"
    <2>1. InHand(w, a) /\ s.pc \in {"idle", "recovering"}
      BY <1>2
    <2>2. channel[a] = "email" => status[a] = "sending" /\ w \in EmailWorkers
      BY <2>1 DEF RepliesKept
    <2>3. channel[a] = "email" => match # a /\ a \notin correlated
      BY <2>2 DEF RepliesKept
    <2>4. match # a /\ a \notin correlated
      BY <2>3 DEF IInv, AnswersFollow, RepliesKept, Senders
    <2>5. \A b \in Actions, v \in Workers : InHand(v, b)' => InHand(v, b) /\ (b = a => v # w)
      BY <2>1 DEF InHand, Holds, Recovers
    <2>6. channel[a] = "email" => \A v \in Workers : ~InHand(v, a)'
      <3> SUFFICES ASSUME channel[a] = "email", NEW v \in Workers, InHand(v, a)' PROVE FALSE
        OBVIOUS
      <3>1. InHand(v, a) /\ v # w
        BY <2>5
      <3>2. v \in EmailWorkers /\ w \in EmailWorkers
        BY <2>2, <3>1 DEF RepliesKept
      <3> QED
        BY <3>1, <3>2 DEF OneEmailWorker
    <2> QED
      BY <2>4, <2>5, <2>6 DEF RepliesKept
  <1> QED
    BY <1>1, <1>2

LEMMA KeptInit == Init => RepliesKept
  <1> SUFFICES ASSUME Init PROVE RepliesKept
    OBVIOUS
  <1>1. \A w \in Workers, a \in Actions : ~InHand(w, a)
    BY DEF Init, InHand, Holds, Recovers, Idle
  <1>2. /\ \A a \in Actions, s \in Senders : mail[a][s] = "none"
        /\ match = NoMatch /\ correlated = {}
    BY DEF Init
  <1> QED
    BY <1>1, <1>2, NoMatchAssumption DEF RepliesKept

LEMMA KeptUsers ==
  ASSUME IInv, RepliesKept, NEW u \in Users, UserStep(u)
  PROVE  RepliesKept'
  <1>1. CASE (\E a \in Actions, t \in Texts : BeginEdit(u, a, t)) \/ FinishEdit(u) \/ Abandon(u)
             \/ (\E a \in Actions, op \in {"submit", "approve"} : BeginMove(u, op, a))
    <2>1. UNCHANGED <<status, channel, worker, mail, match, correlated>>
      BY <1>1 DEF BeginEdit, BeginMove, FinishEdit, Abandon, rows, inbox
    <2> QED
      BY <2>1, KeptBeside DEF InHand, Holds, Recovers
  <1>2. CASE FinishSubmit(u) \/ FinishApprove(u)
    <2>1. req[u].action \in Actions
      BY <1>2, ReqShape DEF IInv, FinishSubmit, FinishApprove, Approve
    <2>2. /\ status[req[u].action] \in {"draft", "pending_approval"}
          /\ \A b \in Actions \ {req[u].action} : status'[b] = status[b]
          /\ UNCHANGED <<channel, worker, mail, match, correlated>>
      BY <1>2, <2>1 DEF IInv, TypeOK, FinishSubmit, FinishApprove, Approve, inbox
    <2> QED
      BY <2>1, <2>2, KeptUndispatched
  <1> QED
    BY <1>1, <1>2 DEF UserStep

LEMMA KeptSurroundings ==
  ASSUME IInv, RepliesKept, NEW a \in Actions,
         \/ \E c \in Channels, t \in Texts : Create(a, c, t)
         \/ EligibilityChanges(a) \/ Lapse(a) \/ Reject(a) \/ Cancel(a) \/ Match(a)
         \/ \E s \in Senders : Write(a, s)
  PROVE  RepliesKept'
  <1>1. CASE (\E c \in Channels, t \in Texts : Create(a, c, t)) \/ Reject(a) \/ Cancel(a)
    <2>1. /\ status[a] \in {"absent", "draft", "pending_approval"}
          /\ \A b \in Actions \ {a} : status'[b] = status[b] /\ channel'[b] = channel[b]
          /\ UNCHANGED <<worker, mail, match, correlated>>
      BY <1>1 DEF IInv, TypeOK, Create, Reject, Cancel, Refuse, inbox
    <2> QED
      BY <2>1, KeptUndispatched
  <1>2. CASE EligibilityChanges(a) \/ Lapse(a)
    <2>1. UNCHANGED <<status, channel, worker, mail, match, correlated>>
      BY <1>2 DEF EligibilityChanges, Lapse, rows, inbox
    <2> QED
      BY <2>1, KeptBeside DEF InHand, Holds, Recovers
  <1>3. CASE \E s \in Senders : Write(a, s)
    <2>1. /\ channel[a] = "email"
          /\ \A b \in Actions \ {a}, r \in Senders : mail'[b][r] = mail[b][r]
          /\ UNCHANGED <<status, channel, worker, match, correlated>>
      BY <1>3 DEF IInv, TypeOK, Write, rows
    <2> QED
      BY <2>1, KeptBeside DEF InHand, Holds, Recovers
  <1>4. CASE Match(a)
    <2>1. /\ UNCHANGED <<status, channel, worker, correlated>>
          /\ match' # NoMatch => match' = a /\ status[a] \in {"sent", "delivery_unknown"}
          /\ \A b \in Actions, r \in Senders : mail'[b][r] # "none" => mail[b][r] # "none"
      <3>1. PICK s \in Senders :
              /\ mail[a][s] = "waiting"
              /\ mail' = [mail EXCEPT ![a][s] = "synced"]
              /\ match' = IF s \in {"customer"} /\ status[a] \in {"sent", "delivery_unknown"}
                          THEN a ELSE NoMatch
        BY <1>4 DEF Match, MatchIn
      <3>2. \A b \in Actions, r \in Senders :
              mail'[b][r] = IF b = a /\ r = s THEN "synced" ELSE mail[b][r]
        BY <3>1 DEF IInv, TypeOK
      <3>3. UNCHANGED <<status, channel, worker, correlated>>
        BY <1>4 DEF Match, MatchIn, rows
      <3> QED
        BY <3>1, <3>2, <3>3
    <2>2. \A b \in Actions, w \in Workers : InHand(w, b)' => InHand(w, b)
      BY <2>1 DEF InHand, Holds, Recovers
    <2> QED
      BY <2>1, <2>2, NoMatchAssumption DEF RepliesKept
  <1> QED
    BY <1>1, <1>2, <1>3, <1>4

LEMMA KeptMail ==
  ASSUME IInv, RepliesKept, Attach \/ Interrupt
  PROVE  RepliesKept'
  <1>1. match \in Actions
    BY DEF IInv, TypeOK, Attach, Interrupt
  <1>2. UNCHANGED <<channel, worker>> /\ match' = NoMatch
    BY DEF Attach, Interrupt, rows
  <1>3. \A b \in Actions, w \in Workers : InHand(w, b)' => InHand(w, b)
    BY <1>2 DEF InHand, Holds, Recovers
  <1>4. CASE Attach
    <2>1. /\ mail' = mail /\ status'[match] = "replied" /\ correlated' = correlated \cup {match}
          /\ \A b \in Actions \ {match} : status'[b] = status[b]
      BY <1>1, <1>4 DEF IInv, TypeOK, Attach
    <2>2. channel[match] = "email" /\ \A w \in Workers : ~InHand(w, match)
      BY <1>1 DEF IInv, AnswersFollow, RepliesKept, Senders
    <2> QED
      BY <1>1, <1>2, <1>3, <2>1, <2>2, NoMatchAssumption DEF RepliesKept
  <1>5. CASE Interrupt
    <2>1. /\ UNCHANGED <<status, correlated>>
          /\ \A b \in Actions, r \in Senders :
               mail'[b][r] = IF b = match /\ r = "customer" THEN "waiting" ELSE mail[b][r]
      BY <1>1, <1>5 DEF IInv, TypeOK, Interrupt, rows
    <2>2. channel[match] = "email"
      BY <1>1 DEF IInv, AnswersFollow, RepliesKept, Senders
    <2> QED
      BY <1>2, <1>3, <2>1, <2>2, NoMatchAssumption DEF RepliesKept
  <1> QED
    BY <1>4, <1>5

LEMMA KeptWorkerSteps ==
  ASSUME IInv, RepliesKept, OneEmailWorker, NEW w \in Workers, WorkerStep(w) \/ Crash(w)
  PROVE  RepliesKept'
  <1>1. ASSUME NEW a \in Actions, Claim(w, a) PROVE RepliesKept'
    <2> DEFINE s == [pc |-> "claimed", action |-> a, text |-> text[a]]
    <2>1. /\ status[a] = "approved" /\ status'[a] = "sending" /\ channel[a] = ChannelOf(w)
          /\ \A b \in Actions \ {a} : status'[b] = status[b]
          /\ UNCHANGED <<channel, mail, match, correlated>>
      BY <1>1 DEF IInv, TypeOK, Claim, ClaimFrom, inbox
    <2>2. \A v \in Workers : worker'[v] = IF v = w THEN s ELSE worker[v]
      BY <1>1 DEF IInv, TypeOK, Claim, ClaimFrom
    <2>3. s.pc = "claimed" /\ s.action = a
      OBVIOUS
    <2> HIDE DEF s
    <2> QED
      BY <2>1, <2>2, <2>3, KeptWritten
  <1>2. CASE Revalidate(w) \/ Deliver(w)
    <2>1. /\ worker[w].pc \in {"claimed", "ready"} /\ worker[w].action \in Actions
          /\ UNCHANGED <<status, channel, match, correlated, mail>>
      BY <1>2, WorkerShape DEF IInv, Revalidate, Deliver, Attempt, rows, inbox
    <2>2. \A a \in Actions, v \in Workers : InHand(v, a)' => InHand(v, a)
      <3>1. \/ worker' = [worker EXCEPT ![w].pc = "ready"]
            \/ \E r : worker' = [worker EXCEPT ![w] =
                                   [pc |-> "recording", action |-> worker[w].action, result |-> r]]
        BY <1>2 DEF Revalidate, Deliver, Attempt, Settle
      <3>2. worker[w] \in Sending
        BY <2>1, WorkerShape DEF IInv
      <3>3. /\ worker'[w].pc \in {"ready", "recording"} /\ worker'[w].action = worker[w].action
            /\ \A v \in Workers \ {w} : worker'[v] = worker[v]
        BY <3>1, <3>2 DEF IInv, TypeOK, Sending
      <3> QED
        BY <2>1, <3>3 DEF InHand, Holds, Recovers
    <2> QED
      BY <2>1, <2>2, KeptBeside
  <1>3. CASE Record(w) \/ RecordUnknown(w)
    <2>1. PICK a \in Actions : a = worker[w].action /\ worker[w].pc = "recording"
      BY <1>3, WorkerShape DEF IInv, Record, RecordUnknown
    <2>2. /\ \A b \in Actions \ {a} : status'[b] = status[b]
          /\ \A v \in Workers : worker'[v] = IF v = w THEN Idle ELSE worker[v]
          /\ UNCHANGED <<channel, mail, match, correlated>>
      BY <1>3, <2>1 DEF IInv, TypeOK, Record, RecordUnknown, inbox
    <2>3. InHand(w, a)
      BY <2>1 DEF InHand, Holds
    <2>4. Idle.pc = "idle"
      BY DEF Idle
    <2> QED
      BY <2>2, <2>3, <2>4, KeptWritten
  <1>4. CASE Sweep(w)
    <2>1. /\ w \in EmailWorkers
          /\ UNCHANGED <<status, channel, match, correlated, mail>>
      BY <1>4 DEF Sweep, SweepOf, rows, inbox
    <2>2. \A v \in Workers :
            worker'[v] = IF v = w THEN [pc |-> "recovering", todo |-> Stale] ELSE worker[v]
      BY <1>4 DEF Sweep, SweepOf, IInv, TypeOK
    <2>3. \A a \in Actions, v \in Workers :
            InHand(v, a)' => InHand(v, a) \/ (v = w /\ status[a] = "sending")
      <3> SUFFICES ASSUME NEW a \in Actions, NEW v \in Workers, InHand(v, a)'
                   PROVE  InHand(v, a) \/ (v = w /\ status[a] = "sending")
        OBVIOUS
      <3>1. CASE v = w
        <4>1. worker'[v].pc = "recovering" /\ worker'[v].todo = Stale
          BY <2>2, <3>1
        <4>2. a \in Stale
          BY <4>1 DEF InHand, Holds, Recovers
        <4> QED
          BY <3>1, <4>2 DEF Stale
      <3>2. CASE v # w
        BY <2>2, <3>2 DEF InHand, Holds, Recovers
      <3> QED
        BY <3>1, <3>2
    <2> QED
      BY <2>1, <2>3 DEF RepliesKept
  <1>5. CASE Recover(w)
    <2>1. worker[w].pc = "recovering" /\ worker[w].todo \subseteq Actions
      BY <1>5, WorkerShape DEF IInv, Recover, RecoverAs
    <2>2. PICK a \in worker[w].todo :
            /\ status' = [status EXCEPT ![a] = "delivery_unknown"]
            /\ worker' = [worker EXCEPT ![w] =
                            IF worker[w].todo = {a} THEN Idle
                            ELSE [pc |-> "recovering", todo |-> worker[w].todo \ {a}]]
      BY <1>5 DEF Recover, RecoverAs
    <2> DEFINE s == IF worker[w].todo = {a} THEN Idle
                    ELSE [pc |-> "recovering", todo |-> worker[w].todo \ {a}]
    <2>3. /\ s.pc \in {"idle", "recovering"}
          /\ s.pc = "recovering" => \A b \in s.todo : b # a /\ b \in worker[w].todo
      BY DEF Idle
    <2>4. \A v \in Workers : worker'[v] = IF v = w THEN s ELSE worker[v]
      BY <2>2 DEF IInv, TypeOK
    <2> HIDE DEF s
    <2>5. /\ a \in Actions /\ \A b \in Actions \ {a} : status'[b] = status[b]
          /\ UNCHANGED <<channel, mail, match, correlated>>
      BY <1>5, <2>1, <2>2 DEF IInv, TypeOK, Recover, RecoverAs, inbox
    <2>6. Recovers(w, a) /\ (s.pc = "recovering" => \A b \in s.todo : b # a /\ Recovers(w, b))
      BY <2>1, <2>3 DEF Recovers
    <2> QED
      BY <2>3, <2>4, <2>5, <2>6, KeptWritten DEF InHand
  <1>6. CASE Crash(w)
    <2>1. /\ \A v \in Workers : worker'[v] = IF v = w THEN Idle ELSE worker[v]
          /\ UNCHANGED <<status, channel, match, correlated, mail>>
      BY <1>6 DEF IInv, TypeOK, Crash, rows, inbox
    <2> QED
      BY <2>1, KeptWorkers DEF Idle
  <1> QED
    BY <1>1, <1>2, <1>3, <1>4, <1>5, <1>6 DEF WorkerStep

LEMMA NextKept == OneEmailWorker /\ IInv /\ RepliesKept /\ [Next]_vars => RepliesKept'
  <1> SUFFICES ASSUME OneEmailWorker, IInv, RepliesKept, [Next]_vars PROVE RepliesKept'
    OBVIOUS
  <1>1. CASE UNCHANGED vars
    <2>1. UNCHANGED <<status, channel, worker, mail, match, correlated>>
      BY <1>1 DEF vars, rows, inbox
    <2> QED
      BY <2>1, KeptBeside DEF InHand, Holds, Recovers
  <1> QED
    BY <1>1, KeptUsers, KeptSurroundings, KeptMail, KeptWorkerSteps DEF Next

-----------------------------------------------------------------------------
(* The refinement: what the firm is told of an action.                     *)

Unreported == {"absent", "draft", "pending_approval", "approved", "sending"}

LEMMA ToldIs ==
  ASSUME NEW a \in Actions, status[a] \in Statuses
  PROVE  /\ status[a] \in Unreported => Told(a) = "nothing"
         /\ status[a] \in {"sent", "replied"} => Told(a) = status[a]
         /\ status[a] = "delivery_unknown" => Told(a) = "unknown"
         /\ status[a] = "failed" => Told(a) = IF channel[a] = "email" THEN "withheld" ELSE "unknown"
         /\ status[a] = "rejected" => Told(a) = "refused"
         /\ status[a] = "cancelled" => Told(a) = IF approved[a] = NoText THEN "refused" ELSE "withheld"
  BY DEF Told, Unreported

LEMMA ToldSame ==
  ASSUME TypeOK, TypeOK', NEW a \in Actions,
         \/ status'[a] = status[a] /\ approved'[a] = approved[a] /\ channel'[a] = channel[a]
         \/ status[a] \in Unreported /\ status'[a] \in Unreported
  PROVE  Told(a)' = Told(a)
  <1>1. CASE status'[a] = status[a] /\ approved'[a] = approved[a] /\ channel'[a] = channel[a]
    BY <1>1 DEF Told
  <1>2. CASE status[a] \in Unreported /\ status'[a] \in Unreported
    <2>1. Told(a) = "nothing"
      BY <1>2, ToldIs DEF TypeOK
    <2>2. Told(a)' = "nothing"
      BY <1>2 DEF Told, Unreported
    <2> QED
      BY <2>1, <2>2
  <1> QED
    BY <1>1, <1>2

\* Steps the abstract specification does not see.
LEMMA Unseen ==
  ASSUME TypeOK, TypeOK', UNCHANGED <<approved, delivered>>,
         \A a \in Actions :
            \/ status'[a] = status[a] /\ channel'[a] = channel[a]
            \/ status[a] \in Unreported /\ status'[a] \in Unreported
  PROVE  UNCHANGED <<Granted, Given, Reported>>
  <1>1. \A a \in Actions : Told(a)' = Told(a)
    BY ToldSame
  <1>2. Reported' = Reported
    BY <1>1 DEF Reported
  <1> QED
    BY <1>2 DEF Granted, Given

\* A step that writes the status of one action.
LEMMA OneReport ==
  ASSUME TypeOK, TypeOK', NEW a \in Actions, UNCHANGED <<approved, delivered, channel>>,
         \A b \in Actions \ {a} : status'[b] = status[b]
  PROVE  /\ UNCHANGED <<Granted, Given>>
         /\ Reported' = [Reported EXCEPT ![a] = Told(a)']
  <1>1. \A b \in Actions \ {a} : Told(b)' = Told(b)
    BY ToldSame
  <1>2. Reported' = [Reported EXCEPT ![a] = Told(a)']
    BY <1>1 DEF Reported
  <1> QED
    BY <1>2 DEF Granted, Given

LEMMA RefusalReported ==
  ASSUME IInv, TypeOK', NEW a \in Actions, Reject(a) \/ Cancel(a)
  PROVE  Governed!Refuse(a)
  <1>1. /\ status[a] \in {"draft", "pending_approval"} /\ approved[a] = NoText
        /\ status'[a] \in {"rejected", "cancelled"}
        /\ UNCHANGED <<approved, delivered, channel>>
        /\ \A b \in Actions \ {a} : status'[b] = status[b]
    BY DEF Reject, Cancel, Refuse, IInv, TypeOK, TextBeforeApproval
  <1>2. Told(a) = "nothing"
    BY <1>1, ToldIs DEF IInv, TypeOK, Unreported
  <1>3. Told(a)' = "refused"
    BY <1>1 DEF Told
  <1>4. /\ UNCHANGED <<Granted, Given>>
        /\ Reported' = [Reported EXCEPT ![a] = "refused"]
    BY <1>1, <1>3, OneReport DEF IInv
  <1>5. a \notin Granted /\ Reported[a] = "nothing"
    BY <1>1, <1>2 DEF Granted, Reported
  <1> QED
    BY <1>4, <1>5 DEF Governed!Refuse, Governed!Undecided

LEMMA ApprovalReported ==
  ASSUME IInv, IInv', NEW u \in Users, FinishApprove(u)
  PROVE  \E a \in Actions : Governed!Grant(a)
  <1> DEFINE a == req[u].action
  <1>1. /\ a \in Actions /\ status[a] = "pending_approval" /\ approved[a] = NoText
        /\ status'[a] = "approved" /\ UNCHANGED <<channel, delivered>>
        /\ \A b \in Actions \ {a} : status'[b] = status[b] /\ approved'[b] = approved[b]
    BY ReqShape DEF FinishApprove, Approve, IInv, TypeOK, TextBeforeApproval
  <1>2. approved'[a] # NoText
    BY <1>1 DEF IInv, TextBeforeApproval
  <1> HIDE DEF a
  <1>3. \A b \in Actions : Told(b)' = Told(b)
    BY <1>1, ToldSame DEF IInv, Unreported
  <1>4. UNCHANGED <<Given, Reported>>
    BY <1>1, <1>3 DEF Given, Reported
  <1>5. Granted' = Granted \cup {a} /\ a \notin Granted
    BY <1>1, <1>2 DEF Granted
  <1>6. Reported[a] = "nothing"
    BY <1>1, ToldIs DEF IInv, TypeOK, Unreported, Reported
  <1> QED
    BY <1>1, <1>4, <1>5, <1>6 DEF Governed!Grant, Governed!Undecided

\* A holder that has not delivered yet: what its action's row says, if it
\* says anything, is that nothing is known.
LEMMA DeliveryReported ==
  ASSUME IInv, IInv', NEW w \in Workers, Deliver(w)
  PROVE  \/ UNCHANGED <<Granted, Given, Reported>>
         \/ \E a \in Actions : Governed!Give(a)
  <1> DEFINE a == worker[w].action
  <1>1. worker[w].pc = "ready" /\ a \in Actions
    BY WorkerShape DEF IInv, Deliver, Attempt
  <1>2. /\ Holds(w, a) /\ delivered[a] = <<>> /\ approved[a] # NoText /\ ~Undispatched(a)
    BY <1>1 DEF Holds, IInv, OneHolder, UndispatchedFree, TextBeforeApproval
  <1>3. UNCHANGED <<status, channel, approved>>
    BY DEF Deliver, Attempt, rows
  <1>4. UNCHANGED <<Granted, Reported>>
    BY <1>3 DEF Granted, Reported, Told
  <1>5. \/ delivered' = delivered
        \/ delivered' = [delivered EXCEPT ![a] = Append(delivered[a], worker[w].text)]
    BY DEF Deliver, Attempt
  <1>6. CASE delivered' = delivered
    BY <1>4, <1>6 DEF Given
  <1>7. CASE delivered' = [delivered EXCEPT ![a] = Append(delivered[a], worker[w].text)]
    <2>1. worker[w].text \in Texts
      BY <1>1, WorkerShape DEF IInv
    <2>2. /\ Len(delivered[a]) = 0 /\ Len(delivered'[a]) = 1
          /\ \A b \in Actions \ {a} : delivered'[b] = delivered[b]
      BY <1>1, <1>2, <1>7, <2>1 DEF IInv, TypeOK
    <2>3. a \in Granted /\ Given[a] = 0
      BY <1>1, <1>2, <2>2 DEF Granted, Given
    <2>4. Given' = [Given EXCEPT ![a] = 1]
      BY <1>1, <2>2 DEF Given
    <2>5. Reported[a] \in {"nothing", "unknown"}
      <3>1. status[a] \in {"sending", "failed", "delivery_unknown"} /\ ~Withheld(a)
        BY <1>1, <1>2 DEF IInv, TypeOK, Statuses, ResultsTrue, SentWasTaken, Withheld, Undispatched
      <3>2. Told(a) \in {"nothing", "unknown"}
        BY <1>1, <3>1, ToldIs DEF IInv, TypeOK, Unreported, Withheld
      <3> QED
        BY <1>1, <3>2 DEF Reported
    <2> QED
      BY <1>1, <1>4, <2>3, <2>4, <2>5 DEF Governed!Give
  <1> QED
    BY <1>5, <1>6, <1>7

\* A result, a recovery and a correlation: the firm is told what is true.
LEMMA ResultReported ==
  ASSUME IInv, IInv', NEW a \in Actions, NEW r, ~Undispatched(a),
         r \in {"sent", "replied", "failed", "cancelled", "delivery_unknown"},
         status' = [status EXCEPT ![a] = r], UNCHANGED <<channel, approved, delivered>>,
         r = "cancelled" => delivered[a] = <<>>
  PROVE  \E what \in {"sent", "replied", "withheld", "unknown"} : Governed!Tell(a, what)
  <1>1. /\ approved[a] # NoText /\ status'[a] = r
        /\ \A b \in Actions \ {a} : status'[b] = status[b]
    BY DEF IInv, TypeOK, TextBeforeApproval
  <1>2. /\ r \in {"sent", "replied"} => delivered[a] # <<>>
        /\ r = "failed" /\ channel[a] = "email" => delivered[a] = <<>>
    BY <1>1 DEF IInv, ResultsTrue, SentWasTaken, Withheld
  <1>3. /\ delivered[a] # <<>> => Len(delivered[a]) = 1
        /\ delivered[a] = <<>> => Len(delivered[a]) = 0
    <2> DEFINE d == delivered[a]
    <2>1. d \in Seq(Texts) /\ Len(d) <= 1
      BY DEF IInv, TypeOK, DeliveredOnce
    <2> HIDE DEF d
    <2>2. Len(d) \in Nat /\ (d # <<>> => Len(d) # 0) /\ (d = <<>> => Len(d) = 0)
      BY <2>1
    <2>3. (d # <<>> => Len(d) = 1) /\ (d = <<>> => Len(d) = 0)
      <3> DEFINE n == Len(d)
      <3>1. n \in Nat /\ n <= 1 /\ (d # <<>> => n # 0) /\ (d = <<>> => n = 0)
        BY <2>1, <2>2
      <3> HIDE DEF n
      <3>2. n = 0 \/ n = 1
        BY <3>1
      <3> QED
        BY <3>1, <3>2 DEF n
    <2> QED
      BY <2>3 DEF d
  <1> DEFINE what == Told(a)'
  <1>4. /\ what \in {"sent", "replied", "withheld", "unknown"}
        /\ what \in {"sent", "replied"} => r \in {"sent", "replied"}
        /\ what = "withheld" => r = "cancelled" \/ (r = "failed" /\ channel[a] = "email")
    BY <1>1 DEF Told
  <1>5. UNCHANGED <<Granted, Given>> /\ Reported' = [Reported EXCEPT ![a] = what]
    BY <1>1, OneReport DEF IInv
  <1> HIDE DEF what
  <1>6. a \in Granted /\ Given[a] = Len(delivered[a])
    BY <1>1 DEF Granted, Given
  <1>7. Governed!Tell(a, what)
    BY <1>2, <1>3, <1>4, <1>5, <1>6 DEF Governed!Tell
  <1> QED
    BY <1>4, <1>7

LEMMA GovernedStep ==
  ASSUME IInv, IInv', [Next]_vars
  PROVE  [Governed!Next]_<<Granted, Given, Reported>>
  <1> DEFINE Goal == [Governed!Next]_<<Granted, Given, Reported>>
  <1>0. TypeOK /\ TypeOK'
    BY DEF IInv
  <1>1. ASSUME NEW a \in Actions, NEW c \in Channels, NEW t \in Texts, Create(a, c, t)
        PROVE  Goal
    <2>1. /\ UNCHANGED <<approved, delivered>>
          /\ status[a] \in Unreported /\ status'[a] \in Unreported
          /\ \A b \in Actions \ {a} : status'[b] = status[b] /\ channel'[b] = channel[b]
      BY <1>0, <1>1 DEF Create, TypeOK, Unreported
    <2> QED
      BY <1>0, <2>1, Unseen
  <1>2. ASSUME NEW a \in Actions,
               \/ EligibilityChanges(a) \/ Lapse(a) \/ Match(a)
               \/ \E s \in Senders : Write(a, s)
        PROVE  Goal
    <2>1. UNCHANGED <<status, channel, approved, delivered>>
      BY <1>2 DEF EligibilityChanges, Lapse, Match, MatchIn, Write, rows
    <2> QED
      BY <1>0, <2>1, Unseen
  <1>3. ASSUME NEW a \in Actions, Reject(a) \/ Cancel(a) PROVE Goal
    BY <1>0, <1>3, RefusalReported DEF Governed!Next
  <1>4. ASSUME NEW u \in Users, UserStep(u) PROVE Goal
    <2>1. CASE FinishApprove(u)
      BY <2>1, ApprovalReported DEF Governed!Next
    <2>2. CASE FinishSubmit(u)
      <3> DEFINE a == req[u].action
      <3>1. /\ a \in Actions /\ UNCHANGED <<approved, delivered, channel>>
            /\ status[a] \in Unreported /\ status'[a] \in Unreported
            /\ \A b \in Actions \ {a} : status'[b] = status[b]
        BY <1>0, <2>2, ReqShape DEF FinishSubmit, TypeOK, Unreported
      <3> QED
        BY <1>0, <3>1, Unseen
    <2>3. ASSUME \/ \E a \in Actions, t \in Texts : BeginEdit(u, a, t)
                 \/ \E a \in Actions, op \in {"submit", "approve"} : BeginMove(u, op, a)
                 \/ FinishEdit(u) \/ Abandon(u)
          PROVE  Goal
      <3>1. UNCHANGED <<status, channel, approved, delivered>>
        BY <2>3 DEF BeginEdit, BeginMove, FinishEdit, Abandon, rows
      <3> QED
        BY <1>0, <3>1, Unseen
    <2> QED
      BY <1>4, <2>1, <2>2, <2>3 DEF UserStep
  <1>5. ASSUME NEW w \in Workers, WorkerStep(w) \/ Crash(w) PROVE Goal
    <2>1. ASSUME NEW a \in Actions, Claim(w, a) PROVE Goal
      <3>1. /\ UNCHANGED <<approved, delivered, channel>>
            /\ status[a] \in Unreported /\ status'[a] \in Unreported
            /\ \A b \in Actions \ {a} : status'[b] = status[b]
        BY <1>0, <2>1 DEF Claim, ClaimFrom, TypeOK, Unreported
      <3> QED
        BY <1>0, <3>1, Unseen
    <2>2. CASE Revalidate(w) \/ Sweep(w) \/ Crash(w)
      <3>1. UNCHANGED <<status, channel, approved, delivered>>
        BY <2>2 DEF Revalidate, Sweep, SweepOf, Crash, rows
      <3> QED
        BY <1>0, <3>1, Unseen
    <2>3. CASE Deliver(w)
      BY <2>3, DeliveryReported DEF Governed!Next
    <2>4. CASE Record(w) \/ RecordUnknown(w)
      <3> DEFINE a == worker[w].action
      <3>1. worker[w].pc = "recording"
        BY <2>4 DEF Record, RecordUnknown
      <3>2. a \in Actions /\ worker[w].result \in Results /\ Holds(w, a)
        BY <1>0, <3>1, WorkerShape DEF Holds
      <3>3. ~Undispatched(a) /\ (worker[w].result = "cancelled" => delivered[a] = <<>>)
        BY <3>1, <3>2 DEF IInv, UndispatchedFree, ResultsTrue
      <3>4. PICK r \in {worker[w].result, "delivery_unknown"} :
              /\ status' = [status EXCEPT ![a] = r]
              /\ UNCHANGED <<channel, approved, delivered>>
        BY <2>4 DEF Record, RecordUnknown
      <3> HIDE DEF a
      <3>5. \E what \in {"sent", "replied", "withheld", "unknown"} : Governed!Tell(a, what)
        BY <3>2, <3>3, <3>4, ResultReported DEF Results
      <3> QED
        BY <3>2, <3>5 DEF Governed!Next
    <2>5. CASE Recover(w)
      <3>1. PICK a \in worker[w].todo : status' = [status EXCEPT ![a] = "delivery_unknown"]
        BY <2>5 DEF Recover, RecoverAs
      <3>2. a \in Actions /\ Recovers(w, a) /\ UNCHANGED <<channel, approved, delivered>>
        BY <1>0, <2>5, <3>1, WorkerShape DEF Recover, RecoverAs, Recovers
      <3>3. ~Undispatched(a)
        BY <3>2 DEF IInv, UndispatchedFree
      <3>4. \E what \in {"sent", "replied", "withheld", "unknown"} : Governed!Tell(a, what)
        BY <3>1, <3>2, <3>3, ResultReported
      <3> QED
        BY <3>2, <3>4 DEF Governed!Next
    <2> QED
      BY <1>5, <2>1, <2>2, <2>3, <2>4, <2>5 DEF WorkerStep
  <1>6. CASE Attach
    <2>1. /\ match \in Actions /\ status' = [status EXCEPT ![match] = "replied"]
          /\ UNCHANGED <<channel, approved, delivered>>
      BY <1>0, <1>6 DEF Attach, TypeOK
    <2>2. ~Undispatched(match)
      BY <2>1 DEF IInv, UndispatchedFree
    <2>3. \E what \in {"sent", "replied", "withheld", "unknown"} : Governed!Tell(match, what)
      BY <2>1, <2>2, ResultReported
    <2> QED
      BY <2>1, <2>3 DEF Governed!Next
  <1>7. CASE Interrupt
    <2>1. UNCHANGED <<status, channel, approved, delivered>>
      BY <1>7 DEF Interrupt, rows
    <2> QED
      BY <1>0, <2>1, Unseen
  <1>8. CASE UNCHANGED vars
    <2>1. UNCHANGED <<status, channel, approved, delivered>>
      BY <1>8 DEF vars, rows
    <2> QED
      BY <1>0, <2>1, Unseen
  <1> QED
    BY <1>1, <1>2, <1>3, <1>4, <1>5, <1>6, <1>7, <1>8 DEF Next

-----------------------------------------------------------------------------
LEMMA Invariance == Spec => []IInv
  <1> QED
    BY InitIInv, NextIInv, PTL DEF Spec

\* Every variable keeps its type: the row, the requests, the workers and the
\* mailbox of services/outreach.py and email_connector/sender.py.
THEOREM TypeCorrect == Spec => []TypeOK
  <1>1. IInv => TypeOK
    BY DEF IInv
  <1> QED
    BY <1>1, Invariance, PTL

\* However requests, senders of both channels, recoveries and crashes
\* interleave, the provider takes an action at most once, nothing is marked
\* "sent" or "replied" that it did not take, no email it took is marked
\* "failed", and nothing is delivered that no owner approved.
THEOREM DeliverySafe ==
  Spec => [](DeliveredOnce /\ SentWasTaken /\ FailedEmailNotTaken /\ OnlyApproved)
  <1>1. IInv => DeliveredOnce /\ SentWasTaken /\ FailedEmailNotTaken
    BY DEF IInv, ResultsTrue, Withheld, FailedEmailNotTaken
  <1>2. IInv => OnlyApproved
    BY DEF IInv, UndispatchedFree, TextBeforeApproval, OnlyApproved
  <1> QED
    BY <1>1, <1>2, Invariance, PTL

\* What the status of an action says of a delivery, the provider did.
THEOREM SentTrue == Spec => []SentWasTaken
  BY DeliverySafe, PTL

\* An email that is marked "failed" and may be sent again was not sent.
THEOREM FailedTrue == Spec => []FailedEmailNotTaken
  BY DeliverySafe, PTL

\* Nothing goes to a customer that no owner approved.
THEOREM ApprovalNeeded == Spec => []OnlyApproved
  BY DeliverySafe, PTL

\* correlate_reply marks an action replied only for an answer of the customer.
THEOREM OnlyCustomersReply == Spec => []RepliedByCustomer
  <1>1. IInv => RepliedByCustomer
    BY DEF IInv, AnswersFollow, RepliedByCustomer
  <1> QED
    BY <1>1, Invariance, PTL

\* A rejection, or the cancelling of a draft, is final: the updates that name
\* no expected status (results, recoveries, correlations) never meet it.
THEOREM RefusalIsFinal == Spec => RefusalFinal
  <1> DEFINE Final == \A a \in Actions :
               /\ status[a] = "rejected" => status'[a] = "rejected"
               /\ status[a] = "cancelled" /\ approved[a] = NoText => status'[a] = "cancelled"
  <1>1. IInv /\ [Next]_vars => Final
    BY RefusalStep
  <1>2. IInv /\ [Next]_vars => [Final]_vars
    BY <1>1
  <1> HIDE DEF Final
  <1>3. Spec => [][Final]_vars
    BY <1>2, Invariance, PTL DEF Spec
  <1> QED
    BY <1>3 DEF RefusalFinal, Final

\* While one process of email_connector.runner sends, an answer that was
\* correlated stays in its action's status: no late result and no recovery of
\* an interrupted send overwrites it (recover_stale_sends and the recording of
\* a result name the row by its key only).
THEOREM RepliesStay ==
  ASSUME OneEmailWorker
  PROVE  Spec => []CorrelatedReplied
  <1>1. IInv /\ RepliesKept /\ [Next]_vars => RepliesKept'
    BY NextKept
  <1>2. IInv /\ RepliesKept => CorrelatedReplied
    BY DEF IInv, TypeOK, RepliesKept, CorrelatedReplied
  <1> QED
    BY <1>1, <1>2, Invariance, KeptInit, PTL DEF Spec

\* Requests, both senders, recoveries, crashes and correlation together
\* implement GovernedOutreach: granted or refused for good, given once and
\* only when granted, and what the firm is told is true.
THEOREM ImplementsGovernedOutreach == Spec => GovernedSpec
  <1>1. Init => Governed!Init
    <2> SUFFICES ASSUME Init PROVE Governed!Init
      OBVIOUS
    <2>1. \A a \in Actions : Told(a) = "nothing"
      BY ToldIs DEF Init, Statuses, Unreported
    <2> QED
      BY <2>1 DEF Init, Governed!Init, Granted, Given, Reported
  <1>2. IInv /\ IInv' /\ [Next]_vars => [Governed!Next]_(Governed!vars)
    BY GovernedStep DEF Governed!vars
  <1> QED
    BY Invariance, <1>1, <1>2, PTL DEF Spec, GovernedSpec, Governed!Spec
=============================================================================
