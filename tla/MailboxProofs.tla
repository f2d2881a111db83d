--------------------------- MODULE MailboxProofs ---------------------------
(***************************************************************************)
(* The session delivery path implements the abstract mailbox, session      *)
(* wakes are not dropped, and an attempt of a child process is driven with *)
(* that process alone: theorems for every set of messages, agents,         *)
(* providers and tasks and every value of the bounds.                      *)
(***************************************************************************)
EXTENDS DeliveryProofs

USE DeliveryAssumption

-----------------------------------------------------------------------------
(* What deliverMessage does to the rows, up to its first await.            *)

(* The states it leaves a row in that it edits.                            *)
Opened(k) == IF k = "session_turn" THEN {"queued_for_recipient", "delivering"}
                                   ELSE {"pending", "failed_retryable"}

(* A row with a payload keeps it.                                          *)
SamePayload(a, b) == a.state # "none" => b.payload = a.payload /\ b.state # "none"

(* The row of m and k becomes one that was opened; the others stay.        *)
OpensRow(m) ==
    \A n \in Message, k \in Mode :
        \/ attempt'[n][k] = attempt[n][k]
        \/ /\ n = m
           /\ attempt'[n][k].state \in Opened(k)
           /\ SamePayload(attempt[n][k], attempt'[n][k])

LEMMA EditedPayload ==
  /\ \A a \in Attempt : \A s : [a EXCEPT !.state = s].payload = a.payload
  /\ \A a \in Attempt : \A s, n : [a EXCEPT !.state = s, !.retryCount = n].payload = a.payload
  BY DEF Attempt

LEMMA DrivenBinding ==
  ASSUME TypeInv, NEW m \in Message, MayDrive(m)
  PROVE  /\ directory[To[m]] \in Binding
         /\ directory[To[m]].mode \in Mode
         /\ Begun(m, directory[To[m]]) \in Attempt
         /\ SamePayload(attempt[m][directory[To[m]].mode], Begun(m, directory[To[m]]))
  <1>1. directory[To[m]] \in Binding /\ directory[To[m]].mode \in Mode
    <2>1. directory[To[m]] # None /\ directory[To[m]] \in Binding \cup {None}
      BY DEF MayDrive, TypeInv, TypeOK
    <2> QED BY <2>1 DEF Binding
  <1> QED BY <1>1, BegunType DEF TypeInv, Begun, SamePayload

LEMMA OpenedRow ==
  ASSUME TypeInv, NEW m \in Message, NEW k \in Mode, NEW a, SetAttempt(m, k, a),
         a = attempt[m][k] \/ (a.state \in Opened(k) /\ SamePayload(attempt[m][k], a))
  PROVE  OpensRow(m)
  BY DEF SetAttempt, OpensRow, TypeInv, TypeOK

LEMMA DeliverRows ==
  ASSUME TypeInv, NEW t \in Task, NEW m \in Message, NEW rest \in SUBSET Message,
         DeliverMessage(t, m, rest)
  PROVE  OpensRow(m)
  <1> DEFINE b == directory[To[m]]
             old == Begun(m, b)
  <1>1. CASE UNCHANGED attempt
    BY <1>1 DEF OpensRow
  <1>2. ASSUME MayDrive(m), NEW s \in Opened(b.mode),
               \/ SetAttempt(m, b.mode, [old EXCEPT !.state = s])
               \/ SetAttempt(m, b.mode, [old EXCEPT !.state = s, !.retryCount = 0])
        PROVE  OpensRow(m)
    <2>1. /\ b.mode \in Mode /\ old \in Attempt
          /\ SamePayload(attempt[m][b.mode], old)
      BY <1>2, DrivenBinding
    <2>2. \E a : SetAttempt(m, b.mode, a) /\ a.state = s /\ a.payload = old.payload
      <3> HIDE DEF b, old
      <3>1. CASE SetAttempt(m, b.mode, [old EXCEPT !.state = s])
        <4> DEFINE a == [old EXCEPT !.state = s]
        <4>1. a.state = s /\ a.payload = old.payload
          BY <2>1, EditedState, EditedPayload
        <4> HIDE DEF a
        <4> QED BY <3>1, <4>1 DEF a
      <3>2. CASE SetAttempt(m, b.mode, [old EXCEPT !.state = s, !.retryCount = 0])
        <4> DEFINE a == [old EXCEPT !.state = s, !.retryCount = 0]
        <4>1. a.state = s /\ a.payload = old.payload
          BY <2>1, EditedState, EditedPayload
        <4> HIDE DEF a
        <4> QED BY <3>2, <4>1 DEF a
      <3> QED BY <1>2, <3>1, <3>2
    <2>3. s # "none"
      BY DEF Opened
    <2>4. PICK a : SetAttempt(m, b.mode, a) /\ a.state = s /\ a.payload = old.payload
      BY <2>2
    <2>5. SamePayload(attempt[m][b.mode], a)
      BY <2>1, <2>3, <2>4 DEF SamePayload
    <2> QED BY <2>1, <2>4, <2>5, OpenedRow
  <1>3. CASE DeliverUnwritable(t, m, rest)
    BY <1>2, <1>3 DEF DeliverUnwritable, Opened
  <1>4. CASE DeliverStdin(t, m, rest)
    <2>1. MayDrive(m) /\ b.mode = "runtime_stdin" /\ SetAttempt(m, b.mode, old)
      BY <1>4 DEF DeliverStdin
    <2>2. b.mode \in Mode /\ SamePayload(attempt[m][b.mode], old)
      BY <2>1, DrivenBinding
    <2>3. old = attempt[m][b.mode] \/ old.state = "pending"
      BY DEF Begun, NoAttempt
    <2>4. old = attempt[m][b.mode] \/ old.state \in Opened(b.mode)
      BY <2>1, <2>3 DEF Opened
    <2> QED BY <2>1, <2>2, <2>4, OpenedRow
  <1>5. CASE DeliverParked(t, m, rest)
    BY <1>2, <1>5 DEF DeliverParked, Opened
  <1>6. CASE DeliverSession(t, m, rest)
    BY <1>2, <1>6 DEF DeliverSession, Opened
  <1> QED BY <1>1, <1>3, <1>4, <1>5, <1>6
       DEF DeliverMessage, DeliverOffline, DeliverRefused

(* The calling task goes on with its list, or drives m.                    *)
LEMMA DeliverTasks ==
  ASSUME TypeInv, NEW t \in Task, NEW m \in Message, NEW rest \in SUBSET Message,
         DeliverMessage(t, m, rest)
  PROVE  /\ \A u \in Task \ {t} : task'[u] = task[u]
         /\ task'[t].todo \subseteq rest
         /\ task'[t].pc # "handed"
  <1>1. task \in [Task -> TaskState]
    BY DEF TypeInv, TypeOK
  <1>2. CASE Proceed(t, rest)
    <2>1. After(rest).todo \subseteq rest /\ After(rest).pc # "handed"
      BY DEF After, IdleTask
    <2> QED BY <1>1, <1>2, <2>1 DEF Proceed
  <1>3. CASE DeliverStdin(t, m, rest)
    BY <1>1, <1>3 DEF DeliverStdin
  <1>4. CASE DeliverSession(t, m, rest)
    BY <1>1, <1>4 DEF DeliverSession
  <1> QED BY <1>2, <1>3, <1>4
       DEF DeliverMessage, DeliverOffline, DeliverRefused, DeliverUnwritable, DeliverParked

-----------------------------------------------------------------------------
(* The inductive invariant: what has a session row, or waits in the list   *)
(* of a sweep, was posted; and a turn that can be accepted was handed over.*)
Stored ==
    /\ \A m \in Message : SessionState(m) # "none" => posted[m] > 0
    /\ \A t \in Task : \A m \in task[t].todo : posted[m] > 0

HandedFirst ==
    \A t \in Task, m \in Message :
        Drives(t, m) /\ task[t].pc = "handed" => handed[m]["session_turn"] > 0

MailParts == Stored /\ HandedFirst /\ SessionNeverDropped

MailInv == ClaimInv /\ MailParts

LEMMA MailInit == Init => MailInv
  <1> SUFFICES ASSUME Init PROVE MailInv
    OBVIOUS
  <1>1. \A m \in Message : SessionState(m) = "none"
    BY DEF Init, SessionState, NoAttempt, Mode
  <1>2. \A t \in Task : task[t].pc = "idle" /\ task[t].todo = {}
    BY DEF Init, IdleTask
  <1>3. Stored /\ SessionNeverDropped
    BY <1>1, <1>2 DEF Stored, SessionNeverDropped
  <1>4. HandedFirst
    BY <1>2 DEF HandedFirst
  <1> QED BY <1>3, <1>4, ClaimInit DEF MailInv, MailParts

(* Ranks are given once and kept.                                          *)
PostsOnly(S) ==
    \A n \in Message : posted'[n] > 0 <=> posted[n] > 0 \/ n \in S

LEMMA PostRanks ==
  ASSUME TypeInv, NEW m \in Message, Post(m)
  PROVE  PostsOnly({m}) /\ posted'[m] > 0 /\ posted[m] = 0
  <1>1. NextRank > 0
    <2>1. Cardinality({n \in Message : posted[n] > 0}) \in Nat
      BY FS_Subset, FS_CardinalityType
    <2> QED BY <2>1 DEF NextRank
  <1> QED BY <1>1, NextRankNat DEF Post, PostsOnly, TypeInv, TypeOK

LEMMA DeliverKeeps ==
  ASSUME MailInv, NEW t \in Task, NEW m \in Message, NEW rest \in SUBSET Message,
         DeliverMessage(t, m, rest),
         \A n \in Message : posted[n] > 0 \/ n = m => posted'[n] > 0,
         \A n \in rest : posted'[n] > 0,
         UNCHANGED <<handed, crashes>>
  PROVE  MailParts'
  <1>1. TypeInv
    BY DEF MailInv, ClaimInv
  <1>2. \A n \in Message :
            \/ SessionState(n)' = SessionState(n)
            \/ n = m /\ SessionState(n)' \in {"queued_for_recipient", "delivering"}
    BY <1>1, DeliverRows DEF OpensRow, Opened, SessionState, Mode
  <1>3. Stored'
    <2>1. \A n \in Message : SessionState(n)' # "none" => posted'[n] > 0
      BY <1>2 DEF MailInv, MailParts, Stored
    <2>2. ASSUME NEW u \in Task, NEW n \in task'[u].todo PROVE posted'[n] > 0
      <3>1. CASE u = t
        BY <1>1, <2>2, <3>1, DeliverTasks
      <3>2. CASE u # t
        <4>1. n \in task[u].todo
          BY <1>1, <2>2, <3>2, DeliverTasks
        <4>2. n \in Message /\ posted[n] > 0
          BY <4>1 DEF MailInv, MailParts, Stored, ClaimInv, TypeInv, TypeOK, TaskState
        <4> QED BY <4>2
      <3> QED BY <3>1, <3>2
    <2> QED BY <2>1, <2>2 DEF Stored
  <1>4. HandedFirst'
    <2>1. ASSUME NEW u \in Task, NEW n \in Message, Drives(u, n)', task'[u].pc = "handed"
          PROVE  handed'[n]["session_turn"] > 0
      <3>1. u # t /\ task'[u] = task[u]
        BY <1>1, <2>1, DeliverTasks
      <3>2. Drives(u, n) /\ task[u].pc = "handed"
        BY <2>1, <3>1 DEF Drives, InFlight
      <3> QED BY <3>2 DEF MailInv, MailParts, HandedFirst
    <2> QED BY <2>1 DEF HandedFirst
  <1>5. SessionNeverDropped'
    BY <1>2 DEF MailInv, MailParts, SessionNeverDropped
  <1> QED BY <1>3, <1>4, <1>5 DEF MailParts

LEMMA SendKeeps ==
  ASSUME MailInv, NEW t \in Task, NEW m \in Message, SendMessage(t, m) \/ ResendMessage(t, m)
  PROVE  MailParts'
  <1>1. \A n \in Message : posted[n] > 0 \/ n = m => posted'[n] > 0
    <2>1. CASE SendMessage(t, m)
      BY <2>1, PostRanks DEF SendMessage, PostsOnly, MailInv, ClaimInv
    <2>2. CASE ResendMessage(t, m)
      BY <2>2 DEF ResendMessage
    <2> QED BY <2>1, <2>2
  <1>2. DeliverMessage(t, m, {}) /\ UNCHANGED <<handed, crashes>>
    BY DEF SendMessage, ResendMessage
  <1> QED BY <1>1, <1>2, DeliverKeeps

LEMMA SweepKeeps ==
  ASSUME MailInv, NEW t \in Task, Tick(t) \/ SweepNext(t)
  PROVE  MailParts'
  <1> DEFINE list == IF Tick(t) THEN ListMessagesNeedingDelivery ELSE task[t].todo
  <1>1. list \subseteq Message /\ \A n \in list : posted[n] > 0
    <2>1. ListMessagesNeedingDelivery \subseteq Message
          /\ \A n \in ListMessagesNeedingDelivery : posted[n] > 0
      BY SweepListType DEF Needing, NeedsDelivery
    <2>2. task[t].todo \subseteq Message /\ \A n \in task[t].todo : posted[n] > 0
      BY DEF MailInv, MailParts, Stored, ClaimInv, TypeInv, TypeOK, TaskState
    <2> QED BY <2>1, <2>2
  <1>2. PICK m \in list : DeliverMessage(t, m, list \ {m})
    BY SweepListType DEF Tick, SweepNext
  <1>3. UNCHANGED <<posted, handed, crashes>>
    BY DEF Tick, SweepNext, rtVars
  <1> HIDE DEF list
  <1>4. m \in Message /\ list \ {m} \in SUBSET Message
    BY <1>1, <1>2
  <1> QED BY <1>1, <1>2, <1>3, <1>4, DeliverKeeps

(* What a step does to the count of one message and mode.                  *)
LEMMA HandOverCounts ==
  ASSUME TypeInv, NEW t \in Task, HandOver(t)
  PROVE  \A n \in Message :
             handed'[n]["session_turn"] =
                 IF Drives(t, n) THEN (IF handed[n]["session_turn"] < 2
                                       THEN handed[n]["session_turn"] + 1
                                       ELSE handed[n]["session_turn"])
                                 ELSE handed[n]["session_turn"]
  <1>1. InFlight(t)
    BY DEF HandOver, InFlight
  <1>2. task[t].msg \in Message /\ task[t].mode \in Mode
    BY <1>1, TaskFields
  <1>3. handed \in [Message -> [Mode -> 0..2]]
    BY DEF TypeInv, TypeOK
  <1>4. \A n \in Message : Drives(t, n) <=> n = task[t].msg /\ task[t].mode = "session_turn"
    BY <1>1 DEF Drives
  <1> QED BY <1>2, <1>3, <1>4 DEF HandOver, Mode

LEMMA HandOverTasks ==
  ASSUME TypeInv, NEW t \in Task, HandOver(t)
  PROVE  /\ \A u \in Task \ {t} : task'[u] = task[u]
         /\ \A u \in Task : task'[u].todo = task[u].todo
         /\ \A u \in Task, n \in Message : Drives(u, n)' <=> Drives(u, n)
  BY DEF HandOver, TypeInv, TypeOK, TaskState, Drives, InFlight

LEMMA HandOverKeeps ==
  ASSUME MailInv, NEW t \in Task, HandOver(t)
  PROVE  MailParts'
  <1>1. TypeInv
    BY DEF MailInv, ClaimInv
  <1>2. UNCHANGED <<posted, attempt, crashes>>
    BY DEF HandOver, dbVars
  <1>3. Stored' /\ SessionNeverDropped'
    BY <1>1, <1>2, HandOverTasks
       DEF MailInv, MailParts, Stored, SessionNeverDropped, SessionState
  <1>4. ASSUME NEW u \in Task, NEW n \in Message, Drives(u, n)', task'[u].pc = "handed"
        PROVE  handed'[n]["session_turn"] > 0
    <2>1. Drives(u, n)
      BY <1>1, <1>4, HandOverTasks
    <2>2. handed[n]["session_turn"] \in 0..2
      BY <1>1 DEF TypeInv, TypeOK, Mode
    <2>3. CASE u = t
      BY <1>1, <2>1, <2>2, <2>3, HandOverCounts
    <2>4. CASE u # t
      <3>1. task[u].pc = "handed"
        BY <1>1, <1>4, <2>4, HandOverTasks
      <3>2. handed[n]["session_turn"] > 0
        BY <2>1, <3>1 DEF MailInv, MailParts, HandedFirst
      <3> QED BY <1>1, <2>2, <3>2, HandOverCounts
    <2> QED BY <2>3, <2>4
  <1> QED BY <1>3, <1>4 DEF MailParts, HandedFirst

(* The message a session task drives is one that was posted.               *)
LEMMA DrivenIsPosted ==
  ASSUME MailInv, NEW t \in Task, NEW m \in Message, Drives(t, m)
  PROVE  up /\ SessionState(m) = "delivering" /\ posted[m] > 0
  <1>1. up
    BY DEF MailInv, ClaimInv, DownIdle, Drives, InFlight
  <1>2. SessionState(m) = "delivering"
    BY <1>1 DEF MailInv, ClaimInv, ClaimHasOwner
  <1> QED BY <1>1, <1>2 DEF MailInv, MailParts, Stored

(* Accept and Reject: the row of the message driven, and that alone.       *)
LEMMA SettleRows ==
  ASSUME TypeInv, NEW t \in Task, Accept(t) \/ Reject(t)
  PROVE  \A n \in Message :
             \/ SessionState(n)' = SessionState(n) /\ ~Drives(t, n)
             \/ /\ Drives(t, n)
                /\ Accept(t) => SessionState(n)' = "accepted_by_runtime"
                /\ Reject(t) => SessionState(n)' \in {"failed_terminal", "queued_for_recipient"}
  <1> DEFINE m == task[t].msg
             k == task[t].mode
             settled == [attempt[m][k] EXCEPT !.state = "accepted_by_runtime", !.retryCount = 0]
             failed == Failed(attempt[m][k], k, task[t].retry)
  <1>1. InFlight(t)
    BY DEF Accept, Reject, InFlight
  <1>2. m \in Message /\ k \in Mode /\ attempt[m][k] \in Attempt
    BY <1>1, TaskFields
  <1>3. attempt \in [Message -> [Mode -> Attempt]]
    BY DEF TypeInv, TypeOK
  <1>4. \A n \in Message : Drives(t, n) <=> n = m /\ k = "session_turn"
    BY <1>1 DEF Drives
  <1>5. settled.state = "accepted_by_runtime"
    BY <1>2, EditedState
  <1>6. k = "session_turn" => failed.state \in {"failed_terminal", "queued_for_recipient"}
    BY <1>2, EditedState DEF Failed
  <1>7. Accept(t) => SetAttempt(m, k, settled)
    BY DEF Accept
  <1>8. Reject(t) => SetAttempt(m, k, failed)
    BY DEF Reject
  <1> HIDE DEF m, k, settled, failed
  <1>9. CASE Accept(t) /\ ~Reject(t)
    BY <1>2, <1>3, <1>4, <1>5, <1>7, <1>9, SetAttemptSession DEF SessionState
  <1>10. CASE Reject(t) /\ ~Accept(t)
    BY <1>2, <1>3, <1>4, <1>6, <1>8, <1>10, SetAttemptSession DEF SessionState
  <1>11. CASE Accept(t) /\ Reject(t)
    <2>1. CASE k = "session_turn"
      <3>1. attempt'[m]["session_turn"] = settled /\ attempt'[m]["session_turn"] = failed
        BY <1>2, <1>3, <1>7, <1>8, <1>11, <2>1, SetAttemptSession
      <3> QED BY <1>5, <1>6, <2>1, <3>1
    <2>2. CASE k # "session_turn"
      BY <1>2, <1>3, <1>4, <1>7, <1>11, <2>2, SetAttemptSession DEF SessionState
    <2> QED BY <2>1, <2>2
  <1> QED BY <1>9, <1>10, <1>11

LEMMA SettleKeeps ==
  ASSUME MailInv, NEW t \in Task, Accept(t) \/ Reject(t)
  PROVE  MailParts'
  <1>1. TypeInv
    BY DEF MailInv, ClaimInv
  <1>2. UNCHANGED <<posted, handed, crashes>> /\ Proceed(t, task[t].todo)
    BY DEF Accept, Reject
  <1>3. /\ \A u \in Task \ {t} : task'[u] = task[u]
        /\ task'[t].todo \subseteq task[t].todo
        /\ ~InFlight(t)'
    <2>1. task \in [Task -> TaskState]
      BY <1>1 DEF TypeInv, TypeOK
    <2>2. task'[t] = After(task[t].todo)
      BY <1>2, <2>1 DEF Proceed
    <2>3. task'[t].todo \subseteq task[t].todo
      BY <2>2 DEF After, IdleTask
    <2> QED BY <1>2, <2>1, <2>3, ProceedFlight
  <1>4. Stored'
    <2>1. \A n \in Message : SessionState(n)' # "none" => posted'[n] > 0
      BY <1>1, <1>2, SettleRows, DrivenIsPosted DEF MailInv, MailParts, Stored
    <2>2. \A u \in Task : task'[u].todo \subseteq task[u].todo
      BY <1>3
    <2> QED BY <1>2, <2>1, <2>2 DEF MailInv, MailParts, Stored
  <1>5. HandedFirst'
    BY <1>2, <1>3 DEF MailInv, MailParts, HandedFirst, Drives, InFlight
  <1>6. SessionNeverDropped'
    BY <1>1, <1>2, SettleRows DEF MailInv, MailParts, SessionNeverDropped
  <1> QED BY <1>4, <1>5, <1>6 DEF MailParts

(* Steps that leave rows and tasks alone.                                  *)
LEMMA QuietKeeps ==
  ASSUME MailInv, UNCHANGED <<attempt, task, handed, crashes>>,
         \A n \in Message : posted[n] > 0 => posted'[n] > 0
  PROVE  MailParts'
  <1>1. \A t \in Task : task[t].todo \subseteq Message
    BY DEF MailInv, ClaimInv, TypeInv, TypeOK, TaskState
  <1> QED BY <1>1 DEF MailInv, MailParts, Stored, HandedFirst, SessionNeverDropped,
                     SessionState, Drives, InFlight

(* A crash in the middle of a send leaves at most a row that was begun.    *)
LEMMA CrashInSendRows ==
  ASSUME TypeInv, NEW m \in Message, CrashInSend(m)
  PROVE  \A n \in Message : \/ SessionState(n)' = SessionState(n)
                            \/ n = m /\ SessionState(n)' = "pending"
  <1> DEFINE b == directory[To[m]]
  <1>1. CASE UNCHANGED attempt
    BY <1>1 DEF SessionState
  <1>2. CASE b # None /\ SetAttempt(m, b.mode, Begun(m, b))
    <2>1. b \in Binding /\ b.mode \in Mode
      BY <1>2 DEF TypeInv, TypeOK, Binding
    <2>2. Begun(m, b) = attempt[m][b.mode] \/ Begun(m, b).state = "pending"
      BY DEF Begun, NoAttempt
    <2>3. attempt \in [Message -> [Mode -> Attempt]]
      BY DEF TypeInv, TypeOK
    <2> HIDE DEF b
    <2> QED BY <1>2, <2>1, <2>2, <2>3, SetAttemptSession DEF SessionState
  <1> QED BY <1>1, <1>2 DEF CrashInSend

LEMMA CrashKeeps ==
  ASSUME MailInv, Crash \/ \E m \in Message : CrashInSend(m)
  PROVE  MailParts'
  <1>1. TypeInv /\ crashes \in Nat
    BY DEF MailInv, ClaimInv, TypeInv, TypeOK
  <1>2. LoseMemory
    BY DEF Crash, CrashInSend
  <1>3. \A n \in Message : SessionState(n)' # "none" => posted'[n] > 0
    <2>1. CASE Crash
      BY <2>1 DEF Crash, dbVars, SessionState, MailInv, MailParts, Stored
    <2>2. ASSUME NEW m \in Message, CrashInSend(m)
          PROVE  \A n \in Message : SessionState(n)' # "none" => posted'[n] > 0
      <3>1. \A n \in Message : posted[n] > 0 \/ n = m => posted'[n] > 0
        BY <1>1, <2>2, PostRanks DEF CrashInSend, PostsOnly
      <3> QED BY <1>1, <2>2, <3>1, CrashInSendRows DEF MailInv, MailParts, Stored
    <2> QED BY <2>1, <2>2
  <1>4. \A t \in Task : task'[t] = IdleTask
    BY <1>2 DEF LoseMemory
  <1>5. Stored' /\ HandedFirst'
    BY <1>3, <1>4 DEF Stored, HandedFirst, IdleTask
  <1>6. SessionNeverDropped'
    BY <1>1, <1>2 DEF LoseMemory, SessionNeverDropped
  <1> QED BY <1>5, <1>6 DEF MailParts

LEMMA BootRows ==
  ASSUME TypeInv, Boot
  PROVE  \A n \in Message : SessionState(n)' = IF SessionState(n) = "delivering"
                                              THEN "queued_for_recipient" ELSE SessionState(n)
  <1>1. attempt \in [Message -> [Mode -> Attempt]]
    BY DEF TypeInv, TypeOK
  <1>2. \A n \in Message : attempt'[n]["session_turn"] = ResetStale(attempt[n]["session_turn"])
    BY <1>1 DEF Boot, ResetStaleSessionInFlight, Mode
  <1>3. \A n \in Message : attempt[n]["session_turn"] \in Attempt
    BY <1>1 DEF Mode
  <1>4. ASSUME NEW n \in Message, SessionState(n) = "delivering"
        PROVE  SessionState(n)' = "queued_for_recipient"
    <2>1. attempt'[n]["session_turn"] =
              [attempt[n]["session_turn"] EXCEPT !.state = "queued_for_recipient"]
      BY <1>2, <1>4 DEF ResetStale, SessionState
    <2> QED BY <1>3, <2>1, EditedState DEF SessionState
  <1>5. ASSUME NEW n \in Message, SessionState(n) # "delivering"
        PROVE  SessionState(n)' = SessionState(n)
    BY <1>2, <1>5 DEF ResetStale, SessionState
  <1> QED BY <1>4, <1>5

LEMMA BootKeeps ==
  ASSUME MailInv, Boot
  PROVE  MailParts'
  <1>1. \A n \in Message : SessionState(n)' = IF SessionState(n) = "delivering"
                                              THEN "queued_for_recipient" ELSE SessionState(n)
    BY BootRows DEF MailInv, ClaimInv
  <1>2. UNCHANGED <<posted, handed, task, crashes>>
    BY DEF Boot
  <1> QED BY <1>1, <1>2 DEF MailInv, MailParts, Stored, HandedFirst, SessionNeverDropped,
                            Drives, InFlight

LEMMA MailNext ==
  ASSUME MailInv, Next
  PROVE  MailParts'
  <1>1. ASSUME NEW m \in Message, ChildSend(m) PROVE MailParts'
    <2>1. \A n \in Message : posted[n] > 0 => posted'[n] > 0
      BY <1>1, PostRanks DEF ChildSend, PostsOnly, MailInv, ClaimInv
    <2> QED BY <1>1, <2>1, QuietKeeps DEF ChildSend
  <1>2. ASSUME NEW a \in Agent, NEW p \in Provider, Launch(a, p) PROVE MailParts'
    BY <1>2, QuietKeeps DEF Launch, dbVars
  <1>3. ASSUME NEW a \in Agent,
               PromptFails(a) \/ ChildExit(a) \/ SpawnError(a) \/ StopAgent(a) \/ ExitEvent(a)
        PROVE  MailParts'
    BY <1>3, QuietKeeps DEF PromptFails, ChildExit, SpawnError, StopAgent, ExitEvent, dbVars
  <1> QED BY <1>1, <1>2, <1>3, SendKeeps, SweepKeeps, HandOverKeeps, SettleKeeps, CrashKeeps,
             BootKeeps DEF Next, Progress

LEMMA MailInductive == MailInv /\ [Next]_vars => MailInv'
  <1> SUFFICES ASSUME MailInv, [Next]_vars PROVE MailInv'
    OBVIOUS
  <1>1. ClaimInv'
    BY ClaimInductive DEF MailInv
  <1>2. CASE Next
    BY <1>1, <1>2, MailNext DEF MailInv
  <1>3. CASE UNCHANGED vars
    BY <1>1, <1>3, QuietKeeps DEF vars, MailInv
  <1> QED BY <1>2, <1>3

LEMMA MailAlways == Spec => []MailInv
  BY MailInit, MailInductive, PTL DEF Spec

(* Until the sidecar crashes, a row begun for a session agent never ends   *)
(* up in a state that no code path looks at again (deliveryWorker.js, W2). *)
THEOREM WakesAreKept == Spec => []SessionNeverDropped
  BY MailAlways, PTL DEF MailInv, MailParts

-----------------------------------------------------------------------------
(* The refinement: the effect of each step on the mailbox.                 *)

Acked(n) == SessionState(n) = "accepted_by_runtime"

Counts == [m \in Message |-> handed[m]["session_turn"]]

MailVars == <<Box, Counts>>

LEMMA Stutters ==
  ASSUME UNCHANGED <<posted, handed>>, \A n \in Message : Acked(n)' <=> Acked(n)
  PROVE  UNCHANGED MailVars
  <1>1. Box' = Box
    BY DEF Box, Acked
  <1>2. Counts' = Counts
    BY DEF Counts
  <1> QED BY <1>1, <1>2 DEF MailVars

(* Posting a message whose session row was not accepted in the same step.  *)
LEMMA Puts ==
  ASSUME TypeInv, NEW m \in Message, Post(m), UNCHANGED handed, ~Acked(m)',
         \A n \in Message \ {m} : Acked(n)' <=> Acked(n)
  PROVE  SessionMailbox!Put(m)
  <1>1. \A n \in Message : posted[n] \in Nat /\ posted'[n] \in Nat
    BY PostType DEF TypeInv, TypeOK
  <1>2. posted[m] = 0 /\ posted'[m] # 0 /\ \A n \in Message \ {m} : posted'[n] = posted[n]
    <2>1. posted[m] = 0 /\ posted'[m] > 0
      BY PostRanks
    <2>2. \A n \in Message \ {m} : posted'[n] = posted[n]
      BY DEF Post, TypeInv, TypeOK
    <2> QED BY <1>1, <2>1, <2>2
  <1>3. Box[m] = "absent" /\ Box' = [Box EXCEPT ![m] = "open"]
    BY <1>2 DEF Box, Acked
  <1> QED BY <1>3 DEF SessionMailbox!Put

(* A step of deliverMessage accepts nothing.                               *)
LEMMA DeliverAcks ==
  ASSUME ClaimInv, NEW t \in Task, ~InFlight(t), NEW m \in Message,
         NEW rest \in SUBSET Message, DeliverMessage(t, m, rest)
  PROVE  \A n \in Message : Acked(n)' <=> Acked(n)
  <1>1. TypeInv
    BY DEF ClaimInv
  <1>2. \A n \in Message :
            \/ SessionState(n)' = SessionState(n)
            \/ SessionState(n)' \in {"queued_for_recipient", "delivering"}
    BY <1>1, DeliverRows DEF OpensRow, Opened, SessionState, Mode
  <1> QED BY <1>1, <1>2, DeliverClaims DEF KeepsAccepted, Acked

LEMMA SendMaps ==
  ASSUME MailInv, NEW t \in Task, NEW m \in Message, SendMessage(t, m) \/ ResendMessage(t, m)
  PROVE  SessionMailbox!Put(m) \/ UNCHANGED MailVars
  <1>1. ClaimInv /\ TypeInv
    BY DEF MailInv, ClaimInv
  <1>2. ~InFlight(t) /\ DeliverMessage(t, m, {}) /\ UNCHANGED handed
    BY DEF SendMessage, ResendMessage, Idle, InFlight
  <1>3. \A n \in Message : Acked(n)' <=> Acked(n)
    BY <1>1, <1>2, DeliverAcks
  <1>4. CASE SendMessage(t, m)
    <2>1. Post(m) /\ posted[m] = 0
      BY <1>1, <1>4, PostRanks DEF SendMessage
    <2>2. ~Acked(m)
      BY <2>1 DEF MailInv, MailParts, Stored, Acked
    <2> QED BY <1>1, <1>2, <1>3, <2>1, <2>2, Puts
  <1>5. CASE ResendMessage(t, m)
    BY <1>2, <1>3, <1>5, Stutters DEF ResendMessage
  <1> QED BY <1>4, <1>5

LEMMA SweepMaps ==
  ASSUME MailInv, NEW t \in Task, Tick(t) \/ SweepNext(t)
  PROVE  UNCHANGED MailVars
  <1>1. ClaimInv /\ TypeInv
    BY DEF MailInv, ClaimInv
  <1>2. ~InFlight(t) /\ UNCHANGED <<posted, handed>>
    BY DEF Tick, SweepNext, Idle, InFlight
  <1>3. PICK m \in Message, rest \in SUBSET Message : DeliverMessage(t, m, rest)
    BY <1>1, SweepStep
  <1> QED BY <1>1, <1>2, <1>3, DeliverAcks, Stutters

LEMMA HandOverMaps ==
  ASSUME MailInv, NEW t \in Task, HandOver(t)
  PROVE  (\E m \in Message : SessionMailbox!HandOver(m)) \/ UNCHANGED MailVars
  <1>1. TypeInv
    BY DEF MailInv, ClaimInv
  <1>2. UNCHANGED <<posted, attempt>>
    BY DEF HandOver, dbVars
  <1>3. Box' = Box
    BY <1>2 DEF Box, SessionState
  <1>4. ASSUME NEW m \in Message, Drives(t, m)
        PROVE  SessionMailbox!HandOver(m)
    <2>1. Box[m] = "open"
      BY <1>4, DrivenIsPosted DEF Box
    <2>2. Counts' = [Counts EXCEPT ![m] = IF @ < 2 THEN @ + 1 ELSE @]
      <3>1. \A n \in Message : Drives(t, n) <=> n = m
        BY <1>4 DEF Drives
      <3> QED BY <1>1, <3>1, HandOverCounts DEF Counts
    <2> QED BY <1>3, <2>1, <2>2 DEF SessionMailbox!HandOver, Counts
  <1>5. CASE \A m \in Message : ~Drives(t, m)
    <2>1. Counts' = Counts
      BY <1>1, <1>5, HandOverCounts DEF Counts
    <2> QED BY <1>3, <2>1 DEF MailVars
  <1> QED BY <1>4, <1>5

LEMMA SettleMaps ==
  ASSUME MailInv, NEW t \in Task, Accept(t) \/ Reject(t)
  PROVE  (\E m \in Message : SessionMailbox!Acknowledge(m)) \/ UNCHANGED MailVars
  <1>1. TypeInv
    BY DEF MailInv, ClaimInv
  <1>2. UNCHANGED <<posted, handed>>
    BY DEF Accept, Reject
  <1>3. CASE Reject(t)
    <2>1. \A n \in Message : Acked(n)' <=> Acked(n)
      BY <1>1, <1>3, SettleRows, DrivenIsPosted DEF Acked
    <2> QED BY <1>2, <2>1, Stutters
  <1>4. ASSUME NEW m \in Message, Drives(t, m), Accept(t)
        PROVE  SessionMailbox!Acknowledge(m)
    <2>1. /\ Box[m] = "open" /\ handed[m]["session_turn"] > 0
      BY <1>4, DrivenIsPosted DEF Box, MailInv, MailParts, HandedFirst, Accept
    <2>2. \A n \in Message : IF n = m THEN Acked(n)' ELSE SessionState(n)' = SessionState(n)
      <3>1. \A n \in Message : Drives(t, n) <=> n = m
        BY <1>4 DEF Drives
      <3> QED BY <1>1, <1>4, <3>1, SettleRows DEF Acked
    <2>3. posted[m] # 0
      BY <1>4, DrivenIsPosted
    <2>4. Box' = [Box EXCEPT ![m] = "acked"]
      BY <1>2, <2>2, <2>3 DEF Box, Acked
    <2>5. Counts[m] > 0 /\ Counts' = Counts
      BY <1>2, <2>1 DEF Counts
    <2> QED BY <2>1, <2>4, <2>5 DEF SessionMailbox!Acknowledge, Counts
  <1>5. CASE Accept(t) /\ \A m \in Message : ~Drives(t, m)
    <2>1. \A n \in Message : Acked(n)' <=> Acked(n)
      BY <1>1, <1>5, SettleRows DEF Acked
    <2> QED BY <1>2, <2>1, Stutters
  <1> QED BY <1>3, <1>4, <1>5

LEMMA ChildSendMaps ==
  ASSUME MailInv, NEW m \in Message, ChildSend(m) \/ CrashInSend(m)
  PROVE  SessionMailbox!Put(m)
  <1>1. TypeInv
    BY DEF MailInv, ClaimInv
  <1>2. Post(m) /\ UNCHANGED handed
    BY DEF ChildSend, CrashInSend, LoseMemory
  <1>3. SessionState(m) = "none"
    <2>1. posted[m] = 0
      BY <1>1, <1>2, PostRanks DEF Post
    <2>2. ~(posted[m] > 0)
      BY <2>1
    <2>3. Stored
      BY DEF MailInv, MailParts
    <2> QED BY <2>2, <2>3 DEF Stored, SessionState
  <1>4. \A n \in Message : \/ SessionState(n)' = SessionState(n)
                           \/ n = m /\ SessionState(n)' = "pending"
    BY <1>1, CrashInSendRows DEF ChildSend, SessionState
  <1> QED BY <1>1, <1>2, <1>3, <1>4, Puts DEF Acked

LEMMA QuietMaps ==
  ASSUME UNCHANGED <<posted, attempt, handed>>
  PROVE  UNCHANGED MailVars
  <1>1. \A n \in Message : Acked(n)' <=> Acked(n)
    BY DEF Acked, SessionState
  <1> QED BY <1>1, Stutters

LEMMA StepMaps ==
  ASSUME MailInv, Next
  PROVE  SessionMailbox!Next \/ UNCHANGED MailVars
  <1> USE DEF SessionMailbox!Next
  <1>1. ASSUME NEW a \in Agent, NEW p \in Provider, Launch(a, p) PROVE UNCHANGED MailVars
    BY <1>1, QuietMaps DEF Launch, dbVars
  <1>2. ASSUME NEW a \in Agent,
               PromptFails(a) \/ ChildExit(a) \/ SpawnError(a) \/ StopAgent(a) \/ ExitEvent(a)
        PROVE  UNCHANGED MailVars
    BY <1>2, QuietMaps DEF PromptFails, ChildExit, SpawnError, StopAgent, ExitEvent, dbVars
  <1>3. CASE Crash
    BY <1>3, QuietMaps DEF Crash, LoseMemory, dbVars
  <1>4. CASE Boot
    <2>1. \A n \in Message : Acked(n)' <=> Acked(n)
      BY <1>4, BootRows DEF Acked, MailInv, ClaimInv
    <2> QED BY <1>4, <2>1, Stutters DEF Boot
  <1> QED BY <1>1, <1>2, <1>3, <1>4, SendMaps, SweepMaps, HandOverMaps, SettleMaps,
             ChildSendMaps DEF Next, Progress

(* The session delivery path implements the mailbox: a message is          *)
(* acknowledged only after it was handed over, and never handed over after *)
(* it was acknowledged.                                                    *)
THEOREM MailboxImplemented == Spec => ImplementsMailbox
  <1>1. Init => SessionMailbox!Init
    <2> SUFFICES ASSUME Init PROVE SessionMailbox!Init
      OBVIOUS
    <2>1. Box = [m \in Message |-> "absent"]
      BY DEF Init, Box
    <2>2. Counts = [m \in Message |-> 0]
      BY DEF Init, Counts, Mode
    <2> QED BY <2>1, <2>2 DEF SessionMailbox!Init, Counts
  <1>2. MailInv /\ [Next]_vars => [SessionMailbox!Next]_(SessionMailbox!mailVars)
    <2> SUFFICES ASSUME MailInv, [Next]_vars
                 PROVE  [SessionMailbox!Next]_(SessionMailbox!mailVars)
      OBVIOUS
    <2>1. CASE Next
      BY <2>1, StepMaps DEF MailVars, Counts, SessionMailbox!mailVars
    <2>2. CASE UNCHANGED vars
      BY <2>2, QuietMaps DEF vars, MailVars, Counts, SessionMailbox!mailVars
    <2> QED BY <2>1, <2>2
  <1> QED BY <1>1, <1>2, MailAlways, PTL DEF Spec, ImplementsMailbox, SessionMailbox!Spec

-----------------------------------------------------------------------------
(* One process per attempt.  The inductive invariant has two parts: the    *)
(* adapter of an agent whose binding names a child is the one launched     *)
(* with that binding, or gone; and a write in flight goes to the child its *)
(* row was begun with, whatever was launched since.                        *)
StdinRow(m) == attempt[m]["runtime_stdin"]

Writes(t) == InFlight(t) /\ task[t].mode = "runtime_stdin"

AdapterOfBinding ==
    \A a \in Agent :
        directory[a] # None /\ directory[a].mode = "runtime_stdin" =>
            adapters[a] \in {0, directory[a].payload[2]}

WriteOfRow ==
    \A t \in Task : Writes(t) => /\ StdinRow(task[t].msg).state # "none"
                                 /\ StdinRow(task[t].msg).payload[2] = task[t].inc

ProcessInv == TypeInv /\ AdapterOfBinding /\ WriteOfRow

(* A row of a child process that was begun keeps its payload.              *)
StdinKept == \A n \in Message : SamePayload(StdinRow(n), StdinRow(n)')

(* No write starts; one that goes on stays with its message and its child. *)
NoNewWrite ==
    \A t \in Task : Writes(t)' => /\ Writes(t)
                                  /\ task'[t].msg = task[t].msg /\ task'[t].inc = task[t].inc

LEMMA WritesGoOn ==
  ASSUME ProcessInv, StdinKept, NoNewWrite
  PROVE  WriteOfRow'
  <1> SUFFICES ASSUME NEW t \in Task, Writes(t)'
               PROVE  /\ attempt'[task'[t].msg]["runtime_stdin"].state # "none"
                      /\ attempt'[task'[t].msg]["runtime_stdin"].payload[2] = task'[t].inc
    BY DEF WriteOfRow, StdinRow
  <1>1. /\ Writes(t) /\ task'[t].msg = task[t].msg /\ task'[t].inc = task[t].inc
    BY DEF NoNewWrite
  <1>2. task[t].msg \in Message
    BY <1>1, TaskFields DEF Writes, ProcessInv
  <1>3. /\ StdinRow(task[t].msg).state # "none"
        /\ StdinRow(task[t].msg).payload[2] = task[t].inc
    BY <1>1 DEF ProcessInv, WriteOfRow
  <1> QED BY <1>1, <1>2, <1>3 DEF StdinKept, SamePayload, StdinRow

LEMMA DeliverWrites ==
  ASSUME ProcessInv, NEW t \in Task, NEW m \in Message, NEW rest \in SUBSET Message,
         DeliverMessage(t, m, rest)
  PROVE  WriteOfRow'
  <1> DEFINE b == directory[To[m]]
  <1>1. task \in [Task -> TaskState] /\ attempt \in [Message -> [Mode -> Attempt]] /\ TypeInv
    BY DEF ProcessInv, TypeInv, TypeOK
  <1>2. StdinKept
    BY <1>1, DeliverRows DEF OpensRow, StdinKept, SamePayload, StdinRow, Mode
  <1>3. \A u \in Task \ {t} : Writes(u)' <=> Writes(u)
    BY <1>1, DeliverTasks DEF Writes, InFlight
  <1>4. CASE ~Writes(t)'
    <2>1. NoNewWrite
      BY <1>1, <1>3, <1>4, DeliverTasks DEF NoNewWrite
    <2> QED BY <1>2, <2>1, WritesGoOn
  <1>5. CASE DeliverStdin(t, m, rest)
    <2>1. /\ MayDrive(m) /\ b.mode = "runtime_stdin" /\ adapters[To[m]] \in live
          /\ SetAttempt(m, b.mode, Begun(m, b))
          /\ task'[t].msg = m /\ task'[t].inc = adapters[To[m]]
      BY <1>1, <1>5 DEF DeliverStdin
    <2>2. To[m] \in Agent /\ b # None /\ ~Conflict(m, b)
      BY <2>1 DEF MayDrive
    <2>3. adapters[To[m]] = b.payload[2]
      <3>1. adapters[To[m]] # 0
        BY <2>1 DEF ProcessInv, TypeInv, TypeOK
      <3> QED BY <2>1, <2>2, <3>1 DEF ProcessInv, AdapterOfBinding
    <2>4. Begun(m, b).state # "none" /\ Begun(m, b).payload = b.payload
      BY <2>1, <2>2 DEF Begun, Conflict, NoAttempt
    <2>5. attempt'[m]["runtime_stdin"] = Begun(m, b)
      BY <1>1, <2>1 DEF SetAttempt, Mode
    <2> SUFFICES ASSUME NEW u \in Task, Writes(u)'
                 PROVE  /\ attempt'[task'[u].msg]["runtime_stdin"].state # "none"
                        /\ attempt'[task'[u].msg]["runtime_stdin"].payload[2] = task'[u].inc
      BY DEF WriteOfRow, StdinRow
    <2>6. CASE u = t
      BY <2>1, <2>3, <2>4, <2>5, <2>6
    <2>7. CASE u # t
      <3>1. task'[u] = task[u] /\ Writes(u)
        BY <1>1, <1>3, <2>7, DeliverTasks
      <3>2. task[u].msg \in Message
        BY <1>1, <3>1, TaskFields DEF Writes
      <3> QED BY <1>2, <3>1, <3>2 DEF ProcessInv, WriteOfRow, StdinKept, SamePayload, StdinRow
    <2> QED BY <2>6, <2>7
  <1>6. CASE DeliverSession(t, m, rest)
    <2>1. task'[t].mode = "session_turn"
      BY <1>1, <1>6 DEF DeliverSession
    <2> QED BY <1>4, <2>1 DEF Writes
  <1>7. CASE Proceed(t, rest)
    <2>1. ~InFlight(t)'
      BY <1>1, <1>7, ProceedFlight
    <2> QED BY <1>4, <2>1 DEF Writes
  <1> QED BY <1>5, <1>6, <1>7
       DEF DeliverMessage, DeliverOffline, DeliverRefused, DeliverUnwritable, DeliverParked

LEMMA SettleWrites ==
  ASSUME ProcessInv, NEW t \in Task, Accept(t) \/ Reject(t)
  PROVE  WriteOfRow'
  <1>1. task \in [Task -> TaskState] /\ attempt \in [Message -> [Mode -> Attempt]] /\ TypeInv
    BY DEF ProcessInv, TypeInv, TypeOK
  <1>2. PICK m \in Message, k \in Mode, rest \in SUBSET Message :
            m = task[t].msg /\ k = task[t].mode /\ rest = task[t].todo
    BY <1>1, TaskFields DEF Accept, Reject, InFlight
  <1>3. Proceed(t, rest)
    BY <1>2 DEF Accept, Reject
  <1>4. NoNewWrite
    BY <1>1, <1>3, ProceedFlight DEF NoNewWrite, Writes, InFlight
  <1>5. PICK a : SetAttempt(m, k, a) /\ a.state # "none" /\ a.payload = attempt[m][k].payload
    <2> DEFINE old == attempt[m][k]
    <2>1. old \in Attempt
      BY <1>1
    <2> HIDE DEF old
    <2>2. CASE Accept(t)
      <3> DEFINE a == [old EXCEPT !.state = "accepted_by_runtime", !.retryCount = 0]
      <3>1. a.state = "accepted_by_runtime" /\ a.payload = old.payload
        BY <2>1, EditedState, EditedPayload
      <3>2. SetAttempt(m, k, a)
        BY <1>2, <2>2 DEF Accept, old
      <3> HIDE DEF a
      <3> QED BY <3>1, <3>2 DEF old
    <2>3. CASE Reject(t)
      <3> DEFINE n == task[t].retry
                 a == Failed(old, k, n)
      <3>1. a.state # "none" /\ a.payload = old.payload
        BY <2>1, EditedState, EditedPayload DEF Failed
      <3>2. SetAttempt(m, k, a)
        BY <1>2, <2>3 DEF Reject, old
      <3> HIDE DEF a
      <3> QED BY <3>1, <3>2 DEF old
    <2> QED BY <2>2, <2>3
  <1>6. StdinKept
    BY <1>1, <1>5 DEF SetAttempt, StdinKept, SamePayload, StdinRow, Mode
  <1> QED BY <1>4, <1>6, WritesGoOn

LEMMA OtherWrites ==
  ASSUME ProcessInv, NoNewWrite, UNCHANGED attempt
  PROVE  WriteOfRow'
  BY WritesGoOn DEF StdinKept, SamePayload, StdinRow

LEMMA LoseMemoryWrites ==
  ASSUME LoseMemory
  PROVE  WriteOfRow' /\ AdapterOfBinding'
  BY DEF LoseMemory, WriteOfRow, Writes, InFlight, IdleTask, AdapterOfBinding

LEMMA BootWrites ==
  ASSUME ProcessInv, Boot
  PROVE  WriteOfRow'
  <1>1. StdinKept
    BY DEF ProcessInv, TypeInv, TypeOK, Boot, ResetStaleSessionInFlight, StdinKept, SamePayload,
           StdinRow, Mode
  <1>2. NoNewWrite
    BY DEF Boot, NoNewWrite, Writes, InFlight
  <1> QED BY <1>1, <1>2, WritesGoOn

LEMMA LaunchBinds ==
  ASSUME ProcessInv, NEW a \in Agent, NEW p \in Provider, Launch(a, p)
  PROVE  AdapterOfBinding'
  <1>1. directory \in [Agent -> Binding \cup {None}] /\ adapters \in [Agent -> 0..MaxLaunches]
    BY DEF ProcessInv, TypeInv, TypeOK
  <1> SUFFICES ASSUME NEW c \in Agent, directory'[c] # None,
                      directory'[c].mode = "runtime_stdin"
               PROVE  adapters'[c] \in {0, directory'[c].payload[2]}
    BY DEF AdapterOfBinding
  <1>2. CASE c = a
    BY <1>1, <1>2 DEF Launch, ModeOf
  <1>3. CASE c # a
    BY <1>1, <1>3 DEF Launch, ProcessInv, AdapterOfBinding
  <1> QED BY <1>2, <1>3

LEMMA RuntimeStepBinds ==
  ASSUME ProcessInv, NEW a \in Agent,
         PromptFails(a) \/ ChildExit(a) \/ SpawnError(a) \/ StopAgent(a) \/ ExitEvent(a)
  PROVE  AdapterOfBinding' /\ UNCHANGED <<attempt, task>>
  <1>1. directory \in [Agent -> Binding \cup {None}] /\ adapters \in [Agent -> 0..MaxLaunches]
    BY DEF ProcessInv, TypeInv, TypeOK
  <1>2. UNCHANGED <<attempt, task>>
    BY DEF PromptFails, ChildExit, SpawnError, StopAgent, ExitEvent, dbVars
  <1>3. \A c \in Agent : /\ directory'[c] \in {directory[c], None}
                         /\ adapters'[c] \in {adapters[c], 0}
    BY <1>1 DEF PromptFails, ChildExit, SpawnError, StopAgent, ExitEvent
  <1> QED BY <1>2, <1>3 DEF ProcessInv, AdapterOfBinding

LEMMA ProcessNext ==
  ASSUME ProcessInv, Next
  PROVE  AdapterOfBinding' /\ WriteOfRow'
  <1>1. TypeInv
    BY DEF ProcessInv
  <1>2. ASSUME UNCHANGED <<directory, adapters>> PROVE AdapterOfBinding'
    BY <1>2 DEF ProcessInv, AdapterOfBinding
  <1>3. ASSUME UNCHANGED task PROVE NoNewWrite
    BY <1>3 DEF NoNewWrite, Writes, InFlight
  <1>4. ASSUME NEW t \in Task, NEW m \in Message, SendMessage(t, m) \/ ResendMessage(t, m)
        PROVE  AdapterOfBinding' /\ WriteOfRow'
    <2>1. DeliverMessage(t, m, {}) /\ UNCHANGED <<directory, adapters>>
      BY <1>4 DEF SendMessage, ResendMessage, rtVars
    <2> QED BY <1>2, <2>1, DeliverWrites
  <1>5. ASSUME NEW t \in Task, Tick(t) \/ SweepNext(t)
        PROVE  AdapterOfBinding' /\ WriteOfRow'
    <2>1. UNCHANGED <<directory, adapters>>
      BY <1>5 DEF Tick, SweepNext, rtVars
    <2>2. PICK m \in Message, rest \in SUBSET Message : DeliverMessage(t, m, rest)
      BY <1>1, <1>5, SweepStep
    <2> QED BY <1>2, <2>1, <2>2, DeliverWrites
  <1>6. ASSUME NEW t \in Task, HandOver(t)
        PROVE  AdapterOfBinding' /\ WriteOfRow'
    <2>1. UNCHANGED <<directory, adapters, attempt>>
      BY <1>6 DEF HandOver, rtVars, dbVars
    <2>2. NoNewWrite
      BY <1>1, <1>6 DEF HandOver, TypeInv, TypeOK, TaskState, NoNewWrite, Writes, InFlight
    <2> QED BY <1>2, <2>1, <2>2, OtherWrites
  <1>7. ASSUME NEW t \in Task, Accept(t) \/ Reject(t)
        PROVE  AdapterOfBinding' /\ WriteOfRow'
    <2>1. UNCHANGED <<directory, adapters>>
      BY <1>7 DEF Accept, Reject, rtVars
    <2> QED BY <1>2, <1>7, <2>1, SettleWrites
  <1>8. ASSUME NEW m \in Message, ChildSend(m)
        PROVE  AdapterOfBinding' /\ WriteOfRow'
    <2>1. UNCHANGED <<directory, adapters, attempt, task>>
      BY <1>8 DEF ChildSend, rtVars
    <2> QED BY <1>2, <1>3, <2>1, OtherWrites
  <1>9. ASSUME LoseMemory PROVE AdapterOfBinding' /\ WriteOfRow'
    BY <1>9, LoseMemoryWrites
  <1>10. ASSUME NEW a \in Agent, NEW p \in Provider, Launch(a, p)
         PROVE  AdapterOfBinding' /\ WriteOfRow'
    <2>1. UNCHANGED <<attempt, task>>
      BY <1>10 DEF Launch, dbVars
    <2> QED BY <1>3, <1>10, <2>1, LaunchBinds, OtherWrites
  <1>11. ASSUME NEW a \in Agent,
                PromptFails(a) \/ ChildExit(a) \/ SpawnError(a) \/ StopAgent(a) \/ ExitEvent(a)
         PROVE  AdapterOfBinding' /\ WriteOfRow'
    BY <1>3, <1>11, RuntimeStepBinds, OtherWrites
  <1>12. CASE Boot
    <2>1. UNCHANGED <<directory, adapters>>
      BY <1>12 DEF Boot
    <2> QED BY <1>2, <1>12, <2>1, BootWrites
  <1> QED BY <1>4, <1>5, <1>6, <1>7, <1>8, <1>9, <1>10, <1>11, <1>12
       DEF Next, Progress, Crash, CrashInSend

(* An attempt of a child process is only ever driven with the process it   *)
(* was begun with, across relaunches under the same runtimeId, exits that  *)
(* arrive late and restarts of the sidecar.                                *)
THEOREM AttemptKeepsItsProcess == Spec => []OneProcessPerAttempt
  <1>1. Init => ProcessInv
    BY TypeInit DEF Init, ProcessInv, AdapterOfBinding, WriteOfRow, Writes, InFlight, IdleTask
  <1>2. ProcessInv /\ [Next]_vars => ProcessInv'
    <2> SUFFICES ASSUME ProcessInv, [Next]_vars PROVE ProcessInv'
      OBVIOUS
    <2>1. TypeInv'
      BY TypeNext DEF ProcessInv
    <2>2. CASE Next
      BY <2>1, <2>2, ProcessNext DEF ProcessInv
    <2>3. CASE UNCHANGED vars
      BY <2>1, <2>3 DEF vars, ProcessInv, AdapterOfBinding, WriteOfRow, Writes, StdinRow, InFlight
    <2> QED BY <2>2, <2>3
  <1>3. ProcessInv => OneProcessPerAttempt
    BY DEF ProcessInv, WriteOfRow, Writes, InFlight, StdinRow, OneProcessPerAttempt
  <1> QED BY <1>1, <1>2, <1>3, PTL DEF Spec
=============================================================================
