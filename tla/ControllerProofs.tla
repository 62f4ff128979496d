--------------------------- MODULE ControllerProofs ---------------------------
(***************************************************************************)
(* Theorems about the services of the controller that do not publish: the  *)
(* messages and mails (Notifications), the terminals of the nodes          *)
(* (TerminalSessions), the watch over the backups (BackupVerification) and *)
(* the health center (SystemHealth), for every number of administrators,   *)
(* gates, nodes, sessions, connections, jobs and checks, and every length  *)
(* of their histories.                                                     *)
(***************************************************************************)
EXTENDS Notifications, TerminalSessions, BackupVerification, SystemHealth, TLAPS, SequenceTheorems

-------------------------------------------------------------------------------
(* Messages and mails *)

Rows == [life : 0..MaxLives, status : Announced \union {"none", "active"}, at : 0..MaxMonths]
Messages == [source : Sources, status : Announced, at : 0..MaxMonths, read : BOOLEAN, dismissed : BOOLEAN]

InboxTyped ==
  /\ work \in [Items -> Rows]
  /\ inbox \subseteq Messages
  /\ month \in 0..MaxMonths
  /\ \A i \in Items : work[i].life = 0 <=> work[i].status = "none"
  /\ made.once \subseteq Sources \X Announced

\* How far a job has come.
HowFar(status) ==
  CASE status = "none" -> 0 [] status = "queued" -> 1 [] status = "active" -> 2
    [] status = "failed" -> 3 [] OTHER -> 4

Key(m) == <<m.source, m.status>>
Present(i) == <<Source(i), work[i].status>>
InInbox(key) == \E m \in inbox : Key(m) = key

\* What was told of a job is behind it, or is where it stands.
ToldIsPast ==
  \A i \in Items, life \in 0..MaxLives, status \in Announced :
    <<<<i, life>>, status>> \in made.once =>
      \/ life < work[i].life
      \/ life = work[i].life /\ HowFar(status) <= HowFar(work[i].status)

\* A message is as old as what it tells.
MessagesDated ==
  \A m \in inbox : /\ Key(m) \in made.once
                   /\ \A i \in Items : Key(m) = Present(i) => m.at = work[i].at

\* Where a job stands is told, or was told and is too old to be told again.
DeletedIsOld ==
  \A i \in Items :
    Present(i) \in made.once /\ ~InInbox(Present(i)) => work[i].at + MonthsKept < month

\* What an administrator has dealt with is on record.
DealtWith ==
  /\ \A m \in inbox : m.read \/ m.dismissed => Key(m) \in attended
  /\ \A key \in made.once : InInbox(key) \/ key \in attended

InboxInv ==
  /\ InboxTyped /\ ToldIsPast /\ MessagesDated /\ DeletedIsOld /\ DealtWith
  /\ made.again = {}

-----------------------------------------------------------------------------
Turns == [resolved : BOOLEAN, on : BOOLEAN]
Mails == [kind : {"problem", "recovery", "silent"}, at : 0..MaxMinutes, marked : BOOLEAN]
Sendings == [kind : {"problem", "recovery"}, at : 0..MaxMinutes]

MailTyped ==
  /\ scoreGate \in {"allowed", "blocked"} /\ waiting \in Seq(Turns) /\ mails \in Seq(Mails)
  /\ mailOn \in BOOLEAN /\ excused \in BOOLEAN /\ minute \in 0..MaxMinutes
  /\ sending = NotSending \/ (sending \in Sendings /\ sending.at <= minute)
  /\ delivery \in [known : BOOLEAN, active : BOOLEAN, last : 0..MaxMinutes]
  /\ delivery.active => delivery.known

\* The row is active when the last mail was that of a problem and was marked, or
\* that of a recovery and was not.
Opens(mail) == (mail.kind = "problem" /\ mail.marked) \/ (mail.kind = "recovery" /\ ~mail.marked)
ActiveIsLast == delivery.active <=> mails # <<>> /\ Opens(mails[Len(mails)])

\* The mail under way is the one that is due.
SendingIsDue ==
  sending # NotSending =>
    /\ sending.kind = "problem" <=> ~delivery.active
    /\ sending.kind = "problem" /\ delivery.known => sending.at >= delivery.last + Cooldown

\* No marked mail of a problem is later than the row.
LastIsLatest ==
  \A i \in 1..Len(mails) :
    mails[i].kind = "problem" /\ mails[i].marked => delivery.known /\ mails[i].at <= delivery.last

\* As long as nothing keeps a mail from its gate, the handlers that wait tell in
\* turn what the gate has become since the mail under way.
Blocked == IF sending = NotSending THEN delivery.active ELSE sending.kind = "problem"
Before(k) == IF k = 1 THEN Blocked ELSE ~waiting[k - 1].resolved
TurnsAlternate ==
  ~excused =>
    /\ \A k \in 1..Len(waiting) : waiting[k].on /\ waiting[k].resolved = Before(k)
    /\ (scoreGate = "blocked") = Before(Len(waiting) + 1)

MailInv ==
  /\ MailTyped /\ ActiveIsLast /\ SendingIsDue /\ LastIsLatest /\ TurnsAlternate
  /\ MailsAlternate /\ Spaced
LEMMA RankOrders ==
  /\ \A status \in Announced \union {"none", "active"} : HowFar(status) \in Nat
  /\ HowFar("none") < HowFar("queued") /\ HowFar("queued") < HowFar("active")
  /\ HowFar("active") < HowFar("failed") /\ HowFar("active") < HowFar("succeeded")
  /\ HowFar("failed") < HowFar("succeeded")
BY DEF HowFar, Announced, Finished

\* A job that goes on, or starts over.
LEMMA WorkMoves ==
  ASSUME InboxInv, NEW i \in Items, NEW row \in Rows,
         work' = [work EXCEPT ![i] = row], UNCHANGED <<inbox, month, made, attended>>,
         row.status # "none", row.life # 0,
         \/ work[i].life < row.life
         \/ row.life = work[i].life /\ HowFar(work[i].status) < HowFar(row.status)
  PROVE  InboxInv'
<1> USE NotificationsAssumption DEF InboxInv
<1>1. InboxTyped'
  BY DEF InboxTyped
<1>2. \A j \in Items : /\ work[j] \in Rows /\ work'[j] = IF j = i THEN row ELSE work[j]
                       /\ HowFar(work[j].status) \in Nat
  BY RankOrders DEF InboxTyped, Rows
<1>3. row.life \in Nat /\ work[i].life \in Nat /\ HowFar(row.status) \in Nat /\ HowFar(work[i].status) \in Nat
  BY <1>2, RankOrders DEF Rows
<1>4. ToldIsPast'
  <2> SUFFICES ASSUME NEW j \in Items, NEW life \in 0..MaxLives, NEW status \in Announced,
                      <<<<j, life>>, status>> \in made.once
               PROVE  life < work'[j].life \/ (life = work'[j].life /\ HowFar(status) <= HowFar(work'[j].status))
    BY DEF ToldIsPast
  <2>1. life < work[j].life \/ (life = work[j].life /\ HowFar(status) <= HowFar(work[j].status))
    BY DEF ToldIsPast
  <2>2. HowFar(status) \in Nat /\ life \in Nat
    BY RankOrders
  <2> QED
    BY <1>2, <1>3, <2>1, <2>2
<1>5. ~(<<<<i, row.life>>, row.status>> \in made.once /\ row.status \in Announced)
  <2> SUFFICES ASSUME <<<<i, row.life>>, row.status>> \in made.once, row.status \in Announced PROVE FALSE
    OBVIOUS
  <2>1. row.life < work[i].life \/ (row.life = work[i].life /\ HowFar(row.status) <= HowFar(work[i].status))
    BY DEF ToldIsPast, Rows
  <2> QED
    BY <1>3, <2>1
<1>6. \A j \in Items : Present(j)' = IF j = i THEN <<<<i, row.life>>, row.status>> ELSE Present(j)
  BY <1>2 DEF Present, Source
<1>7. MessagesDated'
  <2> SUFFICES ASSUME NEW m \in inbox
               PROVE  /\ Key(m) \in made.once
                      /\ \A j \in Items : Key(m) = Present(j)' => m.at = work'[j].at
    BY DEF MessagesDated, Key
  <2>1. Key(m) \in made.once /\ \A j \in Items : Key(m) = Present(j) => m.at = work[j].at
    BY DEF MessagesDated
  <2>2. m.status \in Announced
    BY DEF InboxTyped, Messages
  <2>3. Key(m) # <<<<i, row.life>>, row.status>>
    BY <1>5, <2>1, <2>2 DEF Key
  <2> QED
    BY <1>2, <1>6, <2>1, <2>3
<1>8. DeletedIsOld'
  <2> SUFFICES ASSUME NEW j \in Items, Present(j)' \in made.once, ~InInbox(Present(j)')
               PROVE  work'[j].at + MonthsKept < month
    BY DEF DeletedIsOld, InInbox, Key
  <2>1. j # i
    BY <1>5, <1>6 DEF InboxTyped
  <2> QED
    BY <1>2, <1>6, <2>1 DEF DeletedIsOld
<1>9. DealtWith' /\ made'.again = {}
  BY DEF DealtWith, InInbox, Key
<1> QED
  BY <1>1, <1>4, <1>7, <1>8, <1>9

LEMMA StartWorkKeeps == ASSUME InboxInv, NEW i \in Items, StartWork(i) PROVE InboxInv'
<1> DEFINE row == [life |-> work[i].life + 1, status |-> "queued", at |-> month]
<1>1. /\ work' = [work EXCEPT ![i] = row] /\ UNCHANGED <<inbox, month, made, attended>>
      /\ work[i] \in Rows
  BY DEF StartWork, InboxInv, InboxTyped
<1>2. row \in Rows /\ work[i].life < row.life /\ row.life # 0
  BY <1>1, NotificationsAssumption DEF StartWork, InboxInv, InboxTyped, Rows, Announced, Finished
<1>3. row.status # "none"
  OBVIOUS
<1> HIDE DEF row
<1> QED
  BY <1>1, <1>2, <1>3, WorkMoves

LEMMA AdvanceWorkKeeps ==
  ASSUME InboxInv, NEW i \in Items, NEW status \in Finished \union {"active"}, AdvanceWork(i, status)
  PROVE  InboxInv'
<1> DEFINE row == [work[i] EXCEPT !.status = status, !.at = month]
<1>1. /\ work' = [work EXCEPT ![i] = row] /\ UNCHANGED <<inbox, month, made, attended>>
      /\ work[i] \in Rows
  BY DEF AdvanceWork, InboxInv, InboxTyped
<1>2. row \in Rows /\ row.life = work[i].life /\ row.status = status /\ row.life # 0 /\ status # "none"
  BY <1>1, NotificationsAssumption DEF AdvanceWork, InboxInv, InboxTyped, Rows, Announced, Finished
<1>3. HowFar(work[i].status) < HowFar(status)
  BY RankOrders DEF AdvanceWork, Finished
<1> HIDE DEF row
<1> QED
  BY <1>1, <1>2, <1>3, WorkMoves

\* Messages that are marked: the keys and ages are those of before.
LEMMA MessagesMarked ==
  ASSUME InboxInv, UNCHANGED <<work, month, made>>, attended \subseteq attended',
         \A new \in inbox' : /\ new \in Messages
                             /\ \E m \in inbox : Key(new) = Key(m) /\ new.at = m.at
                             /\ new.read \/ new.dismissed => Key(new) \in attended',
         \A m \in inbox : \E new \in inbox' : Key(new) = Key(m)
  PROVE  InboxInv'
<1> USE DEF InboxInv
<1>1. InboxTyped' /\ ToldIsPast' /\ made'.again = {}
  BY DEF InboxTyped, ToldIsPast
<1>2. \A key : InInbox(key)' <=> InInbox(key)
  BY DEF InInbox, Key
<1>3. \A i : Present(i)' = Present(i)
  BY DEF Present, Source
<1>4. MessagesDated'
  <2> SUFFICES ASSUME NEW new \in inbox'
               PROVE  /\ Key(new) \in made.once
                      /\ \A i \in Items : Key(new) = Present(i) => new.at = work[i].at
    BY <1>3 DEF MessagesDated, Key
  <2>1. PICK m \in inbox : Key(new) = Key(m) /\ new.at = m.at
    OBVIOUS
  <2> QED
    BY <2>1 DEF MessagesDated
<1>5. DeletedIsOld'
  BY <1>2, <1>3 DEF DeletedIsOld
<1>6. DealtWith'
  BY <1>2 DEF DealtWith, Key
<1> QED
  BY <1>1, <1>4, <1>5, <1>6

LEMMA MarkReadKeeps == ASSUME InboxInv, NEW m \in inbox, MarkRead(m) PROVE InboxInv'
<1> DEFINE new == [m EXCEPT !.read = TRUE]
<1>1. new \in Messages /\ Key(new) = Key(m) /\ new.at = m.at
  BY DEF InboxInv, InboxTyped, Messages, Key
<1>2. /\ inbox' = (inbox \ {m}) \union {new} /\ attended' = attended \union {Key(m)}
      /\ UNCHANGED <<work, month, made>>
  BY DEF MarkRead, Handled, Key
<1>3. inbox \subseteq Messages /\ \A other \in inbox : other.read \/ other.dismissed => Key(other) \in attended
  BY DEF InboxInv, InboxTyped, DealtWith
<1> HIDE DEF new
<1> QED
  BY <1>1, <1>2, <1>3, MessagesMarked

LEMMA DismissMessageKeeps == ASSUME InboxInv, NEW m \in inbox, DismissMessage(m) PROVE InboxInv'
<1> DEFINE new == [m EXCEPT !.dismissed = TRUE]
<1>1. new \in Messages /\ Key(new) = Key(m) /\ new.at = m.at
  BY DEF InboxInv, InboxTyped, Messages, Key
<1>2. /\ inbox' = (inbox \ {m}) \union {new} /\ attended' = attended \union {Key(m)}
      /\ UNCHANGED <<work, month, made>>
  BY DEF DismissMessage, Handled, Key
<1>3. inbox \subseteq Messages /\ \A other \in inbox : other.read \/ other.dismissed => Key(other) \in attended
  BY DEF InboxInv, InboxTyped, DealtWith
<1> HIDE DEF new
<1> QED
  BY <1>1, <1>2, <1>3, MessagesMarked

LEMMA MarkAllReadKeeps == ASSUME InboxInv, MarkAllRead PROVE InboxInv'
<1> DEFINE new(m) == IF m.dismissed THEN m ELSE [m EXCEPT !.read = TRUE]
<1>1. \A m \in inbox : new(m) \in Messages /\ Key(new(m)) = Key(m) /\ new(m).at = m.at
  BY DEF InboxInv, InboxTyped, Messages, Key
<1>2. /\ inbox' = {new(m) : m \in inbox} /\ attended' = attended \union {Key(m) : m \in inbox}
      /\ UNCHANGED <<work, month, made>>
  BY DEF MarkAllRead, Handled, Key
<1> HIDE DEF new
<1>3. \A m \in inbox : new(m) \in inbox' /\ Key(m) \in attended'
  BY <1>2
<1>4. \A other \in inbox' : \E m \in inbox : other = new(m)
  BY <1>2
<1> QED
  BY <1>1, <1>2, <1>3, <1>4, MessagesMarked

LEMMA ReconcileMessagesKeeps == ASSUME InboxInv, ReconcileMessages PROVE InboxInv'
<1> USE NotificationsAssumption DEF InboxInv
<1>1. PICK chosen \in SUBSET ToTell :
        /\ inbox' = {m \in inbox \union {MessageFor(i) : i \in chosen} : ~Outdated(m)}
        /\ LET new == {Present(i) : i \in chosen}
           IN made' = [once |-> made.once \union new, again |-> made.again \union (made.once \intersect new)]
        /\ UNCHANGED <<work, month, attended>>
  BY DEF ReconcileMessages, Present
<1>2. \A i \in Items : /\ work[i] \in Rows /\ work[i].at \in Nat /\ Source(i) \in Sources
  BY DEF InboxTyped, Rows, Source, Sources
<1>3. \A i \in chosen : /\ i \in Items /\ work[i].status \in Announced /\ work[i].at + MonthsKept >= month
                        /\ ~InInbox(Present(i))
  BY DEF ToTell, InInbox, Key, Present
<1>4. \A i \in chosen : Present(i) \notin made.once
  <2> SUFFICES ASSUME NEW i \in chosen, Present(i) \in made.once PROVE FALSE
    OBVIOUS
  <2>1. work[i].at + MonthsKept < month
    BY <1>3 DEF DeletedIsOld
  <2>2. month \in Nat /\ MonthsKept \in Nat /\ work[i].at \in Nat /\ work[i].at + MonthsKept >= month
    BY <1>2, <1>3 DEF InboxTyped
  <2> QED
    BY <2>1, <2>2
<1>5. made'.again = {} /\ made'.once = made.once \union {Present(i) : i \in chosen}
  BY <1>1, <1>4
<1>6. \A i \in chosen : /\ MessageFor(i) \in Messages /\ Key(MessageFor(i)) = Present(i)
                        /\ MessageFor(i).at = work[i].at
                        /\ ~MessageFor(i).read /\ ~MessageFor(i).dismissed /\ MessageFor(i) \in inbox'
  <2>1. \A i \in chosen : /\ MessageFor(i) \in Messages /\ Key(MessageFor(i)) = Present(i)
                          /\ MessageFor(i).at = work[i].at
                          /\ ~MessageFor(i).read /\ ~MessageFor(i).dismissed
    BY <1>2, <1>3 DEF MessageFor, Messages, Key, Present, Rows
  <2>2. \A i \in chosen : ~Outdated(MessageFor(i))
    BY <2>1 DEF Outdated
  <2> QED
    BY <1>1, <2>1, <2>2
<1>7. \A m \in inbox' : m \in inbox \/ \E i \in chosen : m = MessageFor(i)
  BY <1>1
<1>8. \A m \in inbox : m \in inbox' \/ ((m.read \/ m.dismissed) /\ m.at + MonthsKept < month)
  BY <1>1 DEF Outdated
<1>9. \A i : Present(i)' = Present(i)
  BY <1>1 DEF Present, Source
<1>10. InboxTyped'
  <2>1. inbox' \subseteq Messages
    BY <1>6, <1>7 DEF InboxTyped
  <2>2. \A i \in chosen : Present(i) \in Sources \X Announced
    BY <1>2, <1>3 DEF Present
  <2> QED
    BY <1>1, <1>5, <2>1, <2>2 DEF InboxTyped
<1>11. ToldIsPast'
  <2> SUFFICES ASSUME NEW i \in Items, NEW life \in 0..MaxLives, NEW status \in Announced,
                      <<<<i, life>>, status>> \in made'.once
               PROVE  life < work[i].life \/ (life = work[i].life /\ HowFar(status) <= HowFar(work[i].status))
    BY <1>1 DEF ToldIsPast
  <2>1. CASE <<<<i, life>>, status>> \in made.once
    BY <2>1 DEF ToldIsPast
  <2>2. CASE \E j \in chosen : <<<<i, life>>, status>> = Present(j)
    <3>1. life = work[i].life /\ status = work[i].status
      BY <2>2 DEF Present, Source
    <3>2. HowFar(status) \in Nat
      BY RankOrders
    <3> QED
      BY <3>1, <3>2
  <2> QED
    BY <1>5, <2>1, <2>2
<1>12. MessagesDated'
  <2> SUFFICES ASSUME NEW m \in inbox'
               PROVE  /\ Key(m) \in made'.once
                      /\ \A i \in Items : Key(m) = Present(i) => m.at = work[i].at
    BY <1>1, <1>9 DEF MessagesDated, Key
  <2>1. CASE m \in inbox
    BY <1>5, <2>1 DEF MessagesDated
  <2>2. ASSUME NEW j \in chosen, m = MessageFor(j)
        PROVE  Key(m) \in made'.once /\ \A i \in Items : Key(m) = Present(i) => m.at = work[i].at
    <3>1. Key(m) = Present(j) /\ m.at = work[j].at
      BY <1>6, <2>2
    <3>2. \A i \in Items : Present(i) = Present(j) => i = j
      BY DEF Present, Source
    <3> QED
      BY <1>5, <3>1, <3>2
  <2> QED
    BY <1>7, <2>1, <2>2
<1>13. DeletedIsOld'
  <2> SUFFICES ASSUME NEW i \in Items, Present(i) \in made'.once,
                      \A m \in inbox' : Key(m) # Present(i)
               PROVE  work[i].at + MonthsKept < month
    BY <1>1, <1>9 DEF DeletedIsOld, InInbox, Key
  <2>1. i \notin chosen
    BY <1>6
  <2>2. Present(i) \in made.once
    <3>1. \A j \in Items : Present(i) = Present(j) => i = j
      BY DEF Present, Source
    <3> QED
      BY <1>3, <1>5, <2>1, <3>1
  <2>3. CASE InInbox(Present(i))
    <3>1. PICK m \in inbox : Key(m) = Present(i)
      BY <2>3 DEF InInbox
    <3>2. m \notin inbox'
      BY <3>1
    <3> QED
      BY <1>8, <3>1, <3>2 DEF MessagesDated
  <2> QED
    BY <2>2, <2>3 DEF DeletedIsOld
<1>14. DealtWith'
  <2>1. \A m \in inbox' : m.read \/ m.dismissed => Key(m) \in attended
    BY <1>6, <1>7 DEF DealtWith
  <2>2. ASSUME NEW key \in made'.once PROVE InInbox(key)' \/ key \in attended
    <3>1. CASE \E i \in chosen : key = Present(i)
      BY <1>6, <3>1 DEF InInbox, Key
    <3>2. CASE key \in made.once /\ InInbox(key)
      <4>1. PICK m \in inbox : Key(m) = key
        BY <3>2 DEF InInbox
      <4>2. m \in inbox' \/ key \in attended
        BY <1>8, <4>1 DEF DealtWith
      <4> QED
        BY <4>1, <4>2 DEF InInbox, Key
    <3> QED
      BY <1>5, <3>1, <3>2 DEF DealtWith
  <2> QED
    BY <1>1, <2>1, <2>2 DEF DealtWith, Key, InInbox
<1> QED
  BY <1>5, <1>10, <1>11, <1>12, <1>13, <1>14

LEMMA PassMonthKeeps == ASSUME InboxInv, PassMonth PROVE InboxInv'
<1> USE NotificationsAssumption DEF InboxInv, PassMonth
<1>1. InboxTyped' /\ ToldIsPast' /\ MessagesDated' /\ DealtWith' /\ made'.again = {}
  BY DEF InboxTyped, ToldIsPast, MessagesDated, DealtWith, InInbox, Key, Present, Source
<1>2. DeletedIsOld'
  <2>1. work' = work /\ inbox' = inbox /\ made' = made /\ month' = month + 1 /\ month \in Nat
    BY DEF InboxTyped
  <2>2. \A i \in Items : work[i].at \in Nat
    BY DEF InboxTyped, Rows
  <2>3. ASSUME NEW i \in Items, Present(i) \in made.once, ~InInbox(Present(i))
        PROVE  work[i].at + MonthsKept < month + 1
    <3>1. work[i].at + MonthsKept < month
      BY <2>3 DEF DeletedIsOld
    <3> QED
      BY <2>1, <2>2, <3>1
  <2> QED
    BY <2>1, <2>3 DEF DeletedIsOld, Present, Source, InInbox, Key
<1> QED
  BY <1>1, <1>2

LEMMA InboxStepKeeps == ASSUME InboxInv, [InboxNext]_inboxVars PROVE InboxInv'
<1>1. CASE InboxNext
  BY <1>1, StartWorkKeeps, AdvanceWorkKeeps, ReconcileMessagesKeeps, MarkAllReadKeeps,
     PassMonthKeeps,
     MarkReadKeeps, DismissMessageKeeps DEF InboxNext
<1>2. CASE UNCHANGED inboxVars
  BY <1>2 DEF inboxVars, InboxInv, InboxTyped, ToldIsPast, MessagesDated, DeletedIsOld, DealtWith,
              InInbox, Key, Present, Source
<1> QED
  BY <1>1, <1>2

LEMMA InboxStarts == ASSUME InboxInit PROVE InboxInv
<1> USE NotificationsAssumption DEF InboxInit, InboxInv
<1>1. InboxTyped /\ ToldIsPast /\ MessagesDated /\ DealtWith
  BY DEF InboxTyped, Rows, ToldIsPast, MessagesDated, DealtWith
<1>2. DeletedIsOld
  BY DEF DeletedIsOld
<1> QED
  BY <1>1, <1>2

LEMMA InboxHolds == ASSUME InboxInv PROVE ToldOnce /\ RestingIsTold
<1>1. ToldOnce
  BY DEF InboxInv, ToldOnce, DealtWith, InInbox, Key
<1>2. RestingIsTold
  <2> SUFFICES ASSUME ToTell = {}, NEW i \in Items, work[i].status \in Announced,
                      work[i].at + MonthsKept >= month
               PROVE  Present(i) \in made.once
    BY DEF RestingIsTold, Present, Source
  <2>1. PICK m \in inbox : Key(m) = Present(i)
    BY DEF ToTell, Key, Present
  <2> QED
    BY <2>1 DEF InboxInv, MessagesDated
<1> QED
  BY <1>1, <1>2
\* A mail that is due is sent, and its row follows.
LEMMA MailAppended ==
  ASSUME MailTyped, ActiveIsLast, LastIsLatest, MailsAlternate, Spaced,
         NEW mail \in Mails, mails' = Append(mails, mail),
         mail.kind = "problem" <=> ~delivery.active,
         mail.kind = "problem" /\ delivery.known => mail.at >= delivery.last + Cooldown,
         delivery' \in [known : BOOLEAN, active : BOOLEAN, last : 0..MaxMinutes],
         (delivery'.active <=> Opens(mail)),
         delivery.known => delivery'.known /\ delivery.last <= delivery'.last,
         mail.kind = "problem" /\ mail.marked => delivery'.known /\ mail.at <= delivery'.last
  PROVE  mails' \in Seq(Mails) /\ ActiveIsLast' /\ LastIsLatest' /\ MailsAlternate' /\ Spaced'
<1> USE NotificationsAssumption
<1>0. mails \in Seq(Mails) /\ Len(mails) \in Nat
  BY DEF MailTyped
<1>1. /\ mails' \in Seq(Mails) /\ Len(mails') = Len(mails) + 1 /\ mails' # <<>>
      /\ mails'[Len(mails) + 1] = mail /\ mails \in Seq(Mails) /\ Len(mails) \in Nat
      /\ \A i \in 1..Len(mails) : mails'[i] = mails[i] /\ mails[i] \in Mails
  BY <1>0, AppendProperties
<1>2. ActiveIsLast'
  BY <1>1 DEF Opens, ActiveIsLast
<1>3. LastIsLatest'
  <2> SUFFICES ASSUME NEW i \in 1..Len(mails) + 1, mails'[i].kind = "problem", mails'[i].marked
               PROVE  delivery'.known /\ mails'[i].at <= delivery'.last
    BY <1>1 DEF LastIsLatest
  <2>1. CASE i = Len(mails) + 1
    BY <1>1, <2>1
  <2>2. CASE i \in 1..Len(mails)
    <3>1. delivery.known /\ mails[i].at <= delivery.last
      BY <1>1, <2>2 DEF LastIsLatest
    <3>2. mails[i].at \in Nat /\ delivery.last \in Nat /\ delivery'.last \in Nat
      BY <1>1, <2>2 DEF Mails, MailTyped
    <3> QED
      BY <1>1, <2>2, <3>1, <3>2
  <2> QED
    BY <1>1, <2>1, <2>2
<1>4. MailsAlternate'
  <2>1. \A i \in 1..Len(mails) : i # 1 => i - 1 \in 1..Len(mails)
    BY <1>1
  <2>2. ASSUME NEW i \in 1..Len(mails)
        PROVE  LET m == mails'[i] before == IF i = 1 THEN [kind |-> "silent", marked |-> TRUE] ELSE mails'[i - 1]
               IN IF m.kind = "problem" THEN before.kind \in {"recovery", "silent"} \/ ~before.marked
                  ELSE \/ before.kind = "problem" /\ before.marked
                       \/ before.kind = "recovery" /\ ~before.marked
    <3>1. mails'[i] = mails[i] /\ (i # 1 => mails'[i - 1] = mails[i - 1])
      BY <1>1, <2>1
    <3> QED
      BY <3>1 DEF MailsAlternate
  <2>3. CASE mails = <<>>
    <3>1. Len(mails) = 0 /\ ~delivery.active
      BY <2>3 DEF Opens, ActiveIsLast, MailTyped
    <3> QED
      BY <1>1, <3>1 DEF MailsAlternate
  <2>4. CASE mails # <<>>
    <3>1. Len(mails) \in 1..Len(mails) /\ Len(mails) + 1 # 1 /\ mails'[Len(mails)] = mails[Len(mails)]
      BY <1>1, <2>4
    <3>2. mails[Len(mails)].kind \in {"problem", "recovery", "silent"}
      BY <1>1, <3>1 DEF Mails
    <3>3. IF mail.kind = "problem"
          THEN mails[Len(mails)].kind \in {"recovery", "silent"} \/ ~mails[Len(mails)].marked
          ELSE \/ mails[Len(mails)].kind = "problem" /\ mails[Len(mails)].marked
               \/ mails[Len(mails)].kind = "recovery" /\ ~mails[Len(mails)].marked
      BY <2>4, <3>2 DEF Opens, ActiveIsLast
    <3>4. \A i \in 1..Len(mails') : i \in 1..Len(mails) \/ i = Len(mails) + 1
      BY <1>1
    <3> QED
      BY <1>1, <2>2, <3>1, <3>3, <3>4 DEF MailsAlternate
  <2> QED
    BY <2>3, <2>4
<1>5. Spaced'
  <2> SUFFICES ASSUME NEW i \in 1..Len(mails) + 1, NEW j \in 1..Len(mails) + 1, i < j,
                      mails'[i].kind = "problem", mails'[j].kind = "problem", mails'[i].marked
               PROVE  mails'[j].at >= mails'[i].at + Cooldown
    BY <1>1 DEF Spaced
  <2>1. i \in 1..Len(mails) /\ mails'[i] = mails[i] /\ mails[i].at \in Nat
    BY <1>1 DEF Mails
  <2>2. CASE j \in 1..Len(mails)
    <3>1. mails'[j] = mails[j]
      BY <1>1, <2>2
    <3>2. mails[i].kind = "problem" /\ mails[j].kind = "problem" /\ mails[i].marked
      BY <2>1, <3>1
    <3>3. mails[j].at >= mails[i].at + Cooldown
      BY <2>1, <2>2, <3>2 DEF Spaced
    <3>4. mails'[i].at = mails[i].at /\ mails'[j].at = mails[j].at
      BY <2>1, <3>1
    <3> QED
      BY <3>3, <3>4
  <2>3. CASE j = Len(mails) + 1
    <3>1. delivery.known /\ mails[i].at <= delivery.last /\ delivery.last \in Nat
      <4>1. mails[i].kind = "problem" /\ mails[i].marked
        BY <2>1
      <4>2. delivery.last \in Nat
        BY DEF MailTyped
      <4> QED
        BY <2>1, <4>1, <4>2 DEF LastIsLatest
    <3>2. mail.at \in Nat /\ mail.at >= delivery.last + Cooldown
      BY <1>1, <2>3, <3>1 DEF Mails
    <3>3. mails'[j] = mail
      BY <1>1, <2>3
    <3>4. mails[i].at \in Nat /\ mails'[i].at = mails[i].at /\ mails'[j].at = mail.at
      BY <2>1, <3>3
    <3>5. \A a, b, c, d \in Nat : a <= b /\ c >= b + d => c >= a + d
      OBVIOUS
    <3>6. Cooldown \in Nat
      OBVIOUS
    <3> QED
      BY <3>1, <3>2, <3>4, <3>5, <3>6
  <2> QED
    BY <1>1, <2>2, <2>3
<1> QED
  BY <1>1, <1>2, <1>3, <1>4, <1>5

LEMMA DeliveredKeeps == ASSUME MailInv, Delivered PROVE MailInv'
<1> USE NotificationsAssumption DEF MailInv
<1> DEFINE mail == [kind |-> sending.kind, at |-> sending.at, marked |-> TRUE]
<1>1. /\ sending # NotSending /\ sending \in Sendings /\ sending.at <= minute /\ sending' = NotSending
      /\ mails' = Append(mails, mail) /\ sending.at \in Nat /\ minute \in Nat
      /\ UNCHANGED <<scoreGate, waiting, mailOn, minute, excused, mailFaults>>
  BY DEF Delivered, MailTyped, Sendings
<1>2. /\ mail \in Mails /\ mail.kind = sending.kind /\ mail.at = sending.at /\ mail.marked
      /\ mail.kind \in {"problem", "recovery"}
  BY <1>1 DEF Mails, Sendings
<1>3. /\ delivery' \in [known : BOOLEAN, active : BOOLEAN, last : 0..MaxMinutes]
      /\ delivery'.active <=> sending.kind = "problem"
      /\ delivery.known => delivery'.known
      /\ sending.kind = "problem" => delivery'.known /\ delivery'.last = sending.at
      /\ sending.kind = "recovery" => delivery'.last = delivery.last /\ delivery'.known = delivery.known
  BY <1>1 DEF Delivered, MailTyped, Sendings
<1>4. /\ sending.kind = "problem" <=> ~delivery.active
      /\ sending.kind = "problem" /\ delivery.known => sending.at >= delivery.last + Cooldown
      /\ delivery.last \in Nat
  BY <1>1 DEF SendingIsDue, MailTyped
<1>5. delivery.known => delivery.last <= delivery'.last
  <2>1. CASE sending.kind = "problem"
    BY <1>1, <1>3, <1>4, <2>1
  <2>2. CASE sending.kind = "recovery"
    BY <1>3, <1>4, <2>2
  <2> QED
    BY <1>2, <2>1, <2>2
<1>5a. /\ (delivery'.active <=> Opens(mail))
       /\ delivery.known => delivery'.known /\ delivery.last <= delivery'.last
       /\ mail.kind = "problem" /\ mail.marked => delivery'.known /\ mail.at <= delivery'.last
  BY <1>1, <1>2, <1>3, <1>5 DEF Opens
<1> HIDE DEF mail
<1>6. mails' \in Seq(Mails) /\ ActiveIsLast' /\ LastIsLatest' /\ MailsAlternate' /\ Spaced'
  BY <1>1, <1>2, <1>3, <1>4, <1>5a, MailAppended
<1>7. delivery'.active => delivery'.known
  BY <1>1, <1>3, <1>2
<1>8. MailTyped' /\ SendingIsDue'
  BY <1>1, <1>3, <1>6, <1>7 DEF MailTyped, SendingIsDue
<1>9. TurnsAlternate'
  BY <1>1, <1>3 DEF TurnsAlternate, Before, Blocked
<1> QED
  BY <1>6, <1>8, <1>9

LEMMA NotDeliveredKeeps == ASSUME MailInv, NEW sent \in BOOLEAN, NotDelivered(sent) PROVE MailInv'
<1> USE NotificationsAssumption DEF MailInv
<1> DEFINE mail == [kind |-> sending.kind, at |-> sending.at, marked |-> FALSE]
<1>1. /\ sending # NotSending /\ sending \in Sendings /\ sending' = NotSending /\ excused' = TRUE
      /\ mails' = IF sent THEN Append(mails, mail) ELSE mails
      /\ UNCHANGED <<scoreGate, waiting, delivery, mailOn, minute>>
  BY DEF NotDelivered, MailTyped
<1>2. /\ mail \in Mails /\ mail.kind = sending.kind /\ mail.at = sending.at /\ mail.marked = FALSE
      /\ mail.kind \in {"problem", "recovery"}
  BY <1>1 DEF Mails, Sendings
<1>3. /\ sending.kind = "problem" <=> ~delivery.active
      /\ sending.kind = "problem" /\ delivery.known => sending.at >= delivery.last + Cooldown
      /\ delivery.last \in Nat
      /\ delivery' \in [known : BOOLEAN, active : BOOLEAN, last : 0..MaxMinutes]
  BY <1>1 DEF SendingIsDue, MailTyped
<1>4. /\ (delivery'.active <=> Opens(mail))
      /\ mail.kind = "problem" <=> ~delivery.active
      /\ mail.kind = "problem" /\ delivery.known => mail.at >= delivery.last + Cooldown
      /\ ~(mail.kind = "problem" /\ mail.marked)
      /\ delivery.known => delivery'.known /\ delivery.last <= delivery'.last
  BY <1>1, <1>2, <1>3 DEF MailTyped, Opens
<1> HIDE DEF mail
<1>5. mails' \in Seq(Mails) /\ ActiveIsLast' /\ LastIsLatest' /\ MailsAlternate' /\ Spaced'
  <2>1. CASE sent
    BY <1>1, <1>2, <1>3, <1>4, <2>1, MailAppended
  <2>2. CASE ~sent
    BY <1>1, <2>2 DEF MailTyped, ActiveIsLast, LastIsLatest, MailsAlternate, Spaced
  <2> QED
    BY <2>1, <2>2
<1>6. MailTyped' /\ SendingIsDue' /\ TurnsAlternate'
  BY <1>1, <1>5 DEF MailTyped, SendingIsDue, TurnsAlternate
<1> QED
  BY <1>5, <1>6

LEMMA TurnGateKeeps == ASSUME MailInv, TurnGate PROVE MailInv'
<1> USE NotificationsAssumption DEF MailInv
<1> DEFINE turn == [resolved |-> scoreGate = "blocked", on |-> mailOn]
<1>1. /\ waiting \in Seq(Turns) /\ Len(waiting) \in Nat /\ turn \in Turns /\ waiting' = Append(waiting, turn)
      /\ turn.resolved = (scoreGate = "blocked") /\ turn.on = mailOn
      /\ scoreGate \in {"allowed", "blocked"}
      /\ scoreGate' = IF scoreGate = "allowed" THEN "blocked" ELSE "allowed"
      /\ excused' = (excused \/ ~mailOn)
      /\ UNCHANGED <<sending, delivery, mailOn, minute, mails, mailFaults>>
  BY DEF TurnGate, MailTyped, Turns
<1> HIDE DEF turn
<1>a. PICK len \in Nat : len = Len(waiting)
  BY <1>1
<1>2. /\ waiting' \in Seq(Turns) /\ Len(waiting') = Len(waiting) + 1 /\ waiting'[Len(waiting) + 1] = turn
      /\ \A k \in 1..Len(waiting) : waiting'[k] = waiting[k]
  BY <1>1
<1>3. excused' \in BOOLEAN /\ scoreGate' \in {"allowed", "blocked"}
  BY <1>1 DEF MailTyped
<1>4. MailTyped'
  BY <1>1, <1>2, <1>3 DEF MailTyped
<1>5. ActiveIsLast' /\ SendingIsDue' /\ LastIsLatest' /\ MailsAlternate' /\ Spaced'
  BY <1>1 DEF Opens, ActiveIsLast, SendingIsDue, LastIsLatest, MailsAlternate, Spaced
<1>6. TurnsAlternate'
  <2> SUFFICES ASSUME ~excused, ~excused', mailOn
               PROVE  /\ \A k \in 1..len + 1 : waiting'[k].on /\ waiting'[k].resolved = Before(k)'
                      /\ (scoreGate' = "blocked") = Before(len + 2)'
    <3>1. Len(waiting') + 1 = len + 2
      BY <1>a, <1>2
    <3>2. TurnsAlternate' = (~excused' =>
            /\ \A k \in 1..Len(waiting') : waiting'[k].on /\ waiting'[k].resolved = Before(k)'
            /\ (scoreGate' = "blocked") = Before(len + 2)')
      BY <3>1 DEF TurnsAlternate
    <3> QED
      BY <1>a, <1>1, <1>2, <3>2
  <2>1. \A k \in 1..len + 1 : Before(k)' = Before(k)
    <3> SUFFICES ASSUME NEW k \in 1..len + 1 PROVE Before(k)' = Before(k)
      OBVIOUS
    <3>1. Blocked' = Blocked
      BY <1>1 DEF Blocked
    <3>2. k # 1 => k - 1 \in 1..len /\ waiting'[k - 1] = waiting[k - 1]
      BY <1>a, <1>1, <1>2
    <3> QED
      BY <3>1, <3>2 DEF Before
  <2>2. /\ \A k \in 1..len : waiting[k].on /\ waiting[k].resolved = Before(k)
        /\ (scoreGate = "blocked") = Before(len + 1)
    BY <1>a DEF TurnsAlternate
  <2>3. Before(len + 2)' = ~turn.resolved
    <3>1. len + 2 # 1 /\ len + 2 - 1 = len + 1
      BY <1>1
    <3> QED
      BY <1>a, <1>2, <3>1 DEF Before
  <2>4. (scoreGate' = "blocked") = ~turn.resolved
    BY <1>1
  <2>5. turn.on /\ turn.resolved = Before(len + 1)
    BY <1>1, <2>2
  <2>6. \A k \in 1..len + 1 : k \in 1..len \/ k = len + 1
    BY <1>1
  <2> QED
    BY <1>a, <1>2, <2>1, <2>2, <2>3, <2>4, <2>5, <2>6
<1> QED
  BY <1>4, <1>5, <1>6

\* The first of those that wait is gone.
LEMMA FirstTaken ==
  ASSUME NEW seq \in Seq(Turns), NEW k \in 1..Len(seq)
  PROVE  /\ RemoveAt(seq, k) \in Seq(Turns)
         /\ k = 1 => /\ Len(RemoveAt(seq, k)) = Len(seq) - 1
                     /\ \A j \in 1..Len(seq) - 1 : RemoveAt(seq, k)[j] = seq[j + 1]
<1>1. Len(seq) \in Nat
  OBVIOUS
<1>2. /\ SubSeq(seq, 1, k - 1) \in Seq(Turns) /\ Len(SubSeq(seq, 1, k - 1)) = k - 1
  BY <1>1
<1>3. /\ SubSeq(seq, k + 1, Len(seq)) \in Seq(Turns) /\ Len(SubSeq(seq, k + 1, Len(seq))) = Len(seq) - k
      /\ \A j \in 1..Len(seq) - k : SubSeq(seq, k + 1, Len(seq))[j] = seq[k + j]
  BY <1>1
<1>4. RemoveAt(seq, k) \in Seq(Turns)
  BY <1>2, <1>3 DEF RemoveAt
<1>5. ASSUME k = 1 PROVE RemoveAt(seq, k) = SubSeq(seq, 2, Len(seq))
  <2>1. SubSeq(seq, 1, 0) = <<>>
    OBVIOUS
  <2> QED
    BY <1>3, <1>5, <2>1 DEF RemoveAt
<1> QED
  BY <1>1, <1>3, <1>4, <1>5

LEMMA TakeTurnKeeps == ASSUME MailInv, NEW k \in 1..Len(waiting), TakeTurn(k) PROVE MailInv'
<1> USE NotificationsAssumption DEF MailInv
<1> DEFINE n == waiting[k]
<1>0. PICK len \in Nat : len = Len(waiting)
  BY DEF MailTyped
<1>1. /\ waiting \in Seq(Turns) /\ n \in Turns /\ sending = NotSending
      /\ waiting' = RemoveAt(waiting, k) /\ waiting' \in Seq(Turns)
      /\ UNCHANGED <<scoreGate, mailOn, minute, mailFaults>>
      /\ excused \in BOOLEAN /\ n.resolved \in BOOLEAN /\ n.on \in BOOLEAN
  <2>1. waiting \in Seq(Turns) /\ excused \in BOOLEAN
    BY DEF MailTyped
  <2>2. n \in Turns
    BY <2>1
  <2>3. RemoveAt(waiting, k) \in Seq(Turns)
    BY <2>1, FirstTaken
  <2> QED
    BY <2>1, <2>2, <2>3 DEF TakeTurn, Turns
<1>2. \/ /\ (ToClose(n) /\ n.on) \/ ToSend(n)
         /\ sending' = [kind |-> IF n.resolved THEN "recovery" ELSE "problem", at |-> minute]
         /\ UNCHANGED <<delivery, mails>>
         /\ excused' = (excused \/ k > 1)
      \/ /\ ToClose(n) /\ ~n.on
         /\ delivery' = [delivery EXCEPT !.active = FALSE]
         /\ mails' = Append(mails, [kind |-> "silent", at |-> minute, marked |-> TRUE])
         /\ UNCHANGED sending
         /\ excused' = (excused \/ k > 1)
      \/ /\ ~ToClose(n) /\ ~ToSend(n)
         /\ UNCHANGED <<sending, delivery, mails>>
         /\ excused' = (excused \/ k > 1 \/ (~n.resolved /\ ~delivery.active))
  BY DEF TakeTurn
<1>3. ASSUME ~excused'
      PROVE  /\ ~excused /\ k = 1 /\ n.on /\ n.resolved = delivery.active
             /\ Len(waiting') = len - 1
             /\ \A j \in 1..len - 1 : waiting'[j] = waiting[j + 1]
             /\ \A j \in 1..len : waiting[j].on /\ waiting[j].resolved = Before(j)
             /\ (scoreGate = "blocked") = Before(len + 1)
  <2>1. ~excused /\ k = 1
    <3>1. ~(excused \/ k > 1)
      BY <1>2, <1>3
    <3> QED
      BY <1>0, <3>1
  <2>2. /\ \A j \in 1..len : waiting[j].on /\ waiting[j].resolved = Before(j)
        /\ (scoreGate = "blocked") = Before(len + 1)
    BY <1>0, <2>1 DEF TurnsAlternate
  <2>3. n.on /\ n.resolved = Before(1)
    BY <1>0, <2>1, <2>2
  <2>4. Before(1) = delivery.active
    BY <1>1 DEF Before, Blocked
  <2> QED
    BY <1>0, <1>1, <2>1, <2>2, <2>3, <2>4, FirstTaken
<1> HIDE DEF n
<1>4. ASSUME ~excused', Blocked' = ~n.resolved PROVE TurnsAlternate'
  <2>1. ASSUME NEW j \in 1..len PROVE Before(j)' = Before(j + 1)
    <3>1. CASE j = 1
      BY <1>3, <1>4, <3>1 DEF Before, n
    <3>2. CASE j # 1
      <4>1. j - 1 \in 1..len - 1 /\ j + 1 # 1 /\ j - 1 + 1 = j /\ j + 1 - 1 = j
        BY <1>0, <3>2
      <4>2. waiting'[j - 1] = waiting[j] /\ waiting[j + 1 - 1] = waiting[j]
        BY <1>3, <1>4, <4>1
      <4>3. Before(j + 1) = ~waiting[j + 1 - 1].resolved
        BY <4>1 DEF Before
      <4>4. Before(j)' = ~waiting'[j - 1].resolved
        BY <3>2 DEF Before
      <4> QED
        BY <4>2, <4>3, <4>4
    <3> QED
      BY <3>1, <3>2
  <2>2. ASSUME NEW j \in 1..len - 1 PROVE waiting'[j].on /\ waiting'[j].resolved = Before(j)'
    <3>1. j \in 1..len /\ j + 1 \in 1..len
      BY <1>1
    <3> QED
      BY <1>3, <1>4, <2>1, <3>1
  <2>3. len \in 1..len /\ Len(waiting') = len - 1 /\ len - 1 + 1 = len
    BY <1>0, <1>3, <1>4
  <2>4. Before(len)' = Before(len + 1)
    BY <2>1, <2>3
  <2>5. (scoreGate' = "blocked") = Before(len)'
    BY <1>1, <1>3, <1>4, <2>4
  <2> QED
    BY <2>2, <2>3, <2>5 DEF TurnsAlternate
<1>5. CASE /\ (ToClose(n) /\ n.on) \/ ToSend(n)
           /\ sending' = [kind |-> IF n.resolved THEN "recovery" ELSE "problem", at |-> minute]
           /\ UNCHANGED <<delivery, mails>>
           /\ excused' = (excused \/ k > 1)
  <2>1. /\ sending' \in Sendings /\ sending' # NotSending /\ sending'.at = minute
        /\ sending'.kind = IF n.resolved THEN "recovery" ELSE "problem"
    BY <1>5 DEF Sendings, MailTyped, NotSending
  <2>2. n.resolved = delivery.active /\ (~n.resolved /\ delivery.known => minute >= delivery.last + Cooldown)
    BY <1>1, <1>5 DEF ToClose, ToSend, MailTyped
  <2>3. excused' \in BOOLEAN
    BY <1>1, <1>5
  <2>4. MailTyped'
    BY <1>1, <1>5, <2>1, <2>3 DEF MailTyped
  <2>5. SendingIsDue'
    BY <1>1, <1>5, <2>1, <2>2 DEF SendingIsDue
  <2>6. ActiveIsLast' /\ LastIsLatest' /\ MailsAlternate' /\ Spaced'
    BY <1>5 DEF Opens, ActiveIsLast, LastIsLatest, MailsAlternate, Spaced
  <2>7. Blocked' = ~n.resolved
    BY <1>1, <2>1 DEF Blocked
  <2>8. TurnsAlternate'
    BY <1>4, <2>7 DEF TurnsAlternate
  <2> QED
    BY <2>4, <2>5, <2>6, <2>8
<1>6. CASE /\ ToClose(n) /\ ~n.on
           /\ delivery' = [delivery EXCEPT !.active = FALSE]
           /\ mails' = Append(mails, [kind |-> "silent", at |-> minute, marked |-> TRUE])
           /\ UNCHANGED sending
           /\ excused' = (excused \/ k > 1)
  <2> DEFINE mail == [kind |-> "silent", at |-> minute, marked |-> TRUE]
  <2>1. mail \in Mails /\ mail.kind = "silent" /\ mails' = Append(mails, mail)
    BY <1>6 DEF Mails, MailTyped
  <2>2. /\ delivery'.known = delivery.known /\ delivery'.last = delivery.last /\ delivery.last \in Nat
        /\ delivery'.active = FALSE
    BY <1>6 DEF MailTyped
  <2>2c. delivery.active
    BY <1>6 DEF ToClose
  <2>2a. delivery' \in [known : BOOLEAN, active : BOOLEAN, last : 0..MaxMinutes]
    BY <1>6 DEF MailTyped
  <2> HIDE DEF mail
  <2>2b. /\ mail.kind = "problem" <=> ~delivery.active
         /\ (delivery'.active <=> Opens(mail))
         /\ ~(mail.kind = "problem")
         /\ delivery.known => delivery'.known /\ delivery.last <= delivery'.last
    BY <2>1, <2>2, <2>2a, <2>2c DEF MailTyped, Opens
  <2>3. mails' \in Seq(Mails) /\ ActiveIsLast' /\ LastIsLatest' /\ MailsAlternate' /\ Spaced'
    BY <2>1, <2>2a, <2>2b, MailAppended
  <2>4. excused' \in BOOLEAN
    BY <1>1, <1>6
  <2>5. MailTyped'
    BY <1>1, <1>6, <2>2, <2>2a, <2>3, <2>4 DEF MailTyped
  <2>6. SendingIsDue' /\ excused'
    BY <1>1, <1>3, <1>6 DEF SendingIsDue
  <2> QED
    BY <2>3, <2>5, <2>6 DEF TurnsAlternate
<1>7. CASE /\ ~ToClose(n) /\ ~ToSend(n)
           /\ UNCHANGED <<sending, delivery, mails>>
           /\ excused' = (excused \/ k > 1 \/ (~n.resolved /\ ~delivery.active))
  <2>1. excused' \in BOOLEAN
    BY <1>1, <1>7
  <2>2. MailTyped'
    BY <1>1, <1>7, <2>1 DEF MailTyped
  <2>3. ActiveIsLast' /\ SendingIsDue' /\ LastIsLatest' /\ MailsAlternate' /\ Spaced'
    BY <1>7 DEF Opens, ActiveIsLast, SendingIsDue, LastIsLatest, MailsAlternate, Spaced
  <2>4. excused'
    <3> SUFFICES ASSUME ~excused' PROVE FALSE
      OBVIOUS
    <3>1. n.resolved = delivery.active /\ (n.resolved \/ delivery.active)
      BY <1>3, <1>7 DEF n
    <3> QED
      BY <1>7, <3>1 DEF ToClose, MailTyped
  <2> QED
    BY <2>2, <2>3, <2>4 DEF TurnsAlternate
<1> QED
  BY <1>2, <1>5, <1>6, <1>7

LEMMA KillHandlersKeeps == ASSUME MailInv, KillHandlers PROVE MailInv'
<1> USE NotificationsAssumption DEF MailInv, KillHandlers
<1>1. MailTyped' /\ SendingIsDue' /\ TurnsAlternate'
  BY DEF MailTyped, SendingIsDue, TurnsAlternate
<1>2. ActiveIsLast' /\ LastIsLatest' /\ MailsAlternate' /\ Spaced'
  BY DEF Opens, ActiveIsLast, LastIsLatest, MailsAlternate, Spaced
<1> QED
  BY <1>1, <1>2

\* The clock and the settings do not touch what is sent.
LEMMA MailAround ==
  ASSUME MailInv, UNCHANGED <<scoreGate, waiting, sending, delivery, mails, excused, mailFaults>>,
         mailOn' \in BOOLEAN, minute' \in 0..MaxMinutes, minute <= minute'
  PROVE  MailInv'
<1> USE NotificationsAssumption DEF MailInv
<1>1. MailTyped'
  BY DEF MailTyped, Sendings
<1>2. ActiveIsLast' /\ SendingIsDue' /\ LastIsLatest' /\ TurnsAlternate' /\ MailsAlternate' /\ Spaced'
  BY DEF Opens, ActiveIsLast, SendingIsDue, LastIsLatest, TurnsAlternate, Before, Blocked,
     MailsAlternate, Spaced
<1> QED
  BY <1>1, <1>2

LEMMA MailStepKeeps == ASSUME MailInv, [MailNext]_mailVars PROVE MailInv'
<1>1. ASSUME SelectCategory PROVE MailInv'
  <2>1. mailOn' \in BOOLEAN /\ minute \in Nat
    BY <1>1, NotificationsAssumption DEF SelectCategory, MailInv, MailTyped
  <2> QED
    BY <1>1, <2>1, MailAround DEF SelectCategory, MailInv, MailTyped
<1>2. ASSUME PassMinute PROVE MailInv'
  BY <1>2, MailAround, NotificationsAssumption DEF PassMinute, MailInv, MailTyped
<1>3. ASSUME UNCHANGED mailVars PROVE MailInv'
  BY <1>3, MailAround, NotificationsAssumption DEF mailVars, MailInv, MailTyped
<1> QED
  BY <1>1, <1>2, <1>3, TurnGateKeeps, DeliveredKeeps, KillHandlersKeeps, TakeTurnKeeps,
     NotDeliveredKeeps
     DEF MailNext

LEMMA MailStarts == ASSUME MailInit PROVE MailInv
<1> USE NotificationsAssumption DEF MailInit, MailInv
<1>1. Len(mails) = 0 /\ Len(waiting) = 0 /\ mails \in Seq(Mails) /\ waiting \in Seq(Turns)
  OBVIOUS
<1>2. delivery \in [known : BOOLEAN, active : BOOLEAN, last : 0..MaxMinutes] /\ minute \in 0..MaxMinutes
  OBVIOUS
<1>2a. MailTyped
  BY <1>1, <1>2 DEF MailTyped
<1>3. SendingIsDue /\ LastIsLatest /\ MailsAlternate /\ Spaced
  BY <1>1 DEF SendingIsDue, LastIsLatest, MailsAlternate, Spaced
<1>4. ActiveIsLast
  BY DEF Opens, ActiveIsLast
<1>5. TurnsAlternate
  <2>1. Len(waiting) + 1 = 1 /\ (scoreGate = "blocked") = FALSE
    BY <1>1
  <2>2. Before(Len(waiting) + 1) = FALSE
    BY <2>1 DEF Before, Blocked
  <2>3. ~\E k \in 1..Len(waiting) : TRUE
    BY <1>1
  <2> QED
    BY <2>1, <2>2, <2>3 DEF TurnsAlternate
<1> QED
  BY <1>2a, <1>3, <1>4, <1>5

LEMMA MailHolds == ASSUME MailInv PROVE MailsFollowGate
BY DEF MailInv, MailTyped, TurnsAlternate, Before, Blocked, MailsFollowGate

\* Messages and mails: no message is made twice and none is deleted that nobody
\* has attended; what came to rest is told; a problem is mailed once until it is
\* over, spaced by the cooldown, and without a fault the mails follow the gate.
THEOREM ToldOnceAndInOrder ==
  InboxInit /\ MailInit /\ [][InboxNext]_inboxVars /\ [][MailNext]_mailVars => []NotificationsHold
<1>1. InboxInv /\ MailInv => NotificationsHold
  BY InboxHolds, MailHolds DEF InboxInv, InboxTyped, Rows, Messages, MailInv, MailTyped,
     NotificationsHold, NotificationsTypeOK
<1> QED
  BY <1>1, InboxStarts, InboxStepKeeps, MailStarts, MailStepKeeps, PTL

-------------------------------------------------------------------------------
(* Terminals *)

WireMessages == [kind : {"start", "close", "input", "ready", "output", "exit"}, id : Terminals]
WireStates == [node : Consoles \union {"none"}, edge : BOOLEAN, handler : {"none", "runs", "ended"},
               broken : BOOLEAN, down : Seq(WireMessages), up : Seq(WireMessages)]

AuditRows == [node : Consoles \union {"none"}, status : {"none", "pending", "running", "closed"}]
Lives == [at : {"none", "run", "close", "record", "remove", "gone"}, node : Consoles \union {"none"},
          peer : Wires \union {0}, browser : {"no", "waiting", "attached"}, stop : BOOLEAN,
          started : BOOLEAN]
Shells == [at : {"none", "starting", "open", "leaving"}, id : Terminals \union {"none"}]

TerminalsTyped ==
  /\ audit \in [Terminals -> AuditRows] /\ live \in [Terminals -> Lives]
  /\ hubClosed \in BOOLEAN /\ peers \in [Consoles -> Wires \union {0}]
  /\ wires \in [Wires -> WireStates] /\ shell \in [Consoles -> Shells]
  /\ cutShort \subseteq Terminals /\ unrecorded \subseteq Terminals /\ refused = FALSE

\* A session is on a connection of its node that was accepted.
SessionsPlaced ==
  /\ \A s \in Terminals : live[s].at = "none" => live[s].browser = "no"
  /\ \A s \in Terminals : InHub(s) =>
       /\ live[s].node \in Consoles /\ live[s].peer \in Wires
       /\ wires[live[s].peer].node = live[s].node /\ wires[live[s].peer].handler # "none"
  /\ \A s, t \in Terminals : InHub(s) /\ InHub(t) /\ live[s].node = live[t].node => s = t

PeersPlaced ==
  /\ PeersKnown
  /\ \A n \in Consoles : peers[n] # 0 => wires[peers[n]].handler = "runs" /\ wires[peers[n]].node = n
  /\ \A k \in Wires : wires[k].handler # "none" => wires[k].node # "none"

\* An agent has one connection, and a shell only with it.
EdgesPlaced ==
  /\ \A n \in Consoles, j, k \in Wires : OnEdge(n, j) /\ OnEdge(n, k) => j = k
  /\ \A n \in Consoles : shell[n].at # "none" =>
       shell[n].id \in Terminals /\ \E k \in Wires : OnEdge(n, k)

Sent(k, i, kind, s) == wires[k].down[i] = Message(kind, s)

\* Who is started has a browser.
StartsAttached ==
  /\ \A k \in Wires, s \in Terminals : \A i \in 1..Len(wires[k].down) :
       Sent(k, i, "start", s) => live[s].browser = "attached"
  /\ \A n \in Consoles : shell[n].at # "none" => live[shell[n].id].browser = "attached"

SessionOn(k, s) == live[s].at \in {"run", "close"} /\ live[s].peer = k

\* A start is followed by a close, or its session will send one.
StartsClosed ==
  \A k \in Wires, s \in Terminals : \A i \in 1..Len(wires[k].down) :
    Sent(k, i, "start", s) =>
      \/ wires[k].broken \/ SessionOn(k, s)
      \/ \E j \in 1..Len(wires[k].down) : i < j /\ Sent(k, j, "close", s)

\* Between two starts the first session is closed.
StartsOrdered ==
  \A k \in Wires, s, t \in Terminals : \A i, j \in 1..Len(wires[k].down) :
    i < j /\ Sent(k, i, "start", s) /\ Sent(k, j, "start", t) =>
      \E l \in 1..Len(wires[k].down) : i < l /\ l < j /\ Sent(k, l, "close", s)

\* The shell that runs is closed before the next one is started.
ShellClosedFirst ==
  \A n \in Consoles, k \in Wires, t \in Terminals : \A i \in 1..Len(wires[k].down) :
    OnEdge(n, k) /\ shell[n].at # "none" /\ Sent(k, i, "start", t) =>
      \E j \in 1..Len(wires[k].down) : j < i /\ Sent(k, j, "close", shell[n].id)

\* Whatever it does, a shell has a session, or its end is under way.
ShellsFollow ==
  \A n \in Consoles, k \in Wires :
    OnEdge(n, k) /\ shell[n].at # "none" =>
      \/ wires[k].broken \/ SessionOn(k, shell[n].id)
      \/ \E i \in 1..Len(wires[k].down) : Sent(k, i, "close", shell[n].id)

TerminalInv ==
  /\ TerminalsTyped /\ RowsFollowSessions /\ SessionsPlaced /\ PeersPlaced /\ EdgesPlaced
  /\ StartsAttached /\ StartsClosed /\ StartsOrdered /\ ShellClosedFirst /\ ShellsFollow
LEMMA MessagesDiffer ==
  ASSUME NEW s, NEW t, NEW kind, NEW other, Message(kind, s) = Message(other, t)
  PROVE  kind = other /\ s = t
<1>1. Message(kind, s).kind = Message(other, t).kind /\ Message(kind, s).id = Message(other, t).id
  OBVIOUS
<1> QED
  BY <1>1 DEF Message

QueuesInv ==
  /\ EdgesPlaced /\ StartsAttached /\ StartsClosed /\ StartsOrdered /\ ShellClosedFirst /\ ShellsFollow

\* Nothing is sent to an agent and none reads: sessions go on or break with their
\* connections, and shells end.
LEMMA QueuesKept ==
  ASSUME TerminalInv,
         \A k \in Wires : /\ wires'[k].down = wires[k].down /\ wires'[k].node = wires[k].node
                          /\ wires'[k].edge => wires[k].edge
                          /\ wires[k].broken => wires'[k].broken,
         \A n \in Consoles : shell'[n].at # "none" =>
           /\ shell[n].at # "none" /\ shell'[n].id = shell[n].id
           /\ \A k \in Wires : OnEdge(n, k) => wires'[k].edge,
         \A s \in Terminals : live[s].browser = "attached" => live'[s].browser = "attached",
         \A s \in Terminals, k \in Wires : SessionOn(k, s) => SessionOn(k, s)' \/ wires'[k].broken
  PROVE  QueuesInv'
<1>1. EdgesPlaced'
  BY DEF EdgesPlaced, OnEdge, TerminalInv
<1>2. \A k \in Wires : \A i, kind, s : Sent(k, i, kind, s)' <=> Sent(k, i, kind, s)
  BY DEF Sent, Message
<1>3. \A n \in Consoles, k \in Wires : OnEdge(n, k)' => OnEdge(n, k)
  BY DEF OnEdge
<1>4. StartsAttached'
  <2>1. ASSUME NEW k \in Wires, NEW s \in Terminals, NEW i \in 1..Len(wires[k].down), Sent(k, i, "start", s)'
        PROVE  live'[s].browser = "attached"
    BY <1>2, <2>1 DEF StartsAttached, TerminalInv
  <2>2. \A n \in Consoles : shell'[n].at # "none" => live'[shell'[n].id].browser = "attached"
    BY DEF StartsAttached, TerminalInv, EdgesPlaced
  <2> QED
    BY <2>1, <2>2 DEF StartsAttached
<1>5. StartsClosed'
  <2> SUFFICES ASSUME NEW k \in Wires, NEW s \in Terminals, NEW i \in 1..Len(wires[k].down),
                      Sent(k, i, "start", s)
               PROVE  \/ wires'[k].broken \/ SessionOn(k, s)'
                      \/ \E j \in 1..Len(wires[k].down) : i < j /\ Sent(k, j, "close", s)
    BY <1>2 DEF StartsClosed
  <2> QED
    BY DEF StartsClosed, TerminalInv
<1>6. StartsOrdered'
  <2> SUFFICES ASSUME NEW k \in Wires, NEW s \in Terminals, NEW t \in Terminals,
                      NEW i \in 1..Len(wires[k].down), NEW j \in 1..Len(wires[k].down),
                      i < j, Sent(k, i, "start", s), Sent(k, j, "start", t)
               PROVE  \E l \in 1..Len(wires[k].down) : i < l /\ l < j /\ Sent(k, l, "close", s)
    BY <1>2 DEF StartsOrdered
  <2> QED
    BY DEF StartsOrdered, TerminalInv
<1>7. ShellClosedFirst'
  <2> SUFFICES ASSUME NEW n \in Consoles, NEW k \in Wires, NEW t \in Terminals,
                      NEW i \in 1..Len(wires[k].down), OnEdge(n, k)', shell'[n].at # "none",
                      Sent(k, i, "start", t)
               PROVE  \E j \in 1..Len(wires[k].down) : j < i /\ Sent(k, j, "close", shell'[n].id)
    BY <1>2 DEF ShellClosedFirst
  <2> QED
    BY <1>3 DEF ShellClosedFirst, TerminalInv
<1>8. ShellsFollow'
  <2> SUFFICES ASSUME NEW n \in Consoles, NEW k \in Wires, OnEdge(n, k)', shell'[n].at # "none"
               PROVE  \/ wires'[k].broken
                      \/ live'[shell'[n].id].at \in {"run", "close"} /\ live'[shell'[n].id].peer = k
                      \/ \E i \in 1..Len(wires[k].down) : Sent(k, i, "close", shell'[n].id)
    BY <1>2 DEF ShellsFollow, SessionOn
  <2>1. /\ OnEdge(n, k) /\ shell[n].at # "none" /\ shell'[n].id = shell[n].id /\ shell[n].id \in Terminals
    BY <1>3 DEF EdgesPlaced, TerminalInv
  <2>2. \/ wires[k].broken \/ SessionOn(k, shell[n].id)
        \/ \E i \in 1..Len(wires[k].down) : Sent(k, i, "close", shell[n].id)
    BY <2>1 DEF ShellsFollow, TerminalInv
  <2>3. PICK s \in Terminals : s = shell[n].id
    BY <2>1
  <2>4. SessionOn(k, s) => SessionOn(k, s)' \/ wires'[k].broken
    OBVIOUS
  <2> QED
    BY <2>1, <2>2, <2>3, <2>4 DEF SessionOn
<1> QED
  BY <1>1, <1>4, <1>5, <1>6, <1>7, <1>8 DEF QueuesInv

\* A message is put at the end of what is under way to an agent.
LEMMA Appended ==
  ASSUME NEW k \in Wires, NEW kind \in {"start", "close", "input"}, NEW s \in Terminals,
         wires \in [Wires -> WireStates], ~wires[k].broken,
         wires' = [wires EXCEPT ![k].down = Append(@, Message(kind, s))]
  PROVE  /\ wires' \in [Wires -> WireStates] /\ Len(wires[k].down) \in Nat
         /\ Len(wires'[k].down) = Len(wires[k].down) + 1
         /\ \A j \in Wires : /\ j # k => wires'[j] = wires[j]
                            /\ wires'[j].node = wires[j].node /\ wires'[j].edge = wires[j].edge
                            /\ wires'[j].handler = wires[j].handler /\ wires'[j].broken = wires[j].broken
         /\ \A i \in 1..Len(wires[k].down) : wires'[k].down[i] = wires[k].down[i]
         /\ wires'[k].down[Len(wires[k].down) + 1] = Message(kind, s)
<1>1. wires[k].down \in Seq(WireMessages) /\ Message(kind, s) \in WireMessages
  BY DEF WireStates, WireMessages, Message
<1> DEFINE queue == Append(wires[k].down, Message(kind, s))
<1>2. /\ queue \in Seq(WireMessages) /\ Len(wires[k].down) \in Nat /\ Len(queue) = Len(wires[k].down) + 1
      /\ \A i \in 1..Len(wires[k].down) : queue[i] = wires[k].down[i]
      /\ queue[Len(wires[k].down) + 1] = Message(kind, s)
  BY <1>1, AppendProperties
<1>3. wires' = [wires EXCEPT ![k].down = queue]
  OBVIOUS
<1> HIDE DEF queue
<1>4. \A j \in Wires : wires'[j] = IF j = k THEN [wires[k] EXCEPT !.down = queue] ELSE wires[j]
  BY <1>3
<1>5. wires' \in [Wires -> WireStates]
  <2>1. [wires[k] EXCEPT !.down = queue] \in WireStates
    BY <1>2 DEF WireStates
  <2> QED
    BY <1>3, <2>1
<1>6. wires'[k].down = queue
  BY <1>4 DEF WireStates
<1>7. \A j \in Wires : /\ j # k => wires'[j] = wires[j]
                       /\ wires'[j].node = wires[j].node /\ wires'[j].edge = wires[j].edge
                       /\ wires'[j].handler = wires[j].handler /\ wires'[j].broken = wires[j].broken
  BY <1>4 DEF WireStates
<1> QED
  BY <1>2, <1>5, <1>6, <1>7

\* A session tells its agent to start or to close, or sends it keys.
LEMMA SendingKeepsQueues ==
  ASSUME TerminalInv, NEW k \in Wires, NEW kind \in {"start", "close", "input"}, NEW s \in Terminals,
         ~wires[k].broken, UNCHANGED shell,
         wires' = [wires EXCEPT ![k].down = Append(@, Message(kind, s))],
         \A t \in Terminals : live[t].browser = "attached" => live'[t].browser = "attached",
         \A t \in Terminals, j \in Wires :
           SessionOn(j, t) => SessionOn(j, t)' \/ (kind = "close" /\ t = s /\ j = k),
         kind = "start" => /\ SessionOn(k, s) /\ SessionOn(k, s)'
                           /\ live[s].browser # "attached" /\ live'[s].browser = "attached"
  PROVE  QueuesInv'
<1> USE DEF TerminalInv
<1>0. wires \in [Wires -> WireStates]
  BY DEF TerminalsTyped
<1>a. PICK len \in Nat : len = Len(wires[k].down)
  BY <1>0, Appended
<1>1. /\ Len(wires'[k].down) = len + 1 /\ wires'[k].down[len + 1] = Message(kind, s)
      /\ \A i \in 1..len : wires'[k].down[i] = wires[k].down[i]
      /\ \A j \in Wires : /\ j # k => wires'[j] = wires[j]
                         /\ wires'[j].node = wires[j].node /\ wires'[j].edge = wires[j].edge
                         /\ wires'[j].handler = wires[j].handler /\ wires'[j].broken = wires[j].broken
  BY <1>0, <1>a, Appended
<1>2. \A n \in Consoles, j \in Wires : OnEdge(n, j)' <=> OnEdge(n, j)
  BY <1>1 DEF OnEdge
<1>3. EdgesPlaced'
  BY <1>2 DEF EdgesPlaced
<1>4. \A j \in Wires : \A i, other, t :
        i \in 1..Len(wires[j].down) => (Sent(j, i, other, t)' <=> Sent(j, i, other, t))
  BY <1>a, <1>1 DEF Sent, Message
<1>5. \A other, t : Sent(k, len + 1, other, t)' <=> other = kind /\ t = s
  BY <1>1, MessagesDiffer DEF Sent
<1>6. \A j \in Wires : \A i : i \in 1..Len(wires'[j].down) <=> i \in 1..Len(wires[j].down) \/ (j = k /\ i = len + 1)
  BY <1>a, <1>1
<1>7. \A t \in Terminals : SessionOn(k, t) /\ SessionOn(k, s) => t = s
  BY DEF SessionsPlaced, SessionOn, InHub
<1> HIDE DEF Sent, OnEdge, SessionOn
<1>8. StartsAttached'
  <2>1. ASSUME NEW j \in Wires, NEW t \in Terminals, NEW i \in 1..Len(wires'[j].down), Sent(j, i, "start", t)'
        PROVE  live'[t].browser = "attached"
    <3>1. CASE i \in 1..Len(wires[j].down)
      BY <1>4, <2>1, <3>1 DEF StartsAttached
    <3>2. CASE j = k /\ i = len + 1
      BY <1>5, <2>1, <3>2
    <3> QED
      BY <1>6, <3>1, <3>2
  <2>2. \A n \in Consoles : shell[n].at # "none" => live'[shell[n].id].browser = "attached"
    BY DEF StartsAttached, EdgesPlaced
  <2> QED
    BY <2>1, <2>2 DEF StartsAttached
<1>9. StartsClosed'
  <2> SUFFICES ASSUME NEW j \in Wires, NEW t \in Terminals, NEW i \in 1..Len(wires'[j].down),
                      Sent(j, i, "start", t)'
               PROVE  \/ wires'[j].broken \/ SessionOn(j, t)'
                      \/ \E l \in 1..Len(wires'[j].down) : i < l /\ Sent(j, l, "close", t)'
    BY DEF StartsClosed
  <2>1. CASE i \in 1..Len(wires[j].down)
    <3>1. \/ wires[j].broken \/ SessionOn(j, t)
          \/ \E l \in 1..Len(wires[j].down) : i < l /\ Sent(j, l, "close", t)
      BY <1>4, <2>1 DEF StartsClosed
    <3>2. CASE SessionOn(j, t) /\ kind = "close" /\ t = s /\ j = k
      <4>1. len + 1 \in 1..Len(wires'[j].down) /\ i < len + 1 /\ Sent(j, len + 1, "close", t)'
        BY <1>a, <1>1, <1>5, <2>1, <3>2
      <4> QED
        BY <4>1
    <3> QED
      BY <1>1, <1>4, <1>6, <3>1, <3>2
  <2>2. CASE j = k /\ i = len + 1
    BY <1>5, <2>2
  <2> QED
    BY <1>6, <2>1, <2>2
<1>10. StartsOrdered'
  <2> SUFFICES ASSUME NEW j \in Wires, NEW t \in Terminals, NEW u \in Terminals,
                      NEW i \in 1..Len(wires'[j].down), NEW m \in 1..Len(wires'[j].down),
                      i < m, Sent(j, i, "start", t)', Sent(j, m, "start", u)'
               PROVE  \E l \in 1..Len(wires'[j].down) : i < l /\ l < m /\ Sent(j, l, "close", t)'
    BY DEF StartsOrdered
  <2>1. i \in 1..Len(wires[j].down)
    BY <1>a, <1>1, <1>6
  <2>2. Sent(j, i, "start", t)
    BY <1>4, <2>1
  <2>3. CASE m \in 1..Len(wires[j].down)
    <3>1. PICK l \in 1..Len(wires[j].down) : i < l /\ l < m /\ Sent(j, l, "close", t)
      BY <1>4, <2>1, <2>2, <2>3 DEF StartsOrdered
    <3> QED
      BY <1>4, <1>6, <3>1
  <2>4. CASE j = k /\ m = len + 1
    <3>1. kind = "start" /\ u = s
      BY <1>5, <2>4
    <3>2. ~SessionOn(k, t)
      BY <1>7, <2>1, <2>2, <2>4, <3>1 DEF StartsAttached
    <3>3. PICK l \in 1..Len(wires[j].down) : i < l /\ Sent(j, l, "close", t)
      BY <2>1, <2>2, <2>4, <3>2 DEF StartsClosed
    <3> QED
      BY <1>a, <1>4, <1>6, <2>4, <3>3
  <2> QED
    BY <1>6, <2>3, <2>4
<1>11. ShellClosedFirst'
  <2> SUFFICES ASSUME NEW n \in Consoles, NEW j \in Wires, NEW t \in Terminals,
                      NEW i \in 1..Len(wires'[j].down), OnEdge(n, j), shell[n].at # "none",
                      Sent(j, i, "start", t)'
               PROVE  \E l \in 1..Len(wires'[j].down) : l < i /\ Sent(j, l, "close", shell[n].id)'
    BY <1>2 DEF ShellClosedFirst
  <2>1. CASE i \in 1..Len(wires[j].down)
    <3>1. PICK l \in 1..Len(wires[j].down) : l < i /\ Sent(j, l, "close", shell[n].id)
      BY <1>4, <2>1 DEF ShellClosedFirst
    <3> QED
      BY <1>4, <1>6, <3>1
  <2>2. CASE j = k /\ i = len + 1
    <3>1. kind = "start" /\ shell[n].id \in Terminals
      BY <1>5, <2>2 DEF EdgesPlaced
    <3>2. ~SessionOn(k, shell[n].id)
      BY <1>7, <3>1 DEF StartsAttached
    <3>3. PICK l \in 1..Len(wires[j].down) : Sent(j, l, "close", shell[n].id)
      BY <2>2, <3>2 DEF ShellsFollow
    <3> QED
      BY <1>a, <1>4, <1>6, <2>2, <3>3
  <2> QED
    BY <1>6, <2>1, <2>2
<1>12. ShellsFollow'
  <2> SUFFICES ASSUME NEW n \in Consoles, NEW j \in Wires, NEW t \in Terminals, t = shell[n].id,
                      OnEdge(n, j), shell[n].at # "none"
               PROVE  \/ wires'[j].broken \/ SessionOn(j, t)'
                      \/ \E i \in 1..Len(wires'[j].down) : Sent(j, i, "close", t)'
    BY <1>2 DEF ShellsFollow, EdgesPlaced, SessionOn, Sent
  <2>1. \/ wires[j].broken \/ SessionOn(j, t)
        \/ \E i \in 1..Len(wires[j].down) : Sent(j, i, "close", t)
    BY DEF ShellsFollow
  <2>2. CASE SessionOn(j, t) /\ kind = "close" /\ t = s /\ j = k
    <3>1. len + 1 \in 1..Len(wires'[j].down) /\ Sent(j, len + 1, "close", t)'
      BY <1>a, <1>1, <1>5, <2>2
    <3> QED
      BY <3>1
  <2> QED
    BY <1>1, <1>4, <1>6, <2>1, <2>2
<1> QED
  BY <1>3, <1>8, <1>9, <1>10, <1>11, <1>12 DEF QueuesInv
LEMMA FirstRead ==
  ASSUME NEW k \in Wires, wires \in [Wires -> WireStates], wires[k].down # <<>>
  PROVE  /\ Head(wires[k].down) \in WireMessages /\ Head(wires[k].down) = wires[k].down[1]
         /\ Tail(wires[k].down) \in Seq(WireMessages) /\ Len(wires[k].down) \in Nat \ {0}
         /\ Len(Tail(wires[k].down)) = Len(wires[k].down) - 1
         /\ \A i \in 1..Len(wires[k].down) - 1 : Tail(wires[k].down)[i] = wires[k].down[i + 1]
<1>1. wires[k].down \in Seq(WireMessages)
  BY DEF WireStates
<1> HIDE DEF WireMessages
<1>2. Len(wires[k].down) \in Nat \ {0}
  BY <1>1
<1>3. Head(wires[k].down) = wires[k].down[1] /\ wires[k].down[1] \in WireMessages
  BY <1>1, <1>2
<1> QED
  BY <1>1, <1>2, <1>3, HeadTailProperties

\* An agent reads its next message: its shell goes on, ends, or begins with a start.
LEMMA ReadingKeepsQueues ==
  ASSUME TerminalInv, NEW n \in Consoles, NEW k \in Wires, OnEdge(n, k), wires[k].down # <<>>,
         UNCHANGED live,
         wires'[k].down = Tail(wires[k].down),
         \A j \in Wires : /\ j # k => wires'[j].down = wires[j].down
                          /\ wires'[j].node = wires[j].node /\ wires'[j].edge = wires[j].edge
                          /\ wires'[j].broken = wires[j].broken,
         \A m \in Consoles : m # n => shell'[m] = shell[m],
         \/ /\ shell'[n] = shell[n]
            /\ shell[n].at = "none" \/ Head(wires[k].down) # Message("close", shell[n].id)
         \/ shell'[n].at = "none"
         \/ \E s \in Terminals : /\ Head(wires[k].down) = Message("start", s)
                                 /\ shell'[n].at # "none" /\ shell'[n].id = s
  PROVE  QueuesInv'
<1> USE DEF TerminalInv
<1>0. wires \in [Wires -> WireStates]
  BY DEF TerminalsTyped
<1>a. PICK len \in Nat : len = Len(wires[k].down) /\ len # 0
  BY <1>0, FirstRead
<1>1. /\ Len(wires'[k].down) = len - 1 /\ wires[k].down[1] = Head(wires[k].down)
      /\ \A i \in 1..len - 1 : wires'[k].down[i] = wires[k].down[i + 1]
  BY <1>0, <1>a, FirstRead
<1>2. \A m \in Consoles, j \in Wires : OnEdge(m, j)' <=> OnEdge(m, j)
  BY DEF OnEdge
<1>3. \A j \in Wires : \A i, kind, t :
        j # k => (Sent(j, i, kind, t)' <=> Sent(j, i, kind, t)) /\ wires'[j].down = wires[j].down
  BY DEF Sent, Message
<1>4. \A i, kind, t : i \in 1..len - 1 => (Sent(k, i, kind, t)' <=> Sent(k, i + 1, kind, t))
  BY <1>1 DEF Sent, Message
<1>5. \A j \in Wires : \A t : SessionOn(j, t)' <=> SessionOn(j, t)
  BY DEF SessionOn
<1>6. \A i : i \in 1..len - 1 => i \in Nat /\ i + 1 \in 1..len
  BY <1>a
<1>7. \A i : i \in 1..len => i = 1 \/ (i - 1 \in 1..len - 1 /\ i - 1 + 1 = i)
  BY <1>a
<1>8. \A kind, t : Head(wires[k].down) = Message(kind, t) <=> Sent(k, 1, kind, t)
  BY <1>1 DEF Sent
<1> HIDE DEF Sent, OnEdge, SessionOn
<1>9. EdgesPlaced'
  <2>1. ASSUME NEW m \in Consoles, shell'[m].at # "none"
        PROVE  shell'[m].id \in Terminals /\ \E j \in Wires : OnEdge(m, j)'
    <3>1. CASE m = n
      BY <1>2, <2>1, <3>1 DEF EdgesPlaced
    <3>2. CASE m # n
      BY <1>2, <2>1, <3>2 DEF EdgesPlaced
    <3> QED
      BY <3>1, <3>2
  <2> QED
    BY <1>2, <2>1 DEF EdgesPlaced
<1>10. StartsAttached'
  <2>1. ASSUME NEW j \in Wires, NEW t \in Terminals, NEW i \in 1..Len(wires'[j].down), Sent(j, i, "start", t)'
        PROVE  live[t].browser = "attached"
    <3>1. CASE j = k
      BY <1>a, <1>1, <1>4, <1>6, <2>1, <3>1 DEF StartsAttached
    <3>2. CASE j # k
      BY <1>3, <2>1, <3>2 DEF StartsAttached
    <3> QED
      BY <3>1, <3>2
  <2>2. ASSUME NEW m \in Consoles, shell'[m].at # "none" PROVE live[shell'[m].id].browser = "attached"
    <3>1. CASE shell'[m] = shell[m]
      BY <2>2, <3>1 DEF StartsAttached
    <3>2. ASSUME NEW s \in Terminals, m = n, Head(wires[k].down) = Message("start", s), shell'[n].id = s
          PROVE  live[shell'[m].id].browser = "attached"
      <4>1. 1 \in 1..Len(wires[k].down) /\ Sent(k, 1, "start", s)
        BY <1>a, <1>8, <3>2
      <4> QED
        BY <3>2, <4>1 DEF StartsAttached
    <3> QED
      BY <2>2, <3>1, <3>2
  <2> QED
    BY <2>1, <2>2 DEF StartsAttached
<1>11. StartsClosed'
  <2> SUFFICES ASSUME NEW j \in Wires, NEW t \in Terminals, NEW i \in 1..Len(wires'[j].down),
                      Sent(j, i, "start", t)'
               PROVE  \/ wires[j].broken \/ SessionOn(j, t)
                      \/ \E l \in 1..Len(wires'[j].down) : i < l /\ Sent(j, l, "close", t)'
    BY <1>5 DEF StartsClosed
  <2>1. CASE j # k
    BY <1>3, <2>1 DEF StartsClosed
  <2>2. CASE j = k /\ ~wires[j].broken /\ ~SessionOn(j, t)
    <3>1. i \in 1..len - 1 /\ i + 1 \in 1..len /\ Sent(k, i + 1, "start", t)
      BY <1>1, <1>4, <1>6, <2>2
    <3>2. PICK l \in 1..len : i + 1 < l /\ Sent(k, l, "close", t)
      BY <1>a, <2>2, <3>1 DEF StartsClosed
    <3>3. l - 1 \in 1..len - 1 /\ i < l - 1 /\ l - 1 + 1 = l
      BY <1>a, <3>1, <3>2
    <3> QED
      BY <1>1, <1>4, <2>2, <3>2, <3>3
  <2> QED
    BY <2>1, <2>2
<1>12. StartsOrdered'
  <2> SUFFICES ASSUME NEW j \in Wires, NEW t \in Terminals, NEW u \in Terminals,
                      NEW i \in 1..Len(wires'[j].down), NEW m \in 1..Len(wires'[j].down),
                      i < m, Sent(j, i, "start", t)', Sent(j, m, "start", u)'
               PROVE  \E l \in 1..Len(wires'[j].down) : i < l /\ l < m /\ Sent(j, l, "close", t)'
    BY DEF StartsOrdered
  <2>1. CASE j # k
    BY <1>3, <2>1 DEF StartsOrdered
  <2>2. CASE j = k
    <3>1. /\ i \in 1..len - 1 /\ i + 1 \in 1..len /\ Sent(k, i + 1, "start", t)
          /\ m \in 1..len - 1 /\ m + 1 \in 1..len /\ Sent(k, m + 1, "start", u) /\ i + 1 < m + 1
      <4>1. i \in 1..len - 1 /\ m \in 1..len - 1
        BY <1>1, <2>2
      <4>2. i + 1 < m + 1
        BY <1>a, <4>1
      <4> QED
        BY <1>4, <1>6, <2>2, <4>1, <4>2
    <3>2. PICK l \in 1..len : i + 1 < l /\ l < m + 1 /\ Sent(k, l, "close", t)
      BY <1>a, <2>2, <3>1 DEF StartsOrdered
    <3>3. l - 1 \in 1..len - 1 /\ i < l - 1 /\ l - 1 < m /\ l - 1 + 1 = l
      BY <1>a, <3>1, <3>2
    <3> QED
      BY <1>1, <1>4, <2>2, <3>2, <3>3
  <2> QED
    BY <2>1, <2>2
<1>13. ShellClosedFirst'
  <2> SUFFICES ASSUME NEW m \in Consoles, NEW j \in Wires, NEW t \in Terminals, NEW u \in Terminals,
                      NEW i \in 1..Len(wires'[j].down), OnEdge(m, j), shell'[m].at # "none",
                      u = shell'[m].id, Sent(j, i, "start", t)'
               PROVE  \E l \in 1..Len(wires'[j].down) : l < i /\ Sent(j, l, "close", u)'
    <3>1. \A m \in Consoles : shell'[m].at # "none" => shell'[m].id \in Terminals
      BY <1>9 DEF EdgesPlaced
    <3> QED
      BY <1>2, <3>1 DEF ShellClosedFirst, Sent
  <2>1. CASE m # n
    <3>1. j # k /\ shell'[m] = shell[m]
      BY <2>1 DEF OnEdge
    <3> QED
      BY <1>3, <3>1 DEF ShellClosedFirst
  <2>2. CASE m = n
    <3>1. j = k
      BY <2>2 DEF EdgesPlaced
    <3>2. i \in 1..len - 1 /\ i + 1 \in 1..len /\ Sent(k, i + 1, "start", t)
      BY <1>1, <1>4, <1>6, <3>1
    <3>3. CASE shell'[n] = shell[n] /\ Head(wires[k].down) # Message("close", shell[n].id)
      <4>1. PICK l \in 1..len : l < i + 1 /\ Sent(k, l, "close", u)
        BY <1>a, <2>2, <3>2, <3>3 DEF ShellClosedFirst
      <4>2. l # 1
        BY <1>8, <2>2, <3>3, <4>1
      <4>3. l - 1 \in 1..len - 1 /\ l - 1 < i /\ l - 1 + 1 = l
        BY <1>a, <3>2, <4>1, <4>2
      <4>4. Sent(k, l - 1, "close", u)'
        BY <1>4, <4>1, <4>3
      <4> QED
        BY <1>1, <3>1, <4>3, <4>4
    <3>4. CASE Head(wires[k].down) = Message("start", u)
      <4>1. 1 \in 1..len /\ 1 < i + 1 /\ Sent(k, 1, "start", u)
        BY <1>a, <1>8, <3>2, <3>4
      <4>2. PICK l \in 1..len : 1 < l /\ l < i + 1 /\ Sent(k, l, "close", u)
        BY <1>a, <3>2, <4>1 DEF StartsOrdered
      <4>3. l - 1 \in 1..len - 1 /\ l - 1 < i /\ l - 1 + 1 = l
        BY <1>a, <3>2, <4>2
      <4>4. Sent(k, l - 1, "close", u)'
        BY <1>4, <4>2, <4>3
      <4> QED
        BY <1>1, <3>1, <4>3, <4>4
    <3> QED
      BY <2>2, <3>3, <3>4
  <2> QED
    BY <2>1, <2>2
<1>14. ShellsFollow'
  <2> SUFFICES ASSUME NEW m \in Consoles, NEW j \in Wires, NEW u \in Terminals, OnEdge(m, j),
                      shell'[m].at # "none", u = shell'[m].id, ~wires[j].broken, ~SessionOn(j, u)
               PROVE  \E i \in 1..Len(wires'[j].down) : Sent(j, i, "close", u)'
    BY <1>2, <1>5, <1>9 DEF ShellsFollow, EdgesPlaced, Sent, SessionOn
  <2>1. CASE m # n
    <3>1. j # k /\ shell'[m] = shell[m]
      BY <2>1 DEF OnEdge
    <3> QED
      BY <1>3, <3>1 DEF ShellsFollow
  <2>2. CASE m = n
    <3>1. j = k
      BY <2>2 DEF EdgesPlaced
    <3>2. PICK l \in 1..len : l # 1 /\ Sent(k, l, "close", u)
      <4>1. CASE shell'[n] = shell[n] /\ Head(wires[k].down) # Message("close", shell[n].id)
        BY <1>a, <1>8, <2>2, <3>1, <4>1 DEF ShellsFollow
      <4>2. CASE Head(wires[k].down) = Message("start", u)
        <5>1. 1 \in 1..len /\ Sent(k, 1, "start", u)
          BY <1>a, <1>8, <4>2
        <5>2. PICK l \in 1..len : 1 < l /\ Sent(k, l, "close", u)
          BY <1>a, <3>1, <5>1 DEF StartsClosed
        <5> QED
          BY <5>2
      <4> QED
        BY <2>2, <4>1, <4>2
    <3>3. l - 1 \in 1..len - 1 /\ l - 1 + 1 = l
      BY <1>a, <3>2
    <3> QED
      BY <1>1, <1>4, <3>1, <3>2, <3>3
  <2> QED
    BY <2>1, <2>2
<1> QED
  BY <1>9, <1>10, <1>11, <1>12, <1>13, <1>14 DEF QueuesInv
\* What most steps leave as it is: the sessions, their places, the connections
\* and the shells.
SessionsGoOn ==
  \A s \in Terminals :
    /\ live'[s].node = live[s].node /\ live'[s].peer = live[s].peer
    /\ live'[s].at \notin {"none", "gone"} => live[s].at \notin {"none", "gone"}
    /\ live'[s].at = "none" => live'[s].browser = "no"
    /\ live'[s].at = "run" => live[s].at = "run" /\ (live[s].stop => live'[s].stop)
    /\ live[s].browser = "attached" => live'[s].browser = "attached"
SessionsStay == \A s \in Terminals : live[s].at \in {"run", "close"} => live'[s].at \in {"run", "close"}
HandlersStay ==
  \A k \in Wires : /\ wires'[k].node = wires[k].node /\ wires'[k].handler = wires[k].handler
                   /\ wires[k].broken => wires'[k].broken
WiresGoOn ==
  \A k \in Wires : /\ wires'[k].down = wires[k].down /\ wires'[k].node = wires[k].node
                   /\ wires'[k].edge => wires[k].edge
                   /\ wires[k].broken => wires'[k].broken
ShellsGoOn ==
  \A n \in Consoles : shell'[n].at # "none" =>
    /\ shell[n].at # "none" /\ shell'[n].id = shell[n].id
    /\ \A k \in Wires : OnEdge(n, k) => wires'[k].edge

LEMMA PlacesKept ==
  ASSUME TerminalInv, SessionsGoOn, HandlersStay, peers' = peers
  PROVE  SessionsPlaced' /\ PeersPlaced'
<1> USE DEF TerminalInv
<1>1. SessionsPlaced'
  BY DEF SessionsPlaced, SessionsGoOn, HandlersStay, InHub
<1>2. \A k \in Wires : wires'[k].handler = "runs" => wires'[k].broken \/ peers'[wires'[k].node] = k
  BY DEF PeersPlaced, PeersKnown, HandlersStay
<1>3. \A s \in Terminals :
        live'[s].at = "run" /\ wires'[live'[s].peer].handler = "ended" => live'[s].stop
  BY DEF PeersPlaced, PeersKnown, HandlersStay, SessionsGoOn, SessionsPlaced, InHub
<1>4. \A n \in Consoles : peers'[n] # 0 => wires'[peers'[n]].handler = "runs" /\ wires'[peers'[n]].node = n
  BY DEF PeersPlaced, HandlersStay, TerminalsTyped
<1>5. \A k \in Wires : wires'[k].handler # "none" => wires'[k].node # "none"
  BY DEF PeersPlaced, HandlersStay
<1>6. PeersPlaced'
  BY <1>2, <1>3, <1>4, <1>5 DEF PeersPlaced, PeersKnown
<1> QED
  BY <1>1, <1>6

LEMMA QueuesGoOn ==
  ASSUME TerminalInv, SessionsGoOn, SessionsStay, WiresGoOn, ShellsGoOn
  PROVE  QueuesInv'
<1>1. \A k \in Wires : /\ wires'[k].down = wires[k].down /\ wires'[k].node = wires[k].node
                       /\ wires'[k].edge => wires[k].edge
                       /\ wires[k].broken => wires'[k].broken
  BY DEF WiresGoOn
<1>2. \A n \in Consoles : shell'[n].at # "none" =>
        /\ shell[n].at # "none" /\ shell'[n].id = shell[n].id
        /\ \A k \in Wires : OnEdge(n, k) => wires'[k].edge
  BY DEF ShellsGoOn
<1>3. \A s \in Terminals : live[s].browser = "attached" => live'[s].browser = "attached"
  BY DEF SessionsGoOn
<1>4. \A s \in Terminals, k \in Wires : SessionOn(k, s) => SessionOn(k, s)' \/ wires'[k].broken
  BY DEF SessionsGoOn, SessionsStay, SessionOn
<1> QED
  BY <1>1, <1>2, <1>3, <1>4, QueuesKept

LEMMA ConnectBrowserKeeps ==
  ASSUME TerminalInv, NEW s \in Terminals, ConnectBrowser(s)
  PROVE  TerminalInv'
<1> USE DEF TerminalInv
<1>1. live' \in [Terminals -> Lives] /\ SessionsGoOn
  <2> DEFINE mine == [live[s] EXCEPT !.browser = "waiting"]
  <2>1. mine \in Lives /\ mine.browser = "waiting" /\ mine.at = live[s].at /\ mine.node = live[s].node
        /\ mine.peer = live[s].peer /\ mine.stop = live[s].stop
    BY DEF TerminalsTyped, Lives
  <2>2. live' = [live EXCEPT ![s] = mine] /\ live[s].at \notin {"none", "gone"} /\ live[s].browser = "no"
    BY DEF ConnectBrowser, InHub
  <2> HIDE DEF mine
  <2>3. live' \in [Terminals -> Lives] /\ \A t \in Terminals : live'[t] = IF t = s THEN mine ELSE live[t]
    BY <2>1, <2>2 DEF TerminalsTyped
  <2>4. \A t \in Terminals : live[t].at = "none" => live[t].browser = "no"
    BY DEF SessionsPlaced
  <2> QED
    BY <2>1, <2>2, <2>3, <2>4 DEF SessionsGoOn
<1>2. audit' \in [Terminals -> AuditRows] /\ shell' \in [Consoles -> Shells]
  BY DEF ConnectBrowser, TerminalsTyped, AuditRows, Shells
<1>3. wires' \in [Wires -> WireStates] /\ HandlersStay /\ WiresGoOn
  BY DEF ConnectBrowser, TerminalsTyped, HandlersStay, WiresGoOn
<1>4. SessionsStay /\ ShellsGoOn
  BY DEF ConnectBrowser, TerminalsTyped, Lives, Shells, SessionsStay, ShellsGoOn, OnEdge
<1>5. TerminalsTyped'
  BY <1>1, <1>2, <1>3 DEF ConnectBrowser, TerminalsTyped
<1>6. RowsFollowSessions'
  BY <1>1 DEF ConnectBrowser, OpenRow, RowsFollowSessions, TerminalsTyped, Lives, AuditRows
<1>7. peers' = peers
  BY DEF ConnectBrowser
<1> QED
  BY <1>1, <1>3, <1>4, <1>5, <1>6, <1>7, PlacesKept, QueuesGoOn DEF QueuesInv

LEMMA AskToStopKeeps == ASSUME TerminalInv, NEW s \in Terminals, AskToStop(s) PROVE TerminalInv'
<1> USE DEF TerminalInv
<1>1. live' \in [Terminals -> Lives] /\ SessionsGoOn
  <2> DEFINE mine == [live[s] EXCEPT !.stop = TRUE]
  <2>1. mine \in Lives /\ mine.stop /\ mine.at = live[s].at /\ mine.node = live[s].node
        /\ mine.peer = live[s].peer /\ mine.browser = live[s].browser
    BY DEF TerminalsTyped, Lives
  <2>2. live' = [live EXCEPT ![s] = mine] /\ live[s].at \notin {"none", "gone"}
    BY DEF AskToStop, InHub
  <2> HIDE DEF mine
  <2>3. live' \in [Terminals -> Lives] /\ \A t \in Terminals : live'[t] = IF t = s THEN mine ELSE live[t]
    BY <2>1, <2>2 DEF TerminalsTyped
  <2>4. \A t \in Terminals : live[t].at = "none" => live[t].browser = "no"
    BY DEF SessionsPlaced
  <2> QED
    BY <2>1, <2>2, <2>3, <2>4 DEF SessionsGoOn
<1>2. audit' \in [Terminals -> AuditRows] /\ shell' \in [Consoles -> Shells]
  BY DEF AskToStop, TerminalsTyped, AuditRows, Shells
<1>3. wires' \in [Wires -> WireStates] /\ HandlersStay /\ WiresGoOn
  BY DEF AskToStop, TerminalsTyped, HandlersStay, WiresGoOn
<1>4. SessionsStay /\ ShellsGoOn
  BY DEF AskToStop, TerminalsTyped, Lives, Shells, SessionsStay, ShellsGoOn, OnEdge
<1>5. TerminalsTyped'
  BY <1>1, <1>2, <1>3 DEF AskToStop, TerminalsTyped
<1>6. RowsFollowSessions'
  BY <1>1 DEF AskToStop, OpenRow, RowsFollowSessions, TerminalsTyped, Lives, AuditRows
<1>7. peers' = peers
  BY DEF AskToStop
<1> QED
  BY <1>1, <1>3, <1>4, <1>5, <1>6, <1>7, PlacesKept, QueuesGoOn DEF QueuesInv

LEMMA LeaveLoopKeeps == ASSUME TerminalInv, NEW s \in Terminals, LeaveLoop(s) PROVE TerminalInv'
<1> USE DEF TerminalInv
<1>1. live' \in [Terminals -> Lives] /\ SessionsGoOn
  <2> DEFINE mine == [live[s] EXCEPT !.at = "close"]
  <2>1. mine \in Lives /\ mine.at = "close" /\ mine.node = live[s].node /\ mine.peer = live[s].peer
        /\ mine.browser = live[s].browser /\ mine.stop = live[s].stop
    BY DEF TerminalsTyped, Lives
  <2>2. live' = [live EXCEPT ![s] = mine] /\ live[s].at = "run"
    BY DEF LeaveLoop, InHub
  <2> HIDE DEF mine
  <2>3. live' \in [Terminals -> Lives] /\ \A t \in Terminals : live'[t] = IF t = s THEN mine ELSE live[t]
    BY <2>1, <2>2 DEF TerminalsTyped
  <2>4. \A t \in Terminals : live[t].at = "none" => live[t].browser = "no"
    BY DEF SessionsPlaced
  <2> QED
    BY <2>1, <2>2, <2>3, <2>4 DEF SessionsGoOn
<1>2. audit' \in [Terminals -> AuditRows] /\ shell' \in [Consoles -> Shells]
  BY DEF LeaveLoop, TerminalsTyped, AuditRows, Shells
<1>3. wires' \in [Wires -> WireStates] /\ HandlersStay /\ WiresGoOn
  BY DEF LeaveLoop, TerminalsTyped, HandlersStay, WiresGoOn
<1>4. SessionsStay /\ ShellsGoOn
  BY DEF LeaveLoop, TerminalsTyped, Lives, Shells, SessionsStay, ShellsGoOn, OnEdge
<1>5. TerminalsTyped'
  BY <1>1, <1>2, <1>3 DEF LeaveLoop, TerminalsTyped
<1>6. RowsFollowSessions'
  BY <1>1 DEF LeaveLoop, OpenRow, RowsFollowSessions, TerminalsTyped, Lives, AuditRows
<1>7. peers' = peers
  BY DEF LeaveLoop
<1> QED
  BY <1>1, <1>3, <1>4, <1>5, <1>6, <1>7, PlacesKept, QueuesGoOn DEF QueuesInv

LEMMA RecordEndKeeps == ASSUME TerminalInv, NEW s \in Terminals, RecordEnd(s) PROVE TerminalInv'
<1> USE DEF TerminalInv
<1>1. live' \in [Terminals -> Lives] /\ SessionsGoOn
  <2> DEFINE mine == [live[s] EXCEPT !.at = "remove"]
  <2>1. mine \in Lives /\ mine.at = "remove" /\ mine.node = live[s].node /\ mine.peer = live[s].peer
        /\ mine.browser = live[s].browser /\ mine.stop = live[s].stop
    BY DEF TerminalsTyped, Lives
  <2>2. live' = [live EXCEPT ![s] = mine] /\ live[s].at = "record"
    BY DEF RecordEnd, InHub
  <2> HIDE DEF mine
  <2>3. live' \in [Terminals -> Lives] /\ \A t \in Terminals : live'[t] = IF t = s THEN mine ELSE live[t]
    BY <2>1, <2>2 DEF TerminalsTyped
  <2>4. \A t \in Terminals : live[t].at = "none" => live[t].browser = "no"
    BY DEF SessionsPlaced
  <2> QED
    BY <2>1, <2>2, <2>3, <2>4 DEF SessionsGoOn
<1>2. audit' \in [Terminals -> AuditRows] /\ shell' \in [Consoles -> Shells]
  BY DEF RecordEnd, Hitch, TerminalsTyped, AuditRows, Shells
<1>3. wires' \in [Wires -> WireStates] /\ HandlersStay /\ WiresGoOn
  BY DEF RecordEnd, Hitch, TerminalsTyped, HandlersStay, WiresGoOn
<1>4. SessionsStay /\ ShellsGoOn
  BY DEF RecordEnd, Hitch, TerminalsTyped, Lives, Shells, SessionsStay, ShellsGoOn, OnEdge
<1>5. TerminalsTyped'
  BY <1>1, <1>2, <1>3 DEF RecordEnd, Hitch, TerminalsTyped
<1>6. RowsFollowSessions'
  BY <1>1 DEF RecordEnd, Hitch, OpenRow, RowsFollowSessions, TerminalsTyped, Lives, AuditRows
<1>7. peers' = peers
  BY DEF RecordEnd
<1> QED
  BY <1>1, <1>3, <1>4, <1>5, <1>6, <1>7, PlacesKept, QueuesGoOn DEF QueuesInv

LEMMA RemoveTerminalKeeps ==
  ASSUME TerminalInv, NEW s \in Terminals, RemoveTerminal(s)
  PROVE  TerminalInv'
<1> USE DEF TerminalInv
<1>1. live' \in [Terminals -> Lives] /\ SessionsGoOn
  <2> DEFINE mine == [live[s] EXCEPT !.at = "gone"]
  <2>1. mine \in Lives /\ mine.at = "gone" /\ mine.node = live[s].node /\ mine.peer = live[s].peer
        /\ mine.browser = live[s].browser /\ mine.stop = live[s].stop
    BY DEF TerminalsTyped, Lives
  <2>2. live' = [live EXCEPT ![s] = mine] /\ live[s].at = "remove"
    BY DEF RemoveTerminal, InHub
  <2> HIDE DEF mine
  <2>3. live' \in [Terminals -> Lives] /\ \A t \in Terminals : live'[t] = IF t = s THEN mine ELSE live[t]
    BY <2>1, <2>2 DEF TerminalsTyped
  <2>4. \A t \in Terminals : live[t].at = "none" => live[t].browser = "no"
    BY DEF SessionsPlaced
  <2> QED
    BY <2>1, <2>2, <2>3, <2>4 DEF SessionsGoOn
<1>2. audit' \in [Terminals -> AuditRows] /\ shell' \in [Consoles -> Shells]
  BY DEF RemoveTerminal, TerminalsTyped, AuditRows, Shells
<1>3. wires' \in [Wires -> WireStates] /\ HandlersStay /\ WiresGoOn
  BY DEF RemoveTerminal, TerminalsTyped, HandlersStay, WiresGoOn
<1>4. SessionsStay /\ ShellsGoOn
  BY DEF RemoveTerminal, TerminalsTyped, Lives, Shells, SessionsStay, ShellsGoOn, OnEdge
<1>5. TerminalsTyped'
  BY <1>1, <1>2, <1>3 DEF RemoveTerminal, TerminalsTyped
<1>6. RowsFollowSessions'
  BY <1>1 DEF RemoveTerminal, OpenRow, RowsFollowSessions, TerminalsTyped, Lives, AuditRows
<1>7. peers' = peers
  BY DEF RemoveTerminal
<1> QED
  BY <1>1, <1>3, <1>4, <1>5, <1>6, <1>7, PlacesKept, QueuesGoOn DEF QueuesInv

LEMMA ShutDownKeeps == ASSUME TerminalInv, ShutDown PROVE TerminalInv'
<1> USE DEF TerminalInv
<1>1. live' \in [Terminals -> Lives] /\ SessionsGoOn
  <2>1. \A s \in Terminals : live'[s] = IF InHub(s) THEN [live[s] EXCEPT !.stop = TRUE] ELSE live[s]
    BY DEF ShutDown
  <2>2. \A r \in Lives : LET asked == [r EXCEPT !.stop = TRUE] IN
          /\ asked \in Lives /\ asked.stop /\ asked.at = r.at /\ asked.node = r.node
          /\ asked.peer = r.peer /\ asked.browser = r.browser
    BY DEF Lives
  <2>3. live' \in [Terminals -> Lives]
    BY <2>1, <2>2 DEF ShutDown, TerminalsTyped
  <2>4. \A t \in Terminals : live[t].at = "none" => live[t].browser = "no"
    BY DEF SessionsPlaced
  <2>5. \A t \in Terminals :
          /\ live'[t].at = live[t].at /\ live'[t].node = live[t].node /\ live'[t].peer = live[t].peer
          /\ live'[t].browser = live[t].browser /\ (live[t].stop => live'[t].stop)
    <3> TAKE t \in Terminals
    <3>1. live[t] \in Lives
      BY DEF TerminalsTyped
    <3>2. CASE InHub(t)
      <4>1. live'[t] = [live[t] EXCEPT !.stop = TRUE]
        BY <2>1, <3>2
      <4> QED
        BY <2>2, <3>1, <4>1
    <3>3. CASE ~InHub(t)
      BY <2>1, <3>3
    <3> QED
      BY <3>2, <3>3
  <2> QED
    BY <2>3, <2>4, <2>5 DEF SessionsGoOn
<1>2. audit' \in [Terminals -> AuditRows] /\ shell' \in [Consoles -> Shells]
  BY DEF ShutDown, TerminalsTyped, AuditRows, Shells
<1>3. wires' \in [Wires -> WireStates] /\ HandlersStay /\ WiresGoOn
  BY DEF ShutDown, TerminalsTyped, HandlersStay, WiresGoOn
<1>4. SessionsStay /\ ShellsGoOn
  BY DEF ShutDown, TerminalsTyped, Lives, Shells, SessionsStay, ShellsGoOn, OnEdge
<1>5. TerminalsTyped'
  BY <1>1, <1>2, <1>3 DEF ShutDown, TerminalsTyped
<1>6. RowsFollowSessions'
  BY <1>1 DEF ShutDown, OpenRow, RowsFollowSessions, TerminalsTyped, Lives, AuditRows
<1>7. peers' = peers
  BY DEF ShutDown
<1> QED
  BY <1>1, <1>3, <1>4, <1>5, <1>6, <1>7, PlacesKept, QueuesGoOn DEF QueuesInv

LEMMA CommandOpensKeeps == ASSUME TerminalInv, CommandOpens PROVE TerminalInv'
<1> USE DEF TerminalInv
<1>1. live' \in [Terminals -> Lives] /\ SessionsGoOn
  BY DEF CommandOpens, RecoveredRows, TerminalsTyped, Lives, SessionsGoOn, SessionsPlaced, InHub
<1>2. audit' \in [Terminals -> AuditRows] /\ shell' \in [Consoles -> Shells]
  BY DEF CommandOpens, RecoveredRows, OpenRow, TerminalsTyped, AuditRows, Shells
<1>3. wires' \in [Wires -> WireStates] /\ HandlersStay /\ WiresGoOn
  BY DEF CommandOpens, RecoveredRows, TerminalsTyped, HandlersStay, WiresGoOn
<1>4. SessionsStay /\ ShellsGoOn
  BY DEF CommandOpens, RecoveredRows, TerminalsTyped, Lives, Shells, SessionsStay, ShellsGoOn,
     OnEdge
<1>5. TerminalsTyped'
  BY <1>1, <1>2, <1>3 DEF CommandOpens, RecoveredRows, TerminalsTyped
<1>6. RowsFollowSessions'
  BY <1>1 DEF CommandOpens, RecoveredRows, OpenRow, RowsFollowSessions, TerminalsTyped, Lives,
     AuditRows
<1>7. peers' = peers
  BY DEF CommandOpens
<1> QED
  BY <1>1, <1>3, <1>4, <1>5, <1>6, <1>7, PlacesKept, QueuesGoOn DEF QueuesInv

LEMMA BreakWireKeeps == ASSUME TerminalInv, NEW k \in Wires, BreakWire(k) PROVE TerminalInv'
<1> USE DEF TerminalInv
<1>1. live' \in [Terminals -> Lives] /\ SessionsGoOn
  BY DEF BreakWire, TerminalsTyped, Lives, SessionsGoOn, SessionsPlaced, InHub
<1>2. audit' \in [Terminals -> AuditRows] /\ shell' \in [Consoles -> Shells]
  BY DEF BreakWire, TerminalsTyped, AuditRows, Shells
<1>3. wires' \in [Wires -> WireStates] /\ HandlersStay /\ WiresGoOn
  BY DEF BreakWire, TerminalsTyped, WireStates, HandlersStay, WiresGoOn
<1>4. SessionsStay /\ ShellsGoOn
  BY DEF BreakWire, TerminalsTyped, Lives, Shells, WireStates, SessionsStay, ShellsGoOn, OnEdge
<1>5. TerminalsTyped'
  BY <1>1, <1>2, <1>3 DEF BreakWire, TerminalsTyped
<1>6. RowsFollowSessions'
  BY <1>1 DEF BreakWire, OpenRow, RowsFollowSessions, TerminalsTyped, Lives, AuditRows
<1>7. peers' = peers
  BY DEF BreakWire
<1> QED
  BY <1>1, <1>3, <1>4, <1>5, <1>6, <1>7, PlacesKept, QueuesGoOn DEF QueuesInv

LEMMA ShellEndsKeeps == ASSUME TerminalInv, NEW n \in Consoles, ShellEnds(n) PROVE TerminalInv'
<1> USE DEF TerminalInv
<1>1. live' \in [Terminals -> Lives] /\ SessionsGoOn
  BY DEF ShellEnds, NoShell, TerminalsTyped, Lives, SessionsGoOn, SessionsPlaced, InHub
<1>2. audit' \in [Terminals -> AuditRows] /\ shell' \in [Consoles -> Shells]
  BY DEF ShellEnds, NoShell, TerminalsTyped, AuditRows, Shells
<1>3. wires' \in [Wires -> WireStates] /\ HandlersStay /\ WiresGoOn
  BY DEF ShellEnds, NoShell, TerminalsTyped, HandlersStay, WiresGoOn
<1>4. SessionsStay /\ ShellsGoOn
  BY DEF ShellEnds, NoShell, TerminalsTyped, Lives, Shells, SessionsStay, ShellsGoOn, OnEdge
<1>5. TerminalsTyped'
  BY <1>1, <1>2, <1>3 DEF ShellEnds, NoShell, TerminalsTyped
<1>6. RowsFollowSessions'
  BY <1>1 DEF ShellEnds, NoShell, OpenRow, RowsFollowSessions, TerminalsTyped, Lives, AuditRows
<1>7. peers' = peers
  BY DEF ShellEnds
<1> QED
  BY <1>1, <1>3, <1>4, <1>5, <1>6, <1>7, PlacesKept, QueuesGoOn DEF QueuesInv
LEMMA CreateTerminalKeeps ==
  ASSUME TerminalInv, NEW s \in Terminals, NEW n \in Consoles, CreateTerminal(s, n)
  PROVE  TerminalInv'
<1> USE DEF TerminalInv
<1> DEFINE new == [NoTerminal EXCEPT !.at = "run", !.node = n, !.peer = peers[n]]
<1>1. /\ new \in Lives /\ new.at = "run" /\ new.node = n /\ new.peer = peers[n] /\ new.browser = "no"
      /\ peers[n] # 0 /\ peers[n] \in Wires
  BY DEF CreateTerminal, MayCreate, NoTerminal, Lives, TerminalsTyped
<1>2. live' = [live EXCEPT ![s] = new] /\ live[s].at = "none"
  BY DEF CreateTerminal
<1> HIDE DEF new
<1>3. live' \in [Terminals -> Lives] /\ \A t \in Terminals : live'[t] = IF t = s THEN new ELSE live[t]
  BY <1>1, <1>2 DEF TerminalsTyped
<1>4. TerminalsTyped'
  BY <1>3 DEF CreateTerminal, TerminalsTyped, AuditRows
<1>5. RowsFollowSessions'
  BY <1>1, <1>3 DEF CreateTerminal, RowsFollowSessions, OpenRow, TerminalsTyped, AuditRows
<1>6. /\ wires[peers[n]].handler = "runs" /\ wires[peers[n]].node = n
      /\ \A t \in Terminals : InHub(t) => live[t].node # n
  BY <1>1 DEF PeersPlaced, CreateTerminal, MayCreate
<1>7. wires' = wires /\ peers' = peers /\ shell' = shell
  BY DEF CreateTerminal
<1>8. SessionsPlaced'
  BY <1>1, <1>3, <1>6, <1>7 DEF SessionsPlaced, InHub
<1>9. PeersPlaced'
  BY <1>1, <1>3, <1>6, <1>7 DEF PeersPlaced, PeersKnown
<1>10. \A t \in Terminals : live[t].browser = "attached" => live'[t].browser = "attached"
  BY <1>2, <1>3 DEF SessionsPlaced
<1>11. \A t \in Terminals, k \in Wires : SessionOn(k, t) => SessionOn(k, t)' \/ wires'[k].broken
  BY <1>2, <1>3 DEF SessionOn
<1>12. QueuesInv'
  BY <1>7, <1>10, <1>11, QueuesKept DEF OnEdge
<1> QED
  BY <1>4, <1>5, <1>8, <1>9, <1>12 DEF QueuesInv

LEMMA SessionsUntouched == ASSUME TerminalInv, live' = live PROVE SessionsGoOn /\ SessionsStay
  BY DEF TerminalInv, SessionsPlaced, SessionsGoOn, SessionsStay

\* A connection ends, breaks, or gets its handler.
LEMMA WireEnds ==
  ASSUME NEW w \in WireStates
  PROVE  LET v == [w EXCEPT !.handler = "ended", !.broken = TRUE] IN
         /\ v \in WireStates /\ v.node = w.node /\ v.edge = w.edge /\ v.down = w.down
         /\ v.handler = "ended" /\ v.broken
  BY DEF WireStates

LEMMA WireBreaks ==
  ASSUME NEW w \in WireStates
  PROVE  LET v == [w EXCEPT !.broken = TRUE] IN
         /\ v \in WireStates /\ v.node = w.node /\ v.edge = w.edge /\ v.down = w.down
         /\ v.handler = w.handler /\ v.broken
  BY DEF WireStates

LEMMA WireAccepted ==
  ASSUME NEW w \in WireStates
  PROVE  LET v == [w EXCEPT !.handler = "runs"] IN
         /\ v \in WireStates /\ v.node = w.node /\ v.edge = w.edge /\ v.down = w.down
         /\ v.handler = "runs" /\ v.broken = w.broken
  BY DEF WireStates

LEMMA AcceptAgentKeeps == ASSUME TerminalInv, NEW k \in Wires, AcceptAgent(k) PROVE TerminalInv'
<1> USE DEF TerminalInv
<1>1. live' = live /\ audit' = audit /\ shell' = shell /\ unrecorded' = unrecorded /\ cutShort' = cutShort
  BY DEF AcceptAgent
<1>2. PICK n \in Consoles : n = wires[k].node
  BY DEF AcceptAgent, TerminalsTyped, WireStates
<1>3. wires[k].handler = "none" /\ (hubClosed => peers' = peers)
  BY DEF AcceptAgent
<1>4. /\ wires' \in [Wires -> WireStates]
      /\ \A j \in Wires : /\ wires'[j].node = wires[j].node /\ wires'[j].edge = wires[j].edge
                          /\ wires'[j].down = wires[j].down
                          /\ wires[j].broken => wires'[j].broken
                          /\ j # k => wires'[j].handler = wires[j].handler
      /\ \/ wires'[k].handler = "ended" /\ peers' = peers
         \/ /\ wires'[k].handler = "runs" /\ peers' = [peers EXCEPT ![n] = k]
            /\ \A j \in Wires : j # k /\ j = peers[n] => wires'[j].broken
  <2>1. CASE hubClosed
    <3>1. wires' = [wires EXCEPT ![k] = [wires[k] EXCEPT !.handler = "ended", !.broken = TRUE]]
      BY <2>1 DEF AcceptAgent, TerminalsTyped
    <3>2. \A j \in Wires : wires'[j] = IF j = k THEN [wires[k] EXCEPT !.handler = "ended", !.broken = TRUE]
                                      ELSE wires[j]
      BY <3>1 DEF TerminalsTyped
    <3>3. \A j \in Wires : wires[j] \in WireStates
      BY DEF TerminalsTyped
    <3>4. wires' \in [Wires -> WireStates]
      BY <3>1, <3>3, WireEnds DEF TerminalsTyped
    <3>5. ASSUME NEW j \in Wires, j # k PROVE wires'[j] = wires[j]
      BY <3>2, <3>5
    <3>6. /\ wires'[k].node = wires[k].node /\ wires'[k].edge = wires[k].edge
          /\ wires'[k].down = wires[k].down /\ wires'[k].broken /\ wires'[k].handler = "ended"
      <4>1. wires'[k] = [wires[k] EXCEPT !.handler = "ended", !.broken = TRUE] /\ wires[k] \in WireStates
        BY <3>2, <3>3
      <4> QED
        BY <4>1 DEF WireStates
    <3> QED
      BY <1>3, <2>1, <3>4, <3>5, <3>6
  <2>2. CASE ~hubClosed
    <3>1. /\ wires' = [j \in Wires |-> IF j = k THEN [wires[k] EXCEPT !.handler = "runs"]
                         ELSE IF j = peers[n] THEN [wires[j] EXCEPT !.broken = TRUE] ELSE wires[j]]
          /\ peers' = [peers EXCEPT ![n] = k]
      BY <1>2, <2>2 DEF AcceptAgent
    <3>2. \A j \in Wires : wires[j] \in WireStates
      BY DEF TerminalsTyped
    <3>3. \A j \in Wires : wires'[j] = IF j = k THEN [wires[k] EXCEPT !.handler = "runs"]
                         ELSE IF j = peers[n] THEN [wires[j] EXCEPT !.broken = TRUE] ELSE wires[j]
      BY <3>1
    <3>4. wires' \in [Wires -> WireStates]
      <4>1. ASSUME NEW j \in Wires PROVE wires'[j] \in WireStates
        <5>1. [wires[j] EXCEPT !.handler = "runs"] \in WireStates
          BY <3>2 DEF WireStates
        <5>2. [wires[j] EXCEPT !.broken = TRUE] \in WireStates
          BY <3>2 DEF WireStates
        <5> QED
          BY <3>2, <3>3, <5>1, <5>2
      <4> QED
        BY <3>1, <4>1
    <3>5. \A j \in Wires :
           /\ wires'[j].node = wires[j].node /\ wires'[j].edge = wires[j].edge
           /\ wires'[j].down = wires[j].down
           /\ wires[j].broken => wires'[j].broken
           /\ j # k => wires'[j].handler = wires[j].handler
           /\ j # k /\ j = peers[n] => wires'[j].broken
      <4> TAKE j \in Wires
      <4>1. CASE j = k
        <5>1. wires'[j] = [wires[j] EXCEPT !.handler = "runs"] /\ wires[j] \in WireStates
          BY <3>2, <3>3, <4>1
        <5> QED
          BY <4>1, <5>1 DEF WireStates
      <4>2. CASE j # k /\ j = peers[n]
        <5>1. wires'[j] = [wires[j] EXCEPT !.broken = TRUE]
          BY <3>3, <4>2
        <5> QED
          BY <3>2, <4>2, <5>1, WireBreaks
      <4>3. CASE j # k /\ j # peers[n]
        <5>1. wires'[j] = wires[j]
          BY <3>3, <4>3
        <5> QED
          BY <4>3, <5>1
      <4> QED
        BY <4>1, <4>2, <4>3
    <3>6. wires'[k].handler = "runs"
      <4>1. wires'[k] = [wires[k] EXCEPT !.handler = "runs"] /\ wires[k] \in WireStates
        BY <3>2, <3>3
      <4> QED
        BY <4>1 DEF WireStates
    <3> QED
      BY <3>1, <3>4, <3>5, <3>6
  <2> QED
    BY <2>1, <2>2
<1>5. peers' \in [Consoles -> Wires \union {0}] /\ \A m \in Consoles : m # n => peers'[m] = peers[m]
  BY <1>4 DEF TerminalsTyped
<1>6. TerminalsTyped'
  BY <1>1, <1>4, <1>5 DEF AcceptAgent, TerminalsTyped
<1>7. RowsFollowSessions'
  BY <1>1 DEF RowsFollowSessions, OpenRow
<1>8. SessionsPlaced'
  BY <1>1, <1>3, <1>4 DEF SessionsPlaced, InHub
<1>9. \A s \in Terminals : live[s].at = "run" => live[s].peer \in Wires /\ live[s].peer # k
  BY <1>3, <1>4 DEF SessionsPlaced, InHub
<1>10. \A m \in Consoles : wires'[k].handler = "runs" /\ m = n => peers'[m] = k
  BY <1>4 DEF TerminalsTyped
<1>11. \A j \in Wires : wires'[j].handler = "runs" => wires'[j].broken \/ peers'[wires'[j].node] = j
  <2> SUFFICES ASSUME NEW j \in Wires, wires'[j].handler = "runs", ~wires'[j].broken
               PROVE  peers'[wires[j].node] = j
    BY <1>4
  <2>1. CASE j = k
    BY <1>2, <1>10, <2>1
  <2>2. CASE j # k
    <3>1. /\ wires[j].handler = "runs" /\ peers[wires[j].node] = j /\ wires[j].node \in Consoles
      BY <1>4, <2>2 DEF PeersPlaced, PeersKnown, TerminalsTyped, WireStates
    <3>2. CASE peers' = peers
      BY <3>1, <3>2
    <3>3. CASE peers' = [peers EXCEPT ![n] = k] /\ \A i \in Wires : i # k /\ i = peers[n] => wires'[i].broken
      BY <1>5, <2>2, <3>1, <3>3
    <3> QED
      BY <1>4, <3>2, <3>3
  <2> QED
    BY <2>1, <2>2
<1>12. \A s \in Terminals : live'[s].at = "run" /\ wires'[live'[s].peer].handler = "ended" => live'[s].stop
  BY <1>1, <1>4, <1>9 DEF PeersPlaced, PeersKnown
<1>13. \A m \in Consoles : peers'[m] # 0 => wires'[peers'[m]].handler = "runs" /\ wires'[peers'[m]].node = m
  <2> SUFFICES ASSUME NEW m \in Consoles, peers'[m] # 0
               PROVE  wires'[peers'[m]].handler = "runs" /\ wires'[peers'[m]].node = m
    OBVIOUS
  <2>1. CASE peers'[m] = peers[m]
    BY <1>3, <1>4, <2>1 DEF PeersPlaced, TerminalsTyped
  <2>2. CASE peers'[m] # peers[m]
    <3>1. m = n /\ peers'[m] = k /\ wires'[k].handler = "runs"
      BY <1>4, <1>5, <1>10, <2>2 DEF TerminalsTyped
    <3> QED
      BY <1>2, <3>1, <1>4
  <2> QED
    BY <2>1, <2>2
<1>14. PeersPlaced'
  BY <1>2, <1>4, <1>11, <1>12, <1>13 DEF PeersPlaced, PeersKnown, AcceptAgent
<1>15. WiresGoOn /\ ShellsGoOn
  BY <1>1, <1>4 DEF WiresGoOn, ShellsGoOn, OnEdge
<1> QED
  BY <1>1, <1>6, <1>7, <1>8, <1>14, <1>15, SessionsUntouched, QueuesGoOn DEF QueuesInv

LEMMA AgentGoneKeeps == ASSUME TerminalInv, NEW k \in Wires, AgentGone(k) PROVE TerminalInv'
<1> USE DEF TerminalInv
<1>1. /\ wires' = [wires EXCEPT ![k] = [wires[k] EXCEPT !.handler = "ended"]] /\ shell' = shell
      /\ wires[k].handler = "runs" /\ audit' = audit /\ unrecorded' = unrecorded /\ cutShort' = cutShort
  BY DEF AgentGone
<1>2. /\ wires' \in [Wires -> WireStates]
      /\ \A j \in Wires : /\ wires'[j].node = wires[j].node /\ wires'[j].edge = wires[j].edge
                          /\ wires'[j].down = wires[j].down /\ wires'[j].broken = wires[j].broken
                          /\ wires'[j].handler = IF j = k THEN "ended" ELSE wires[j].handler
  BY <1>1 DEF TerminalsTyped, WireStates
<1>3. /\ peers' \in [Consoles -> Wires \union {0}]
      /\ \A n \in Consoles : peers'[n] = IF peers[n] = k THEN 0 ELSE peers[n]
  BY DEF AgentGone, WithoutPeer, TerminalsTyped
<1>4. /\ live' \in [Terminals -> Lives]
      /\ \A s \in Terminals :
           /\ live'[s].at = live[s].at /\ live'[s].node = live[s].node /\ live'[s].peer = live[s].peer
           /\ live'[s].browser = live[s].browser /\ (live[s].stop => live'[s].stop)
           /\ InHub(s) /\ live[s].peer = k => live'[s].stop
  <2>1. \A s \in Terminals : live'[s] = IF InHub(s) /\ live[s].peer = k THEN [live[s] EXCEPT !.stop = TRUE]
                                        ELSE live[s]
    BY DEF AgentGone, ToldSessions
  <2>2. \A r \in Lives : LET asked == [r EXCEPT !.stop = TRUE] IN
          /\ asked \in Lives /\ asked.stop /\ asked.at = r.at /\ asked.node = r.node
          /\ asked.peer = r.peer /\ asked.browser = r.browser
    BY DEF Lives
  <2>3. \A s \in Terminals : live[s] \in Lives
    BY DEF TerminalsTyped
  <2>4. live' \in [Terminals -> Lives]
    BY <2>1, <2>2, <2>3 DEF AgentGone, ToldSessions
  <2> QED
    BY <2>1, <2>2, <2>3, <2>4
<1>5. TerminalsTyped'
  BY <1>2, <1>3, <1>4 DEF AgentGone, TerminalsTyped
<1>6. RowsFollowSessions'
  BY <1>1, <1>4 DEF RowsFollowSessions, OpenRow
<1>7. SessionsPlaced'
  BY <1>2, <1>4 DEF SessionsPlaced, InHub
<1>8. \A j \in Wires : wires'[j].handler = "runs" => wires'[j].broken \/ peers'[wires'[j].node] = j
  <2> SUFFICES ASSUME NEW j \in Wires, wires'[j].handler = "runs", ~wires[j].broken
               PROVE  peers'[wires[j].node] = j
    BY <1>2
  <2>1. j # k /\ wires[j].handler = "runs"
    BY <1>2
  <2>2. wires[j].node \in Consoles /\ peers[wires[j].node] = j
    BY <2>1 DEF PeersPlaced, PeersKnown, TerminalsTyped, WireStates
  <2> QED
    BY <1>3, <2>1, <2>2
<1>9. \A s \in Terminals : live'[s].at = "run" /\ wires'[live'[s].peer].handler = "ended" => live'[s].stop
  BY <1>2, <1>4 DEF PeersPlaced, PeersKnown, SessionsPlaced, InHub
<1>10. PeersPlaced'
  BY <1>1, <1>2, <1>3, <1>8, <1>9 DEF PeersPlaced, PeersKnown, TerminalsTyped
<1>11. SessionsGoOn /\ SessionsStay
  BY <1>4 DEF SessionsGoOn, SessionsStay, SessionsPlaced
<1>12. WiresGoOn /\ ShellsGoOn
  BY <1>1, <1>2 DEF WiresGoOn, ShellsGoOn, OnEdge
<1> QED
  BY <1>5, <1>6, <1>7, <1>10, <1>11, <1>12, QueuesGoOn DEF QueuesInv

LEMMA RestartTerminalsKeeps == ASSUME TerminalInv, RestartTerminals PROVE TerminalInv'
<1> USE TerminalAssumption DEF TerminalInv
<1>1. /\ live' \in [Terminals -> Lives]
      /\ \A s \in Terminals : live'[s].at \in {"none", "gone"} /\ live'[s].browser = live[s].browser
                              /\ (live'[s].at = "none" => live[s].at = "none")
  <2>1. \A s \in Terminals : live'[s] = IF InHub(s) THEN [live[s] EXCEPT !.at = "gone"] ELSE live[s]
    BY DEF RestartTerminals
  <2>2. \A r \in Lives : LET gone == [r EXCEPT !.at = "gone"] IN
          gone \in Lives /\ gone.at = "gone" /\ gone.browser = r.browser
    BY DEF Lives
  <2>3. \A s \in Terminals : live[s] \in Lives
    BY DEF TerminalsTyped
  <2>4. live' \in [Terminals -> Lives]
    BY <2>1, <2>2, <2>3 DEF RestartTerminals
  <2> QED
    BY <2>1, <2>2, <2>3, <2>4 DEF InHub
<1>2. /\ wires' \in [Wires -> WireStates]
      /\ \A j \in Wires : /\ wires'[j].node = wires[j].node /\ wires'[j].edge = wires[j].edge
                          /\ wires'[j].down = wires[j].down /\ (wires[j].broken => wires'[j].broken)
                          /\ wires[j].node = "none" => wires'[j].handler = wires[j].handler
                          /\ wires[j].node # "none" => wires'[j].broken /\ wires'[j].handler = "ended"
  <2>1. \A j \in Wires : wires'[j] = IF wires[j].node = "none" THEN wires[j]
                                     ELSE [wires[j] EXCEPT !.broken = TRUE, !.handler = "ended"]
    BY DEF RestartTerminals
  <2>2. \A w \in WireStates : LET v == [w EXCEPT !.broken = TRUE, !.handler = "ended"] IN
          /\ v \in WireStates /\ v.node = w.node /\ v.edge = w.edge /\ v.down = w.down
          /\ v.broken /\ v.handler = "ended"
    BY DEF WireStates
  <2>3. \A j \in Wires : wires[j] \in WireStates
    BY DEF TerminalsTyped
  <2>4. \A j \in Wires : wires'[j] \in WireStates
    BY <2>1, <2>2, <2>3
  <2>5. wires' \in [Wires -> WireStates]
    BY <2>4 DEF RestartTerminals
  <2> QED
    BY <2>1, <2>2, <2>3, <2>5
<1>3. /\ audit' \in [Terminals -> AuditRows] /\ \A s \in Terminals : ~OpenRow(s)'
  BY DEF RestartTerminals, RecoveredRows, OpenRow, TerminalsTyped, AuditRows
<1>4. peers' = [n \in Consoles |-> 0] /\ hubClosed' = FALSE /\ unrecorded' = {}
      /\ shell' = shell /\ cutShort' = cutShort /\ refused' = refused
  BY DEF RestartTerminals
<1>5. TerminalsTyped'
  BY <1>1, <1>2, <1>3, <1>4 DEF TerminalsTyped
<1>6. RowsFollowSessions'
  BY <1>1, <1>3 DEF RowsFollowSessions
<1>7. SessionsPlaced'
  BY <1>1 DEF SessionsPlaced, InHub
<1>8. PeersPlaced'
  BY <1>1, <1>2, <1>4 DEF PeersPlaced, PeersKnown
<1>9. \A s \in Terminals, k \in Wires : SessionOn(k, s) => wires'[k].broken
  BY <1>2 DEF SessionOn, SessionsPlaced, InHub
<1>10. QueuesInv'
  BY <1>1, <1>2, <1>4, <1>9, QueuesKept DEF OnEdge
<1> QED
  BY <1>5, <1>6, <1>7, <1>8, <1>10 DEF QueuesInv

LEMMA HangUpKeeps ==
  ASSUME TerminalInv, NEW n \in Consoles, NEW k \in Wires, HangUp(n, k) PROVE TerminalInv'
<1> USE DEF TerminalInv
<1>1. live' = live /\ audit' = audit /\ peers' = peers
  BY DEF HangUp
<1>2. wires' = [wires EXCEPT ![k] = [wires[k] EXCEPT !.edge = FALSE]] /\ OnEdge(n, k)
  BY DEF HangUp
<1>3. /\ wires' \in [Wires -> WireStates] /\ HandlersStay /\ WiresGoOn
      /\ \A j \in Wires : j # k => wires'[j] = wires[j]
  BY <1>2 DEF TerminalsTyped, WireStates, HandlersStay, WiresGoOn
<1>4. shell' \in [Consoles -> Shells] /\ shell'[n].at = "none" /\ \A m \in Consoles : m # n => shell'[m] = shell[m]
  BY DEF HangUp, NoShell, TerminalsTyped, Shells
<1>5. ShellsGoOn
  BY <1>2, <1>3, <1>4 DEF ShellsGoOn, OnEdge
<1>6. TerminalsTyped'
  BY <1>1, <1>3, <1>4 DEF HangUp, TerminalsTyped
<1>7. RowsFollowSessions'
  BY <1>1 DEF HangUp, RowsFollowSessions, OpenRow
<1> QED
  BY <1>1, <1>3, <1>5, <1>6, <1>7, SessionsUntouched, PlacesKept, QueuesGoOn DEF QueuesInv

LEMMA DialKeeps ==
  ASSUME TerminalInv, NEW n \in Consoles, NEW k \in Wires, Dial(n, k) PROVE TerminalInv'
<1> USE TerminalAssumption DEF TerminalInv
<1>1. live' = live /\ audit' = audit /\ peers' = peers /\ shell' = shell
  BY DEF Dial
<1>2. /\ wires[k].node = "none" /\ wires[k].handler = "none" /\ ~wires[k].edge
      /\ \A j \in Wires : ~OnEdge(n, j)
  BY DEF Dial, NoWire
<1> DEFINE new == [NoWire EXCEPT !.node = n, !.edge = TRUE]
<1>3. /\ new \in WireStates /\ new.node = n /\ new.edge /\ new.handler = "none" /\ new.down = <<>>
      /\ ~new.broken
  <2>1. <<>> \in Seq(WireMessages)
    OBVIOUS
  <2>2. NoWire \in WireStates
    BY <2>1 DEF NoWire, WireStates
  <2>3. NoWire.handler = "none" /\ NoWire.down = <<>> /\ ~NoWire.broken
    BY DEF NoWire
  <2> QED
    BY <2>2, <2>3 DEF WireStates
<1>4. wires' = [wires EXCEPT ![k] = new]
  BY DEF Dial
<1> HIDE DEF new
<1>5. /\ wires' \in [Wires -> WireStates] /\ wires'[k] = new
      /\ \A j \in Wires : j # k => wires'[j] = wires[j]
  BY <1>3, <1>4 DEF TerminalsTyped
<1>6. TerminalsTyped'
  BY <1>1, <1>5 DEF Dial, TerminalsTyped
<1>7. RowsFollowSessions'
  BY <1>1 DEF Dial, RowsFollowSessions, OpenRow
<1>8. SessionsPlaced'
  BY <1>1, <1>2, <1>5 DEF SessionsPlaced, InHub
<1>9. PeersPlaced'
  <2>1. \A s \in Terminals : live[s].at = "run" => live[s].peer # k /\ live[s].peer \in Wires
    BY <1>2 DEF SessionsPlaced, InHub
  <2> QED
    BY <1>1, <1>2, <1>3, <1>5, <2>1 DEF PeersPlaced, PeersKnown, TerminalsTyped
<1>10. \A m \in Consoles, j \in Wires : j # k => (OnEdge(m, j)' <=> OnEdge(m, j))
  BY <1>5 DEF OnEdge
<1>11. \A m \in Consoles : OnEdge(m, k)' <=> m = n
  BY <1>3, <1>5 DEF OnEdge
<1>12. shell[n].at = "none"
  BY <1>2 DEF EdgesPlaced
<1>13. Len(wires'[k].down) = 0
  BY <1>3, <1>5
<1>14. \A j \in Wires : \A i, kind, s : j # k => (Sent(j, i, kind, s)' <=> Sent(j, i, kind, s))
  BY <1>5 DEF Sent, Message
<1>15. \A j \in Wires : \A s : SessionOn(j, s)' <=> SessionOn(j, s)
  BY <1>1 DEF SessionOn
<1> HIDE DEF OnEdge, Sent, SessionOn
<1>17. EdgesPlaced'
  <2>1. \A m \in Consoles, i, j \in Wires : OnEdge(m, i)' /\ OnEdge(m, j)' => i = j
    BY <1>2, <1>10, <1>11 DEF EdgesPlaced
  <2>2. \A m \in Consoles : shell[m].at # "none" =>
          shell[m].id \in Terminals /\ \E j \in Wires : OnEdge(m, j)'
    <3> SUFFICES ASSUME NEW m \in Consoles, shell[m].at # "none"
                 PROVE  shell[m].id \in Terminals /\ \E j \in Wires : OnEdge(m, j)'
      OBVIOUS
    <3>1. shell[m].id \in Terminals
      BY DEF EdgesPlaced
    <3>2. PICK j \in Wires : OnEdge(m, j)
      BY DEF EdgesPlaced
    <3>3. j # k
      BY <1>2, <3>2 DEF OnEdge
    <3> QED
      BY <1>10, <3>1, <3>2, <3>3
  <2> QED
    BY <1>1, <2>1, <2>2 DEF EdgesPlaced
<1>18. StartsAttached'
  <2>1. ASSUME NEW j \in Wires, NEW s \in Terminals, NEW i \in 1..Len(wires'[j].down), Sent(j, i, "start", s)'
        PROVE  live[s].browser = "attached"
    <3>1. j # k
      BY <1>13
    <3> QED
      BY <1>5, <1>14, <2>1, <3>1 DEF StartsAttached
  <2> QED
    BY <1>1, <2>1 DEF StartsAttached
<1>19. StartsClosed'
  <2> SUFFICES ASSUME NEW j \in Wires, NEW s \in Terminals, NEW i \in 1..Len(wires'[j].down),
                      Sent(j, i, "start", s)'
               PROVE  \/ wires'[j].broken \/ SessionOn(j, s)'
                      \/ \E l \in 1..Len(wires'[j].down) : i < l /\ Sent(j, l, "close", s)'
    BY DEF StartsClosed
  <2>1. j # k
    BY <1>13
  <2> QED
    BY <1>5, <1>14, <1>15, <2>1 DEF StartsClosed
<1>20. StartsOrdered'
  <2> SUFFICES ASSUME NEW j \in Wires, NEW s \in Terminals, NEW t \in Terminals,
                      NEW i \in 1..Len(wires'[j].down), NEW m \in 1..Len(wires'[j].down),
                      i < m, Sent(j, i, "start", s)', Sent(j, m, "start", t)'
               PROVE  \E l \in 1..Len(wires'[j].down) : i < l /\ l < m /\ Sent(j, l, "close", s)'
    BY DEF StartsOrdered
  <2>1. j # k
    BY <1>13
  <2> QED
    BY <1>5, <1>14, <2>1 DEF StartsOrdered
<1>21. ShellClosedFirst'
  <2> SUFFICES ASSUME NEW m \in Consoles, NEW j \in Wires, NEW t \in Terminals,
                      NEW i \in 1..Len(wires'[j].down), OnEdge(m, j)', shell[m].at # "none",
                      Sent(j, i, "start", t)'
               PROVE  \E l \in 1..Len(wires'[j].down) : l < i /\ wires'[j].down[l] = Message("close", shell[m].id)
    BY <1>1 DEF ShellClosedFirst, Sent
  <2>1. j # k
    BY <1>13
  <2>2. \E l \in 1..Len(wires[j].down) : l < i /\ Sent(j, l, "close", shell[m].id)
    BY <1>5, <1>10, <1>14, <2>1 DEF ShellClosedFirst
  <2> QED
    BY <1>5, <2>1, <2>2 DEF Sent
<1>22. ShellsFollow'
  <2> SUFFICES ASSUME NEW m \in Consoles, NEW j \in Wires, OnEdge(m, j)', shell[m].at # "none"
               PROVE  \/ wires'[j].broken \/ SessionOn(j, shell[m].id)
                      \/ \E l \in 1..Len(wires'[j].down) : wires'[j].down[l] = Message("close", shell[m].id)
    BY <1>1 DEF ShellsFollow, Sent, SessionOn
  <2>1. j # k
    BY <1>11, <1>12
  <2>2. \/ wires[j].broken \/ SessionOn(j, shell[m].id)
        \/ \E l \in 1..Len(wires[j].down) : Sent(j, l, "close", shell[m].id)
    BY <1>10, <2>1 DEF ShellsFollow
  <2> QED
    BY <1>5, <2>1, <2>2 DEF Sent
<1> QED
  BY <1>6, <1>7, <1>8, <1>9, <1>17, <1>18, <1>19, <1>20, <1>21, <1>22 DEF QueuesInv

\* What an agent says is put at the end of what is under way to the controller.
LEMMA ShellSaysKeeps ==
  ASSUME TerminalInv, NEW n \in Consoles, NEW k \in Wires, NEW from \in {"starting", "open", "leaving"},
         NEW to \in {"starting", "open", "leaving"}, NEW kind \in {"ready", "output", "exit"},
         ShellSays(n, k, from, to, kind)
  PROVE  TerminalInv'
<1> USE DEF TerminalInv
<1>1. live' = live /\ audit' = audit /\ peers' = peers /\ shell[n].at # "none" /\ shell[n].id \in Terminals
  BY DEF ShellSays, EdgesPlaced
<1> DEFINE queue == Append(wires[k].up, Message(kind, shell[n].id))
<1>2. wires[k].up \in Seq(WireMessages) /\ Message(kind, shell[n].id) \in WireMessages
  BY <1>1 DEF TerminalsTyped, WireStates, WireMessages, Message
<1>3. queue \in Seq(WireMessages)
  BY <1>2, AppendProperties
<1>4. wires' = wires \/ wires' = [wires EXCEPT ![k] = [wires[k] EXCEPT !.up = queue]]
  BY DEF ShellSays, SentUp, TerminalsTyped, WireStates
<1> HIDE DEF queue
<1>5. /\ wires' \in [Wires -> WireStates]
      /\ \A j \in Wires :
           /\ wires'[j].node = wires[j].node /\ wires'[j].edge = wires[j].edge
           /\ wires'[j].down = wires[j].down /\ wires'[j].broken = wires[j].broken
           /\ wires'[j].handler = wires[j].handler
  <2> DEFINE wire == [wires[k] EXCEPT !.up = queue]
  <2>1. /\ wire \in WireStates /\ wire.node = wires[k].node /\ wire.edge = wires[k].edge
        /\ wire.down = wires[k].down /\ wire.broken = wires[k].broken
        /\ wire.handler = wires[k].handler
    BY <1>3 DEF TerminalsTyped, WireStates
  <2>2. wires' = wires \/ wires' = [wires EXCEPT ![k] = wire]
    BY <1>4
  <2> HIDE DEF wire
  <2>3. CASE wires' = wires
    BY <2>3 DEF TerminalsTyped
  <2>4. CASE wires' = [wires EXCEPT ![k] = wire]
    BY <2>1, <2>4 DEF TerminalsTyped
  <2> QED
    BY <2>2, <2>3, <2>4
<1>6. /\ shell' \in [Consoles -> Shells]
      /\ \A m \in Consoles : /\ shell'[m].id = shell[m].id
                             /\ shell'[m].at # "none" => shell[m].at # "none"
  <2>1. shell' = [shell EXCEPT ![n] = [shell[n] EXCEPT !.at = to]]
    BY DEF ShellSays
  <2> QED
    BY <1>1, <2>1 DEF TerminalsTyped, Shells
<1>7. HandlersStay /\ WiresGoOn /\ ShellsGoOn
  BY <1>5, <1>6 DEF HandlersStay, WiresGoOn, ShellsGoOn, OnEdge
<1>8. TerminalsTyped'
  BY <1>1, <1>5, <1>6 DEF ShellSays, TerminalsTyped
<1>9. RowsFollowSessions'
  BY <1>1 DEF ShellSays, RowsFollowSessions, OpenRow
<1> QED
  BY <1>1, <1>7, <1>8, <1>9, SessionsUntouched, PlacesKept, QueuesGoOn DEF QueuesInv

LEMMA ShellStepsKeeps ==
  ASSUME TerminalInv, NEW n \in Consoles, NEW k \in Wires, ShellSteps(n, k) PROVE TerminalInv'
<1>1. CASE ShellSays(n, k, "starting", "open", "ready")
  BY <1>1, ShellSaysKeeps
<1>2. CASE ShellSays(n, k, "open", "open", "output")
  BY <1>2, ShellSaysKeeps
<1>3. CASE ShellSays(n, k, "leaving", "leaving", "output")
  BY <1>3, ShellSaysKeeps
<1>4. CASE ShellSays(n, k, "open", "leaving", "exit")
  BY <1>4, ShellSaysKeeps
<1> QED
  BY <1>1, <1>2, <1>3, <1>4 DEF ShellSteps

\* Nothing is sent on a broken connection.
LEMMA SendingWrites ==
  ASSUME TerminalInv, NEW k \in Wires, NEW kind \in {"start", "close", "input"}, NEW s \in Terminals,
         wires' = SentDown(k, Message(kind, s))
  PROVE  /\ wires' \in [Wires -> WireStates] /\ HandlersStay
         /\ wires[k].broken => wires' = wires /\ WiresGoOn
         /\ ~wires[k].broken => wires' = [wires EXCEPT ![k].down = Append(@, Message(kind, s))]
<1> USE DEF TerminalInv
<1>1. CASE wires[k].broken
  <2>1. wires' = [wires EXCEPT ![k] = [wires[k] EXCEPT !.down = wires[k].down]]
    BY <1>1 DEF SentDown
  <2>2. [wires[k] EXCEPT !.down = wires[k].down] = wires[k]
    BY DEF TerminalsTyped, WireStates
  <2>3. wires' = wires
    BY <2>1, <2>2 DEF TerminalsTyped
  <2> QED
    BY <1>1, <2>3 DEF TerminalsTyped, HandlersStay, WiresGoOn
<1>2. CASE ~wires[k].broken
  <2>1. wires' = [wires EXCEPT ![k].down = Append(@, Message(kind, s))]
    BY <1>2 DEF SentDown
  <2> QED
    BY <1>2, <2>1, Appended DEF TerminalsTyped, HandlersStay
<1> QED
  BY <1>1, <1>2

LEMMA TakeBrowserKeeps == ASSUME TerminalInv, NEW s \in Terminals, TakeBrowser(s) PROVE TerminalInv'
<1> USE DEF TerminalInv
<1>1. PICK k \in Wires : k = live[s].peer /\ SessionOn(k, s)
  BY DEF TakeBrowser, SessionsPlaced, InHub, SessionOn
<1>2. /\ audit' = audit /\ peers' = peers /\ shell' = shell /\ unrecorded' = unrecorded /\ cutShort' = cutShort
      /\ live[s].at = "run" /\ live[s].browser = "waiting"
      /\ \/ wires' = SentDown(k, Message("start", s)) \/ (wires[k].broken /\ wires' = wires)
  BY <1>1 DEF TakeBrowser
<1>3. PICK at \in {"run", "close"} : live' = [live EXCEPT ![s] = [live[s] EXCEPT !.at = at, !.browser = "attached"]]
  <2>1. CASE live' = [live EXCEPT ![s].browser = "attached"]
    <3>1. [live[s] EXCEPT !.browser = "attached"] = [live[s] EXCEPT !.at = "run", !.browser = "attached"]
      BY <1>2 DEF TerminalsTyped, Lives
    <3> QED
      BY <2>1, <3>1
  <2>2. CASE live' = [live EXCEPT ![s].at = "close", ![s].browser = "attached"]
    BY <2>2 DEF TerminalsTyped
  <2> QED
    BY <2>1, <2>2 DEF TakeBrowser
<1> DEFINE mine == [live[s] EXCEPT !.at = at, !.browser = "attached"]
<1>4. /\ mine \in Lives /\ mine.at = at /\ mine.browser = "attached" /\ mine.node = live[s].node
      /\ mine.peer = live[s].peer /\ mine.stop = live[s].stop
  BY DEF TerminalsTyped, Lives
<1>5. live' = [live EXCEPT ![s] = mine]
  BY <1>3
<1> HIDE DEF mine
<1>6. live' \in [Terminals -> Lives] /\ \A t \in Terminals : live'[t] = IF t = s THEN mine ELSE live[t]
  BY <1>4, <1>5 DEF TerminalsTyped
<1>7. SessionsGoOn /\ SessionsStay
  BY <1>2, <1>4, <1>6 DEF SessionsGoOn, SessionsStay, SessionsPlaced
<1>8. wires' \in [Wires -> WireStates] /\ HandlersStay /\ (wires[k].broken => WiresGoOn)
  BY <1>2, SendingWrites DEF TerminalsTyped, HandlersStay, WiresGoOn
<1>9. TerminalsTyped'
  BY <1>2, <1>6, <1>8 DEF TakeBrowser, TerminalsTyped
<1>10. RowsFollowSessions'
  BY <1>2, <1>4, <1>6 DEF RowsFollowSessions, OpenRow
<1>11. QueuesInv'
  <2>1. CASE wires[k].broken
    <3>1. ShellsGoOn
      BY <1>2, <1>8, <2>1, SendingWrites DEF ShellsGoOn, OnEdge
    <3> QED
      BY <1>7, <1>8, <2>1, <3>1, QueuesGoOn
  <2>2. CASE ~wires[k].broken
    <3>1. wires' = [wires EXCEPT ![k].down = Append(@, Message("start", s))]
      BY <1>2, <2>2, SendingWrites
    <3>2. \A t \in Terminals, j \in Wires : SessionOn(j, t) => SessionOn(j, t)'
      BY <1>7 DEF SessionOn, SessionsGoOn, SessionsStay
    <3>3. \A t \in Terminals : live[t].browser = "attached" => live'[t].browser = "attached"
      BY <1>7 DEF SessionsGoOn
    <3>4. SessionOn(k, s)' /\ live[s].browser # "attached" /\ live'[s].browser = "attached"
      BY <1>1, <1>2, <1>4, <1>6, <3>2
    <3> QED
      BY <1>1, <1>2, <2>2, <3>1, <3>2, <3>3, <3>4, SendingKeepsQueues
  <2> QED
    BY <2>1, <2>2
<1> QED
  BY <1>2, <1>7, <1>8, <1>9, <1>10, <1>11, PlacesKept DEF QueuesInv

LEMMA ForwardInputKeeps ==
  ASSUME TerminalInv, NEW s \in Terminals, ForwardInput(s)
  PROVE  TerminalInv'
<1> USE DEF TerminalInv
<1>1. PICK k \in Wires : k = live[s].peer
  BY DEF ForwardInput, SessionsPlaced, InHub
<1>2. /\ audit' = audit /\ live' = live /\ peers' = peers /\ shell' = shell /\ unrecorded' = unrecorded
      /\ cutShort' = cutShort /\ wires' = SentDown(k, Message("input", s))
  BY <1>1 DEF ForwardInput
<1>3. wires' \in [Wires -> WireStates] /\ HandlersStay /\ (wires[k].broken => wires' = wires /\ WiresGoOn)
  BY <1>2, SendingWrites
<1>4. TerminalsTyped'
  BY <1>2, <1>3 DEF ForwardInput, TerminalsTyped
<1>5. RowsFollowSessions'
  BY <1>2 DEF RowsFollowSessions, OpenRow
<1>6. QueuesInv'
  <2>1. CASE wires[k].broken
    <3>1. ShellsGoOn
      BY <1>2, <1>3, <2>1 DEF ShellsGoOn, OnEdge
    <3> QED
      BY <1>2, <1>3, <2>1, <3>1, SessionsUntouched, QueuesGoOn
  <2>2. CASE ~wires[k].broken
    <3>1. wires' = [wires EXCEPT ![k].down = Append(@, Message("input", s))]
      BY <1>2, <2>2, SendingWrites
    <3>2. \A t \in Terminals, j \in Wires : SessionOn(j, t) => SessionOn(j, t)'
      BY <1>2 DEF SessionOn
    <3>3. \A t \in Terminals : live[t].browser = "attached" => live'[t].browser = "attached"
      BY <1>2
    <3> QED
      BY <1>2, <2>2, <3>1, <3>2, <3>3, SendingKeepsQueues
  <2> QED
    BY <2>1, <2>2
<1> QED
  BY <1>2, <1>3, <1>4, <1>5, <1>6, SessionsUntouched, PlacesKept DEF QueuesInv

LEMMA SendCloseKeeps == ASSUME TerminalInv, NEW s \in Terminals, SendClose(s) PROVE TerminalInv'
<1> USE DEF TerminalInv
<1>1. PICK k \in Wires : k = live[s].peer
  BY DEF SendClose, SessionsPlaced, InHub
<1>2. /\ audit' = audit /\ peers' = peers /\ shell' = shell /\ unrecorded' = unrecorded
      /\ cutShort' = cutShort /\ wires' = SentDown(k, Message("close", s)) /\ live[s].at = "close"
  BY <1>1 DEF SendClose
<1> DEFINE mine == [live[s] EXCEPT !.at = "record"]
<1>3. /\ mine \in Lives /\ mine.at = "record" /\ mine.browser = live[s].browser /\ mine.node = live[s].node
      /\ mine.peer = live[s].peer /\ mine.stop = live[s].stop
  BY DEF TerminalsTyped, Lives
<1>4. live' = [live EXCEPT ![s] = mine]
  BY DEF SendClose
<1> HIDE DEF mine
<1>5. live' \in [Terminals -> Lives] /\ \A t \in Terminals : live'[t] = IF t = s THEN mine ELSE live[t]
  BY <1>3, <1>4 DEF TerminalsTyped
<1>6. SessionsGoOn
  BY <1>2, <1>3, <1>5 DEF SessionsGoOn, SessionsPlaced
<1>7. wires' \in [Wires -> WireStates] /\ HandlersStay /\ (wires[k].broken => wires' = wires)
  BY <1>2, SendingWrites
<1>8. TerminalsTyped'
  BY <1>2, <1>5, <1>7 DEF SendClose, TerminalsTyped
<1>9. RowsFollowSessions'
  BY <1>2, <1>3, <1>5 DEF RowsFollowSessions, OpenRow
<1>10. \A t \in Terminals, j \in Wires : SessionOn(j, t) => SessionOn(j, t)' \/ (t = s /\ j = k)
  BY <1>1, <1>5 DEF SessionOn
<1>11. \A t \in Terminals : live[t].browser = "attached" => live'[t].browser = "attached"
  BY <1>6 DEF SessionsGoOn
<1>12. QueuesInv'
  <2>1. CASE wires[k].broken
    <3>1. \A t \in Terminals, j \in Wires : SessionOn(j, t) => SessionOn(j, t)' \/ wires'[j].broken
      BY <1>7, <1>10, <2>1
    <3> QED
      BY <1>2, <1>7, <1>11, <2>1, <3>1, QueuesKept DEF OnEdge
  <2>2. CASE ~wires[k].broken
    <3>1. wires' = [wires EXCEPT ![k].down = Append(@, Message("close", s))]
      BY <1>2, <2>2, SendingWrites
    <3> QED
      BY <1>2, <1>10, <1>11, <2>2, <3>1, SendingKeepsQueues
  <2> QED
    BY <2>1, <2>2
<1> QED
  BY <1>2, <1>6, <1>7, <1>8, <1>9, <1>12, PlacesKept DEF QueuesInv

\* What a session makes of what the agent says.
LEMMA ReadyMoves ==
  ASSUME TerminalInv, NEW s \in Terminals, live[s].at = "run", Ready(s)
  PROVE  /\ \E at \in {"run", "close"}, started \in BOOLEAN :
              live' = [live EXCEPT ![s] = [live[s] EXCEPT !.at = at, !.started = started]]
         /\ \/ audit' = audit
            \/ audit' = [audit EXCEPT ![s].status = IF OpenRow(s) THEN "running" ELSE @]
<1> USE DEF TerminalInv
<1> DEFINE Moved(at, started) == [live[s] EXCEPT !.at = at, !.started = started]
<1>1. live[s] \in Lives
  BY DEF TerminalsTyped
<1>2. CASE live' = [live EXCEPT ![s].at = "close"]
  <2>1. [live[s] EXCEPT !.at = "close"] = Moved("close", live[s].started) /\ live[s].started \in BOOLEAN
    BY <1>1 DEF Lives
  <2> HIDE DEF Moved
  <2>2. live' = [live EXCEPT ![s] = Moved("close", live[s].started)]
    BY <1>2, <2>1
  <2> QED
    BY <2>1, <2>2 DEF Ready, Moved
<1>3. CASE live' = [live EXCEPT ![s].started = TRUE]
  <2>1. [live[s] EXCEPT !.started = TRUE] = Moved("run", TRUE)
    BY <1>1 DEF Lives
  <2> HIDE DEF Moved
  <2>2. live' = [live EXCEPT ![s] = Moved("run", TRUE)]
    BY <1>3, <2>1
  <2> QED
    BY <2>2 DEF Ready, Moved
<1>4. CASE live' = [live EXCEPT ![s].at = "close", ![s].started = TRUE]
  <2>1. live' = [live EXCEPT ![s] = Moved("close", TRUE)]
    BY <1>4 DEF TerminalsTyped
  <2> HIDE DEF Moved
  <2> QED
    BY <2>1 DEF Ready, Moved
<1> QED
  BY <1>2, <1>3, <1>4 DEF Ready

LEMMA HearAgentMoves ==
  ASSUME TerminalInv, NEW k \in Wires, NEW s \in Terminals, s = Head(wires[k].up).id, HearAgent(k)
  PROVE  \/ live' = live /\ audit' = audit
         \/ /\ live[s].at = "run"
            /\ \E at \in {"run", "close"}, started \in BOOLEAN :
                 live' = [live EXCEPT ![s] = [live[s] EXCEPT !.at = at, !.started = started]]
            /\ \/ audit' = audit
               \/ audit' = [audit EXCEPT ![s].status = IF OpenRow(s) THEN "running" ELSE @]
<1> USE DEF TerminalInv
<1> DEFINE Moved(at, started) == [live[s] EXCEPT !.at = at, !.started = started]
<1>1. live[s] \in Lives
  BY DEF TerminalsTyped
<1>2. CASE ~(live[s].at = "run" /\ live[s].peer = k)
  BY <1>2 DEF HearAgent
<1>3. CASE live[s].at = "run" /\ Ready(s)
  BY <1>3, ReadyMoves
<1>4. CASE live[s].at = "run" /\ live' = [live EXCEPT ![s].at = "close"] /\ audit' = audit
  <2>1. [live[s] EXCEPT !.at = "close"] = Moved("close", live[s].started) /\ live[s].started \in BOOLEAN
    BY <1>1 DEF Lives
  <2> HIDE DEF Moved
  <2>2. live' = [live EXCEPT ![s] = Moved("close", live[s].started)]
    BY <1>4, <2>1
  <2> QED
    BY <1>4, <2>1, <2>2 DEF Moved
<1>5. CASE live[s].at = "run" /\ live' = live /\ audit' = audit
  BY <1>5
<1>6. ASSUME live[s].at = "run", audit' = audit,
             live' = [live EXCEPT ![s].at = IF live[s].browser = "attached" /\ live[s].started
                                            THEN @ ELSE "close"]
      PROVE  live' = live \/ live' = [live EXCEPT ![s].at = "close"]
  <2>1. CASE live[s].browser = "attached" /\ live[s].started
    <3>1. live' = [live EXCEPT ![s] = [live[s] EXCEPT !.at = live[s].at]]
      BY <1>6, <2>1
    <3>2. [live[s] EXCEPT !.at = live[s].at] = live[s]
      BY <1>1 DEF Lives
    <3> QED
      BY <3>1, <3>2 DEF TerminalsTyped
  <2>2. CASE ~(live[s].browser = "attached" /\ live[s].started)
    BY <1>6, <2>2
  <2> QED
    BY <2>1, <2>2
<1> HIDE DEF Moved
<1>7. live[s].at = "run" /\ live[s].peer = k =>
        \/ Ready(s)
        \/ live' = [live EXCEPT ![s].at = "close"] /\ audit' = audit
        \/ /\ live' = [live EXCEPT ![s].at = IF live[s].browser = "attached" /\ live[s].started
                                             THEN @ ELSE "close"]
           /\ audit' = audit
  BY DEF HearAgent
<1> QED
  BY <1>2, <1>3, <1>4, <1>5, <1>6, <1>7

LEMMA HearAgentKeeps == ASSUME TerminalInv, NEW k \in Wires, HearAgent(k) PROVE TerminalInv'
<1> USE DEF TerminalInv
<1>1. /\ wires[k].up # <<>> /\ peers' = peers /\ shell' = shell /\ unrecorded' = unrecorded
      /\ cutShort' = cutShort /\ hubClosed' = hubClosed /\ refused' = refused
      /\ wires' = [wires EXCEPT ![k] = [wires[k] EXCEPT !.up = Tail(wires[k].up)]]
  BY DEF HearAgent
<1>2. wires[k].up \in Seq(WireMessages)
  BY DEF TerminalsTyped, WireStates
<1>3. Head(wires[k].up) \in WireMessages /\ Tail(wires[k].up) \in Seq(WireMessages)
  <2> HIDE DEF WireMessages
  <2> QED
    BY <1>1, <1>2
<1>4. PICK s \in Terminals : s = Head(wires[k].up).id
  BY <1>3 DEF WireMessages
<1>5. /\ wires' \in [Wires -> WireStates]
      /\ \A j \in Wires :
           /\ wires'[j].node = wires[j].node /\ wires'[j].edge = wires[j].edge
           /\ wires'[j].down = wires[j].down /\ wires'[j].broken = wires[j].broken
           /\ wires'[j].handler = wires[j].handler
  <2> DEFINE rest == Tail(wires[k].up) wire == [wires[k] EXCEPT !.up = rest]
  <2>1. rest \in Seq(WireMessages) /\ wires' = [wires EXCEPT ![k] = wire]
    BY <1>1, <1>3
  <2> HIDE DEF rest
  <2>2. /\ wire \in WireStates /\ wire.node = wires[k].node /\ wire.edge = wires[k].edge
        /\ wire.down = wires[k].down /\ wire.broken = wires[k].broken
        /\ wire.handler = wires[k].handler
    BY <2>1 DEF TerminalsTyped, WireStates
  <2> HIDE DEF wire
  <2> QED
    BY <2>1, <2>2 DEF TerminalsTyped
<1>6. HandlersStay /\ WiresGoOn /\ ShellsGoOn
  BY <1>1, <1>5 DEF HandlersStay, WiresGoOn, ShellsGoOn, OnEdge
<1>7. CASE live' = live /\ audit' = audit
  <2>1. TerminalsTyped'
    BY <1>1, <1>5, <1>7 DEF TerminalsTyped
  <2>2. RowsFollowSessions'
    BY <1>1, <1>7 DEF RowsFollowSessions, OpenRow
  <2> QED
    BY <1>1, <1>6, <1>7, <2>1, <2>2, SessionsUntouched, PlacesKept, QueuesGoOn DEF QueuesInv
<1>8. ASSUME live[s].at = "run", NEW at \in {"run", "close"}, NEW started \in BOOLEAN,
             live' = [live EXCEPT ![s] = [live[s] EXCEPT !.at = at, !.started = started]],
             \/ audit' = audit
             \/ audit' = [audit EXCEPT ![s].status = IF OpenRow(s) THEN "running" ELSE @]
      PROVE  TerminalInv'
  <2> DEFINE mine == [live[s] EXCEPT !.at = at, !.started = started]
  <2>1. /\ mine \in Lives /\ mine.at = at /\ mine.browser = live[s].browser /\ mine.node = live[s].node
        /\ mine.peer = live[s].peer /\ mine.stop = live[s].stop
    BY DEF TerminalsTyped, Lives
  <2>2. live' = [live EXCEPT ![s] = mine]
    BY <1>8
  <2> HIDE DEF mine
  <2>3. live' \in [Terminals -> Lives] /\ \A t \in Terminals : live'[t] = IF t = s THEN mine ELSE live[t]
    BY <2>1, <2>2 DEF TerminalsTyped
  <2>4. audit' \in [Terminals -> AuditRows] /\ \A t \in Terminals : OpenRow(t)' <=> OpenRow(t)
    BY <1>8 DEF TerminalsTyped, AuditRows, OpenRow
  <2>5. SessionsGoOn /\ SessionsStay
    BY <1>8, <2>1, <2>3 DEF SessionsGoOn, SessionsStay, SessionsPlaced
  <2>6. TerminalsTyped'
    BY <1>1, <1>5, <2>3, <2>4 DEF TerminalsTyped
  <2>7. RowsFollowSessions'
    BY <1>1, <1>8, <2>1, <2>3, <2>4 DEF RowsFollowSessions
  <2> QED
    BY <1>1, <1>6, <2>5, <2>6, <2>7, PlacesKept, QueuesGoOn DEF QueuesInv
<1> QED
  BY <1>4, <1>7, <1>8, HearAgentMoves

LEMMA HearControllerKeeps ==
  ASSUME TerminalInv, NEW n \in Consoles, NEW k \in Wires, HearController(n, k) PROVE TerminalInv'
<1> USE DEF TerminalInv
<1>1. /\ OnEdge(n, k) /\ wires[k].down # <<>> /\ live' = live /\ audit' = audit /\ peers' = peers
      /\ unrecorded' = unrecorded /\ cutShort' = cutShort /\ hubClosed' = hubClosed
  BY DEF HearController
<1>2. /\ Head(wires[k].down) \in WireMessages /\ Head(wires[k].down) = wires[k].down[1]
      /\ Tail(wires[k].down) \in Seq(WireMessages) /\ Len(wires[k].down) \in Nat \ {0}
  BY <1>1, FirstRead DEF TerminalsTyped
<1>3. PICK s \in Terminals : s = Head(wires[k].down).id
  BY <1>2 DEF WireMessages
<1>4. \A kind : Head(wires[k].down).kind = kind => Head(wires[k].down) = Message(kind, s)
  BY <1>2, <1>3 DEF WireMessages, Message
<1>5. Head(wires[k].down).kind = "start" => shell[n].at = "none"
  BY <1>1, <1>2, <1>4 DEF ShellClosedFirst, Sent
<1> DEFINE rest == Tail(wires[k].down)
           told == Append(wires[k].up, Message("exit", s))
           Read(up) == [wires[k] EXCEPT !.down = rest, !.up = up]
<1>6. /\ wires[k].up \in Seq(WireMessages) /\ Message("exit", s) \in WireMessages
      /\ told \in Seq(WireMessages) /\ rest \in Seq(WireMessages)
  <2>1. wires[k].up \in Seq(WireMessages) /\ Message("exit", s) \in WireMessages
    BY DEF TerminalsTyped, WireStates, WireMessages, Message
  <2> QED
    BY <1>2, <2>1, AppendProperties
<1>7. ASSUME NEW up \in {wires[k].up, told}, wires' = [wires EXCEPT ![k] = Read(up)]
      PROVE  /\ wires' \in [Wires -> WireStates]
             /\ \A j \in Wires :
                  /\ wires'[j].node = wires[j].node /\ wires'[j].edge = wires[j].edge
                  /\ wires'[j].broken = wires[j].broken /\ wires'[j].handler = wires[j].handler
                  /\ j # k => wires'[j].down = wires[j].down
             /\ wires'[k].down = rest
  <2> HIDE DEF rest, told
  <2> DEFINE wire == Read(up)
  <2>1. /\ wire \in WireStates /\ wire.node = wires[k].node /\ wire.edge = wires[k].edge
        /\ wire.down = rest /\ wire.broken = wires[k].broken
        /\ wire.handler = wires[k].handler
    BY <1>6 DEF TerminalsTyped, WireStates
  <2>2. wires' = [wires EXCEPT ![k] = wire]
    BY <1>7
  <2> HIDE DEF wire
  <2> QED
    BY <2>1, <2>2 DEF TerminalsTyped
<1>8. /\ refused' = refused
      /\ \E up \in {wires[k].up, told} : wires' = [wires EXCEPT ![k] = Read(up)]
      /\ \/ shell' = shell /\ (shell[n].at = "none" \/ Head(wires[k].down) # Message("close", shell[n].id))
         \/ shell' = [shell EXCEPT ![n] = NoShell]
         \/ /\ Head(wires[k].down) = Message("start", s)
            /\ shell' = [shell EXCEPT ![n] = [at |-> "starting", id |-> s]]
  <2>0. Read(wires[k].up) = [wires[k] EXCEPT !.down = rest]
    BY DEF TerminalsTyped, WireStates
  <2>1. CASE Head(wires[k].down).kind = "start"
    <3>1. \/ /\ shell' = [shell EXCEPT ![n] = [at |-> "starting", id |-> s]]
             /\ wires' = [wires EXCEPT ![k].down = rest]
          \/ /\ shell' = shell
             /\ wires' = [wires EXCEPT ![k].down = rest,
                                       ![k].up = IF wires[k].broken THEN @ ELSE told]
      BY <1>3, <1>5, <2>1 DEF HearController, StartShell
    <3>2. refused' = refused
      BY <1>5, <2>1 DEF HearController, StartShell
    <3>3. \E up \in {wires[k].up, told} : wires' = [wires EXCEPT ![k] = Read(up)]
      <4> HIDE DEF rest, told
      <4>1. CASE wires' = [wires EXCEPT ![k].down = rest]
        <5>1. wires' = [wires EXCEPT ![k] = [wires[k] EXCEPT !.down = rest]]
          BY <4>1
        <5> HIDE DEF Read
        <5> QED
          BY <2>0, <5>1
      <4>2. CASE wires' = [wires EXCEPT ![k].down = rest,
                                        ![k].up = IF wires[k].broken THEN @ ELSE told]
        BY <4>2 DEF TerminalsTyped, WireStates
      <4> QED
        BY <3>1, <4>1, <4>2
    <3>4. Head(wires[k].down) = Message("start", s) /\ shell[n].at = "none"
      BY <1>4, <1>5, <2>1
    <3> HIDE DEF Read
    <3> QED
      BY <3>1, <3>2, <3>3, <3>4
  <2>2. CASE Head(wires[k].down).kind # "start"
    <3>1. /\ refused' = refused
          /\ shell' = (IF Head(wires[k].down).kind = "close" /\ shell[n].id = s
                       THEN [shell EXCEPT ![n] = NoShell] ELSE shell)
          /\ wires' = [wires EXCEPT ![k] = [wires[k] EXCEPT !.down = rest]]
      BY <1>3, <2>2 DEF HearController
    <3>2. Head(wires[k].down) = Message("close", shell[n].id) =>
            Head(wires[k].down).kind = "close" /\ shell[n].id = s
      BY <1>3 DEF Message
    <3> HIDE DEF Read, rest, told
    <3> QED
      BY <2>0, <3>1, <3>2
  <2> QED
    BY <2>1, <2>2
<1> HIDE DEF Read, told
<1>9. /\ wires' \in [Wires -> WireStates] /\ wires'[k].down = rest
      /\ \A j \in Wires :
           /\ wires'[j].node = wires[j].node /\ wires'[j].edge = wires[j].edge
           /\ wires'[j].broken = wires[j].broken /\ wires'[j].handler = wires[j].handler
           /\ j # k => wires'[j].down = wires[j].down
  BY <1>7, <1>8
<1>10. shell' \in [Consoles -> Shells] /\ \A m \in Consoles : m # n => shell'[m] = shell[m]
  BY <1>8 DEF TerminalsTyped, Shells, NoShell
<1>11. TerminalsTyped'
  BY <1>1, <1>8, <1>9, <1>10 DEF TerminalsTyped
<1>12. RowsFollowSessions'
  BY <1>1 DEF RowsFollowSessions, OpenRow
<1>13. HandlersStay
  BY <1>9 DEF HandlersStay
<1>14. \/ /\ shell'[n] = shell[n]
          /\ shell[n].at = "none" \/ Head(wires[k].down) # Message("close", shell[n].id)
       \/ shell'[n].at = "none"
       \/ \E t \in Terminals : /\ Head(wires[k].down) = Message("start", t)
                               /\ shell'[n].at # "none" /\ shell'[n].id = t
  BY <1>8 DEF TerminalsTyped, NoShell
<1>15. QueuesInv'
  BY <1>1, <1>9, <1>10, <1>14, ReadingKeepsQueues
<1> QED
  BY <1>1, <1>11, <1>12, <1>13, <1>15, SessionsUntouched, PlacesKept DEF QueuesInv

LEMMA TerminalStepKeeps == ASSUME TerminalInv, [TerminalNext]_terminalVars PROVE TerminalInv'
<1>1. CASE UNCHANGED terminalVars
  BY <1>1 DEF terminalVars, TerminalInv, TerminalsTyped, RowsFollowSessions, SessionsPlaced,
     PeersPlaced,
     EdgesPlaced, StartsAttached, StartsClosed, StartsOrdered, ShellClosedFirst, ShellsFollow, OpenRow, InHub,
     PeersKnown, OnEdge, Sent, Message, SessionOn
<1>2. ASSUME NEW s \in Terminals,
             \/ \E n \in Consoles : CreateTerminal(s, n)
             \/ ConnectBrowser(s) \/ AskToStop(s) \/ TakeBrowser(s) \/ ForwardInput(s) \/ LeaveLoop(s)
             \/ SendClose(s) \/ RecordEnd(s) \/ RemoveTerminal(s)
      PROVE  TerminalInv'
  BY <1>2, CreateTerminalKeeps, ConnectBrowserKeeps, AskToStopKeeps, TakeBrowserKeeps,
     ForwardInputKeeps,
     LeaveLoopKeeps, SendCloseKeeps, RecordEndKeeps, RemoveTerminalKeeps
<1>3. ASSUME NEW k \in Wires, AcceptAgent(k) \/ HearAgent(k) \/ AgentGone(k) \/ BreakWire(k)
      PROVE  TerminalInv'
  BY <1>3, AcceptAgentKeeps, HearAgentKeeps, AgentGoneKeeps, BreakWireKeeps
<1>4. ASSUME NEW n \in Consoles, NEW k \in Wires,
             Dial(n, k) \/ HangUp(n, k) \/ HearController(n, k) \/ ShellSteps(n, k)
      PROVE  TerminalInv'
  BY <1>4, DialKeeps, HangUpKeeps, HearControllerKeeps, ShellStepsKeeps
<1>5. ASSUME NEW n \in Consoles, ShellEnds(n) PROVE TerminalInv'
  BY <1>5, ShellEndsKeeps
<1>6. CASE ShutDown \/ RestartTerminals \/ CommandOpens
  BY <1>6, ShutDownKeeps, RestartTerminalsKeeps, CommandOpensKeeps
<1> QED
  BY <1>1, <1>2, <1>3, <1>4, <1>5, <1>6 DEF TerminalNext

LEMMA TerminalStarts == TerminalInit => TerminalInv
<1> SUFFICES ASSUME TerminalInit PROVE TerminalInv
  OBVIOUS
<1> USE TerminalAssumption DEF TerminalInit
<1>1. <<>> \in Seq(WireMessages)
  OBVIOUS
<1>2. NoWire \in WireStates /\ NoTerminal \in Lives /\ NoShell \in Shells
  BY <1>1 DEF NoWire, WireStates, NoTerminal, Lives, NoShell, Shells
<1>3. TerminalsTyped
  BY <1>2 DEF TerminalsTyped, AuditRows
<1>4. /\ \A k \in Wires : /\ wires[k].down = <<>> /\ ~wires[k].edge /\ wires[k].handler = "none"
                          /\ Len(wires[k].down) = 0
      /\ \A s \in Terminals : live[s].at = "none" /\ live[s].browser = "no" /\ ~OpenRow(s)
      /\ \A n \in Consoles : shell[n].at = "none" /\ peers[n] = 0
  BY DEF NoWire, NoTerminal, NoShell, OpenRow
<1>5. RowsFollowSessions /\ SessionsPlaced /\ PeersPlaced
  BY <1>4 DEF RowsFollowSessions, SessionsPlaced, InHub, PeersPlaced, PeersKnown
<1>6. EdgesPlaced /\ StartsAttached
  BY <1>4 DEF EdgesPlaced, StartsAttached, OnEdge
<1>7. StartsClosed /\ StartsOrdered
  BY <1>4 DEF StartsClosed, StartsOrdered
<1>8. ShellClosedFirst /\ ShellsFollow
  BY <1>4 DEF ShellClosedFirst, ShellsFollow
<1> QED
  BY <1>3, <1>5, <1>6, <1>7, <1>8 DEF TerminalInv

LEMMA TerminalInvHolds == TerminalInv => TerminalsHold
<1> SUFFICES ASSUME TerminalInv PROVE TerminalsHold
  OBVIOUS
<1> USE DEF TerminalInv
<1>1. TerminalTypeOK
  BY DEF TerminalsTyped, TerminalTypeOK, AuditRows, Lives, Shells
<1>2. OneShell
  BY DEF OneShell, TerminalsTyped, SessionsPlaced
<1>3. ShellFollowsSession
  <2> SUFFICES ASSUME NEW n \in Consoles, NEW k \in Wires, OnEdge(n, k), shell[n].at # "none"
               PROVE  \/ wires[k].broken
                      \/ live[shell[n].id].at \in {"run", "close"} /\ live[shell[n].id].peer = k
                      \/ \E i \in DOMAIN wires[k].down : wires[k].down[i] = Message("close", shell[n].id)
    BY DEF ShellFollowsSession
  <2>1. wires[k].down \in Seq(WireMessages)
    BY DEF TerminalsTyped, WireStates
  <2>2. DOMAIN wires[k].down = 1..Len(wires[k].down)
    BY <2>1
  <2> QED
    BY <2>2 DEF ShellsFollow, SessionOn, Sent
<1> QED
  BY <1>1, <1>2, <1>3 DEF TerminalsHold, PeersPlaced

\* Sessions, their rows, the connections and the shells agree, however many
\* nodes, sessions and connections there are: a node has one session and its
\* agent is never told to start a second shell, a row is open exactly as long as
\* its session, and a shell does not outlive its session (control/terminal.go,
\* edge/terminal.go).
THEOREM OneShellPerSession == TerminalSpec => []TerminalsHold
<1>1. TerminalInv /\ [TerminalNext]_terminalVars => TerminalInv'
  BY TerminalStepKeeps
<1> QED
  BY <1>1, TerminalStarts, TerminalInvHolds, PTL DEF TerminalSpec

-------------------------------------------------------------------------------
(* The watch over the backups *)

JobStates == {"none", "preparing", "ready", "verified", "failed", "cancelled"}
Jobs == [id : Nat, only : BOOLEAN, state : JobStates, of : Nat, at : Nat]
Records == [job : Nat, state : JobStates \union {"never"}, at : Nat, provenAt : Nat, proof : Nat]
Proofs == [proof : Nat, before : Nat, whole : BOOLEAN]

WatchClocks ==
  /\ hour \in Nat \ {0} /\ newest \in Nat /\ jobsMade \in Nat /\ watchFaults \in Nat
  /\ lastTry \in Nat /\ lastTry <= hour
  /\ backupRun \in [state : {"none", "running", "succeeded", "failed"}, started : Nat, succeeded : Nat]

JobsTyped ==
  /\ restoreJob \in Jobs /\ jobOnDisk \in Jobs
  /\ record \in Records /\ proven \in Proofs /\ failures \in [all : SUBSET Nat, replaced : SUBSET Nat]
  /\ serving \in BOOLEAN /\ stager \in BOOLEAN /\ watch \in {"idle", "tick", "admin"}

\* What one process holds: its job is the one on disk, its goroutine prepares it,
\* and it verifies nothing while it lists the snapshots.
JobsFollow ==
  /\ WatchTypeOK
  /\ watch # "idle" => serving /\ ~(restoreJob.only /\ restoreJob.state = "preparing")
  /\ restoreJob.state = "preparing" => restoreJob.of # None

\* The record of a verification that is prepared is its own.
Verifying(job) == job.only /\ job.state = "preparing"
RecordFollows ==
  serving /\ Verifying(restoreJob) =>
    record.job = restoreJob.id /\ record.state = "preparing" /\ record.at = restoreJob.at

FailureTold == <<"verification", record.job, "failed">> \in alerts

\* Whoever is about to replace the record of a failure has told it, or is an
\* administrator.
ReplacedAfterTold ==
  /\ watch = "tick" /\ record.state = "failed" => FailureTold
  /\ Verifying(jobOnDisk) /\ record.state = "failed" => FailureTold \/ record.job \in failures.replaced

\* The last attempt is in the record, or in the job that a restart will record.
AttemptsRecorded ==
  /\ Verifying(jobOnDisk) => lastTry <= jobOnDisk.at
  /\ serving \/ ~Verifying(jobOnDisk) => lastTry <= record.at

WatchInv ==
  /\ WatchClocks /\ JobsTyped /\ JobsFollow /\ RecordFollows /\ ReplacedAfterTold
  /\ AttemptsRecorded /\ ProofKept /\ FailuresTold /\ AttemptsSpaced


USE DEF None

LEMMA RecordedTyped ==
  ASSUME WatchClocks, JobsTyped, NEW job \in Jobs PROVE Recorded(job) \in Records
BY DEF WatchClocks, JobsTyped, Jobs, JobStates, Records, Recorded

LEMMA NotesTyped ==
  ASSUME JobsTyped, NEW job \in Jobs, NEW whole \in BOOLEAN, Note(job, whole)
  PROVE proven' \in Proofs /\ failures' \in [all : SUBSET Nat, replaced : SUBSET Nat]
<1>1. proven' \in Proofs
  BY DEF JobsTyped, Jobs, Records, Proofs, Note
<1>2. failures' \in [all : SUBSET Nat, replaced : SUBSET Nat]
  BY DEF JobsTyped, Jobs, Note
<1> QED
  BY <1>1, <1>2

LEMMA TickKeeps == ASSUME WatchInv, Tick PROVE WatchInv'
<1> USE VerificationAssumption DEF WatchInv
<1>1. WatchClocks'
  BY DEF WatchClocks, JobsTyped, Jobs, JobStates, Records, Proofs, Tick, Told, Alarms, Due,
     Overdue, RunState, Active
<1>2. JobsTyped'
  BY DEF WatchClocks, JobsTyped, Jobs, JobStates, Records, Proofs, Tick, Told, Alarms, Due,
     Overdue, RunState, Active
<1>3. JobsFollow'
  BY DEF WatchClocks, JobsTyped, Jobs, JobStates, Records, Proofs, JobsFollow, WatchTypeOK, Tick,
     Told, Alarms, Due, Overdue, RunState, Active
<1>4. RecordFollows'
  BY DEF WatchClocks, JobsTyped, Jobs, JobStates, Records, Proofs, JobsFollow, WatchTypeOK,
     RecordFollows, Verifying, Tick, Told, Alarms, Due, Overdue, RunState, Active
<1>5. ReplacedAfterTold'
  BY DEF JobsTyped, Jobs, JobStates, Records, Proofs, JobsFollow, WatchTypeOK, RecordFollows,
     Verifying, ReplacedAfterTold, FailureTold, Tick, Told, Alarms, Due, Overdue, RunState,
     Active
<1>6. AttemptsRecorded'
  BY DEF WatchClocks, JobsTyped, Jobs, JobStates, Records, Proofs, JobsFollow, WatchTypeOK,
     RecordFollows, Verifying, AttemptsRecorded, Tick, Told, Alarms, Due, Overdue, RunState,
     Active
<1>7. ProofKept'
  BY DEF WatchClocks, JobsTyped, Jobs, JobStates, Records, Proofs, JobsFollow, WatchTypeOK,
     ProofKept, Tick, Told, Alarms, Due, Overdue, RunState, Active
<1>8. FailuresTold'
  BY DEF JobsTyped, Jobs, JobStates, Records, Proofs, JobsFollow, WatchTypeOK, RecordFollows,
     Verifying, ReplacedAfterTold, FailureTold, FailuresTold, Tick, Told, Alarms, Due, Overdue,
     RunState, Active
<1>9. AttemptsSpaced'
  BY DEF WatchClocks, JobsTyped, Jobs, JobStates, Records, Proofs, JobsFollow, WatchTypeOK,
     AttemptsRecorded, Verifying, AttemptsSpaced, Tick, Told, Alarms, Due, Overdue, RunState,
     Active
<1> QED
  BY <1>1, <1>2, <1>3, <1>4, <1>5, <1>6, <1>7, <1>8, <1>9

LEMMA VerifyNowKeeps == ASSUME WatchInv, VerifyNow PROVE WatchInv'
<1> USE VerificationAssumption DEF WatchInv
<1>1. WatchClocks'
  BY DEF WatchClocks, JobsTyped, Jobs, JobStates, Records, Proofs, VerifyNow, Active
<1>2. JobsTyped'
  BY DEF WatchClocks, JobsTyped, Jobs, JobStates, Records, Proofs, VerifyNow, Active
<1>3. JobsFollow'
  BY DEF WatchClocks, JobsTyped, Jobs, JobStates, Records, Proofs, JobsFollow, WatchTypeOK,
     VerifyNow, Active
<1>4. RecordFollows'
  BY DEF WatchClocks, JobsTyped, Jobs, JobStates, Records, Proofs, JobsFollow, WatchTypeOK,
     RecordFollows, Verifying, VerifyNow, Active
<1>5. ReplacedAfterTold'
  BY DEF JobsTyped, Jobs, JobStates, Records, Proofs, JobsFollow, WatchTypeOK, RecordFollows,
     Verifying, ReplacedAfterTold, FailureTold, VerifyNow, Active
<1>6. AttemptsRecorded'
  BY DEF WatchClocks, JobsTyped, Jobs, JobStates, Records, Proofs, JobsFollow, WatchTypeOK,
     RecordFollows, Verifying, AttemptsRecorded, VerifyNow, Active
<1>7. ProofKept'
  BY DEF WatchClocks, JobsTyped, Jobs, JobStates, Records, Proofs, JobsFollow, WatchTypeOK,
     ProofKept, VerifyNow, Active
<1>8. FailuresTold'
  BY DEF JobsTyped, Jobs, JobStates, Records, Proofs, JobsFollow, WatchTypeOK, RecordFollows,
     Verifying, ReplacedAfterTold, FailureTold, FailuresTold, VerifyNow, Active
<1>9. AttemptsSpaced'
  BY DEF WatchClocks, JobsTyped, Jobs, JobStates, Records, Proofs, JobsFollow, WatchTypeOK,
     AttemptsRecorded, Verifying, AttemptsSpaced, VerifyNow, Active
<1> QED
  BY <1>1, <1>2, <1>3, <1>4, <1>5, <1>6, <1>7, <1>8, <1>9

LEMMA ListingFailsKeeps == ASSUME WatchInv, ListingFails PROVE WatchInv'
<1> USE VerificationAssumption DEF WatchInv
<1>1. WatchClocks'
  BY DEF WatchClocks, JobsTyped, Jobs, JobStates, Records, Proofs, ListingFails, Recorded, Replaced
<1>2. JobsTyped'
  BY DEF WatchClocks, JobsTyped, Jobs, JobStates, Records, Proofs, ListingFails, Recorded, Replaced
<1>3. JobsFollow'
  BY DEF WatchClocks, JobsTyped, Jobs, JobStates, Records, Proofs, JobsFollow, WatchTypeOK,
     ListingFails, Recorded, Replaced
<1>4. RecordFollows'
  BY DEF WatchClocks, JobsTyped, Jobs, JobStates, Records, Proofs, JobsFollow, WatchTypeOK,
     RecordFollows, Verifying, ListingFails, Recorded, Replaced
<1>5. ReplacedAfterTold'
  BY DEF JobsTyped, Jobs, JobStates, Records, Proofs, JobsFollow, WatchTypeOK, RecordFollows,
     Verifying, ReplacedAfterTold, FailureTold, ListingFails, Recorded, Replaced
<1>6. AttemptsRecorded'
  BY DEF WatchClocks, JobsTyped, Jobs, JobStates, Records, Proofs, JobsFollow, WatchTypeOK,
     RecordFollows, Verifying, AttemptsRecorded, ListingFails, Recorded, Replaced
<1>7. ProofKept'
  BY DEF WatchClocks, JobsTyped, Jobs, JobStates, Records, Proofs, JobsFollow, WatchTypeOK,
     ProofKept, ListingFails, Recorded, Replaced
<1>8. FailuresTold'
  BY DEF JobsTyped, Jobs, JobStates, Records, Proofs, JobsFollow, WatchTypeOK, RecordFollows,
     Verifying, ReplacedAfterTold, FailureTold, FailuresTold, ListingFails, Recorded, Replaced
<1>9. AttemptsSpaced'
  BY DEF WatchClocks, JobsTyped, Jobs, JobStates, Records, Proofs, JobsFollow, WatchTypeOK,
     AttemptsRecorded, Verifying, AttemptsSpaced, ListingFails, Recorded, Replaced
<1> QED
  BY <1>1, <1>2, <1>3, <1>4, <1>5, <1>6, <1>7, <1>8, <1>9

LEMMA BeginVerificationKeeps == ASSUME WatchInv, BeginVerification PROVE WatchInv'
<1> USE VerificationAssumption DEF WatchInv
<1> DEFINE job == [id |-> jobsMade + 1, only |-> TRUE, state |-> "preparing", of |-> newest, at |-> hour]
<1>1. /\ job \in Jobs /\ job.id = jobsMade + 1 /\ job.only = TRUE /\ job.state = "preparing"
      /\ job.of = newest /\ job.at = hour
  BY DEF WatchClocks, Jobs, JobStates
<1>2. /\ watch \in {"tick", "admin"} /\ newest # None /\ watch' = "idle" /\ serving
      /\ UNCHANGED <<hour, backupRun, newest, alerts>>
  BY DEF BeginVerification, JobsTyped, JobsFollow
<1>3. CASE ~CanStart /\ UNCHANGED <<serving, restoreJob, jobOnDisk, stager, record, failures, proven,
                                   lastTry, jobsMade, watchFaults>>
  <2>1. WatchClocks'
    BY <1>2, <1>3 DEF WatchClocks, JobsTyped, Jobs, JobStates, Records, Proofs
  <2>2. JobsTyped'
    BY <1>2, <1>3 DEF WatchClocks, JobsTyped, Jobs, JobStates, Records, Proofs
  <2>3. JobsFollow'
    BY <1>2, <1>3 DEF WatchClocks, JobsTyped, Jobs, JobStates, Records, Proofs, JobsFollow,
       WatchTypeOK
  <2>4. RecordFollows'
    BY <1>2, <1>3 DEF WatchClocks, JobsTyped, Jobs, JobStates, Records, Proofs, JobsFollow,
       WatchTypeOK, RecordFollows, Verifying
  <2>5. ReplacedAfterTold'
    BY <1>2, <1>3 DEF JobsTyped, Jobs, JobStates, Records, Proofs, JobsFollow, WatchTypeOK,
       RecordFollows, Verifying, ReplacedAfterTold, FailureTold
  <2>6. AttemptsRecorded'
    BY <1>2, <1>3 DEF WatchClocks, JobsTyped, Jobs, JobStates, Records, Proofs, JobsFollow,
       WatchTypeOK, RecordFollows, Verifying, AttemptsRecorded
  <2>7. ProofKept'
    BY <1>2, <1>3 DEF WatchClocks, JobsTyped, Jobs, JobStates, Records, Proofs, JobsFollow,
       WatchTypeOK, ProofKept
  <2>8. FailuresTold'
    BY <1>2, <1>3 DEF JobsTyped, Jobs, JobStates, Records, Proofs, JobsFollow, WatchTypeOK,
       RecordFollows, Verifying, ReplacedAfterTold, FailureTold, FailuresTold
  <2>9. AttemptsSpaced'
    BY <1>2, <1>3 DEF WatchClocks, JobsTyped, Jobs, JobStates, Records, Proofs, JobsFollow,
       WatchTypeOK, AttemptsRecorded, Verifying, AttemptsSpaced
  <2> QED
    BY <2>1, <2>2, <2>3, <2>4, <2>5, <2>6, <2>7, <2>8, <2>9
<1> DEFINE begun == /\ CanStart /\ jobsMade' = jobsMade + 1 /\ jobOnDisk' = job /\ UNCHANGED proven
                    /\ failures' = [failures EXCEPT !.replaced =
                                      @ \union (IF Replaced(watch) THEN {record.job} ELSE {})]
                    /\ lastTry' = IF watch = "tick" THEN hour ELSE lastTry
<1> DEFINE over == failures.replaced \union (IF Replaced(watch) THEN {record.job} ELSE {})
<1>3a. ASSUME begun
       PROVE failures' \in [all : SUBSET Nat, replaced : SUBSET Nat]
             /\ failures'.all = failures.all /\ failures'.replaced = over
  <2>1. over \subseteq Nat /\ failures' = [failures EXCEPT !.replaced = over]
    BY <1>3a DEF JobsTyped, Records
  <2> HIDE DEF over
  <2> QED
    BY <2>1 DEF JobsTyped
<1>4. ASSUME begun
      PROVE /\ ~stager /\ restoreJob.state \notin {"preparing", "ready"}
            /\ lastTry' \in {hour, lastTry} /\ lastTry' \in Nat /\ lastTry' <= hour
            /\ failures' \in [all : SUBSET Nat, replaced : SUBSET Nat]
            /\ failures'.all = failures.all
            /\ failures'.replaced = failures.replaced \union (IF Replaced(watch) THEN {record.job} ELSE {})
            /\ jobsMade' \in Nat
  <2>1. lastTry' \in {hour, lastTry} /\ lastTry' \in Nat /\ lastTry' <= hour /\ jobsMade' \in Nat
    BY <1>4 DEF WatchClocks
  <2>2. ~stager /\ restoreJob.state \notin {"preparing", "ready"}
    BY <1>4 DEF CanStart, Active
  <2> QED
    BY <1>3a, <1>4, <2>1, <2>2
<1>5. CASE begun /\ restoreJob' = job /\ record' = Recorded(job) /\ stager' = TRUE
           /\ UNCHANGED <<serving, watchFaults>>
  <2> HIDE DEF job
  <2>1. WatchClocks'
    BY <1>1, <1>2, <1>4, <1>5 DEF WatchClocks, JobsTyped, Jobs, JobStates, Records, Proofs,
       Recorded, Replaced
  <2>2. JobsTyped'
    BY <1>1, <1>2, <1>4, <1>5 DEF WatchClocks, JobsTyped, Jobs, JobStates, Records, Proofs,
       Recorded, Replaced
  <2>3. JobsFollow'
    BY <1>1, <1>2, <1>4, <1>5 DEF WatchClocks, JobsTyped, Jobs, JobStates, Records, Proofs,
       JobsFollow, WatchTypeOK, Recorded, Replaced
  <2>4. RecordFollows'
    BY <1>1, <1>2, <1>4, <1>5 DEF WatchClocks, JobsTyped, Jobs, JobStates, Records, Proofs,
       JobsFollow, WatchTypeOK, RecordFollows, Verifying, Recorded, Replaced
  <2>5. ReplacedAfterTold'
    BY <1>1, <1>2, <1>4, <1>5 DEF JobsTyped, Jobs, JobStates, Records, Proofs, JobsFollow,
       WatchTypeOK, RecordFollows, Verifying, ReplacedAfterTold, FailureTold, Recorded, Replaced
  <2>6. AttemptsRecorded'
    BY <1>1, <1>2, <1>4, <1>5 DEF WatchClocks, JobsTyped, Jobs, JobStates, Records, Proofs,
       JobsFollow, WatchTypeOK, RecordFollows, Verifying, AttemptsRecorded, Recorded, Replaced
  <2>7. ProofKept'
    BY <1>1, <1>2, <1>4, <1>5 DEF WatchClocks, JobsTyped, Jobs, JobStates, Records, Proofs,
       JobsFollow, WatchTypeOK, ProofKept, Recorded, Replaced
  <2>8. FailuresTold'
    BY <1>1, <1>2, <1>4, <1>5 DEF JobsTyped, Jobs, JobStates, Records, Proofs, JobsFollow,
       WatchTypeOK, RecordFollows, Verifying, ReplacedAfterTold, FailureTold, FailuresTold,
       Recorded, Replaced
  <2>9. AttemptsSpaced'
    BY <1>1, <1>2, <1>4, <1>5 DEF WatchClocks, JobsTyped, Jobs, JobStates, Records, Proofs,
       JobsFollow, WatchTypeOK, AttemptsRecorded, Verifying, AttemptsSpaced, Recorded, Replaced
  <2> QED
    BY <2>1, <2>2, <2>3, <2>4, <2>5, <2>6, <2>7, <2>8, <2>9
<1>6. CASE begun /\ restoreJob' = NoJob /\ UNCHANGED record /\ stager' = FALSE /\ serving' = FALSE
           /\ watchFaults' = watchFaults + 1
  <2> HIDE DEF job
  <2>1. WatchClocks'
    BY <1>1, <1>2, <1>4, <1>6 DEF WatchClocks, JobsTyped, Jobs, JobStates, Records, Proofs,
       NoJob, Replaced
  <2>2. JobsTyped'
    BY <1>1, <1>2, <1>4, <1>6 DEF WatchClocks, JobsTyped, Jobs, JobStates, Records, Proofs,
       NoJob, Replaced
  <2>3. JobsFollow'
    BY <1>1, <1>2, <1>4, <1>6 DEF WatchClocks, JobsTyped, Jobs, JobStates, Records, Proofs,
       JobsFollow, WatchTypeOK, NoJob, Replaced
  <2>4. RecordFollows'
    BY <1>1, <1>2, <1>4, <1>6 DEF WatchClocks, JobsTyped, Jobs, JobStates, Records, Proofs,
       JobsFollow, WatchTypeOK, RecordFollows, Verifying, NoJob, Replaced
  <2>5. ReplacedAfterTold'
    BY <1>1, <1>2, <1>4, <1>6 DEF JobsTyped, Jobs, JobStates, Records, Proofs, JobsFollow,
       WatchTypeOK, RecordFollows, Verifying, ReplacedAfterTold, FailureTold, NoJob, Replaced
  <2>6. AttemptsRecorded'
    BY <1>1, <1>2, <1>4, <1>6 DEF WatchClocks, JobsTyped, Jobs, JobStates, Records, Proofs,
       JobsFollow, WatchTypeOK, RecordFollows, Verifying, AttemptsRecorded, NoJob, Replaced
  <2>7. ProofKept'
    BY <1>1, <1>2, <1>4, <1>6 DEF WatchClocks, JobsTyped, Jobs, JobStates, Records, Proofs,
       JobsFollow, WatchTypeOK, ProofKept, NoJob, Replaced
  <2>8. FailuresTold'
    BY <1>1, <1>2, <1>4, <1>6 DEF JobsTyped, Jobs, JobStates, Records, Proofs, JobsFollow,
       WatchTypeOK, RecordFollows, Verifying, ReplacedAfterTold, FailureTold, FailuresTold,
       NoJob, Replaced
  <2>9. AttemptsSpaced'
    BY <1>1, <1>2, <1>4, <1>6 DEF WatchClocks, JobsTyped, Jobs, JobStates, Records, Proofs,
       JobsFollow, WatchTypeOK, AttemptsRecorded, Verifying, AttemptsSpaced, NoJob, Replaced
  <2> QED
    BY <2>1, <2>2, <2>3, <2>4, <2>5, <2>6, <2>7, <2>8, <2>9
<1> QED
  BY <1>3, <1>5, <1>6 DEF BeginVerification, DieWriting

LEMMA StartRestoreKeeps == ASSUME WatchInv, StartRestore PROVE WatchInv'
<1> USE VerificationAssumption DEF WatchInv
<1>1. WatchClocks'
  BY DEF WatchClocks, JobsTyped, Jobs, JobStates, Records, Proofs, StartRestore, CanStart,
     Active, WriteJob, Recorded, Note
<1>2. JobsTyped'
  BY DEF WatchClocks, JobsTyped, Jobs, JobStates, Records, Proofs, StartRestore, CanStart,
     Active, WriteJob, Recorded, Note
<1>3. JobsFollow'
  BY DEF WatchClocks, JobsTyped, Jobs, JobStates, Records, Proofs, JobsFollow, WatchTypeOK,
     StartRestore, CanStart, Active, WriteJob, Recorded, Note
<1>4. RecordFollows'
  BY DEF WatchClocks, JobsTyped, Jobs, JobStates, Records, Proofs, JobsFollow, WatchTypeOK,
     RecordFollows, Verifying, StartRestore, CanStart, Active, WriteJob, Recorded, Note
<1>5. ReplacedAfterTold'
  BY DEF JobsTyped, Jobs, JobStates, Records, Proofs, JobsFollow, WatchTypeOK, RecordFollows,
     Verifying, ReplacedAfterTold, FailureTold, StartRestore, CanStart, Active, WriteJob,
     Recorded, Note
<1>6. AttemptsRecorded'
  BY DEF WatchClocks, JobsTyped, Jobs, JobStates, Records, Proofs, JobsFollow, WatchTypeOK,
     RecordFollows, Verifying, AttemptsRecorded, StartRestore, CanStart, Active, WriteJob,
     Recorded, Note
<1>7. ProofKept'
  BY DEF WatchClocks, JobsTyped, Jobs, JobStates, Records, Proofs, JobsFollow, WatchTypeOK,
     ProofKept, StartRestore, CanStart, Active, WriteJob, Recorded, Note
<1>8. FailuresTold'
  BY DEF JobsTyped, Jobs, JobStates, Records, Proofs, JobsFollow, WatchTypeOK, RecordFollows,
     Verifying, ReplacedAfterTold, FailureTold, FailuresTold, StartRestore, CanStart, Active,
     WriteJob, Recorded, Note
<1>9. AttemptsSpaced'
  BY DEF WatchClocks, JobsTyped, Jobs, JobStates, Records, Proofs, JobsFollow, WatchTypeOK,
     AttemptsRecorded, Verifying, AttemptsSpaced, StartRestore, CanStart, Active, WriteJob,
     Recorded, Note
<1> QED
  BY <1>1, <1>2, <1>3, <1>4, <1>5, <1>6, <1>7, <1>8, <1>9

LEMMA EndStageKeeps == ASSUME NEW ok \in BOOLEAN, WatchInv, EndStage(ok) PROVE WatchInv'
<1> USE VerificationAssumption DEF WatchInv
<1>1. CASE restoreJob.state = "cancelled"
  <2>1. WatchClocks'
    BY <1>1 DEF WatchClocks, JobsTyped, Jobs, JobStates, Records, Proofs, EndStage
  <2>2. JobsTyped'
    BY <1>1 DEF WatchClocks, JobsTyped, Jobs, JobStates, Records, Proofs, EndStage
  <2>3. JobsFollow'
    BY <1>1 DEF WatchClocks, JobsTyped, Jobs, JobStates, Records, Proofs, JobsFollow,
       WatchTypeOK, EndStage
  <2>4. RecordFollows'
    BY <1>1 DEF WatchClocks, JobsTyped, Jobs, JobStates, Records, Proofs, JobsFollow,
       WatchTypeOK, RecordFollows, Verifying, EndStage
  <2>5. ReplacedAfterTold'
    BY <1>1 DEF JobsTyped, Jobs, JobStates, Records, Proofs, JobsFollow, WatchTypeOK,
       RecordFollows, Verifying, ReplacedAfterTold, FailureTold, EndStage
  <2>6. AttemptsRecorded'
    BY <1>1 DEF WatchClocks, JobsTyped, Jobs, JobStates, Records, Proofs, JobsFollow,
       WatchTypeOK, RecordFollows, Verifying, AttemptsRecorded, EndStage
  <2>7. ProofKept'
    BY <1>1 DEF WatchClocks, JobsTyped, Jobs, JobStates, Records, Proofs, JobsFollow,
       WatchTypeOK, ProofKept, EndStage
  <2>8. FailuresTold'
    BY <1>1 DEF JobsTyped, Jobs, JobStates, Records, Proofs, JobsFollow, WatchTypeOK,
       RecordFollows, Verifying, ReplacedAfterTold, FailureTold, FailuresTold, EndStage
  <2>9. AttemptsSpaced'
    BY <1>1 DEF WatchClocks, JobsTyped, Jobs, JobStates, Records, Proofs, JobsFollow,
       WatchTypeOK, AttemptsRecorded, Verifying, AttemptsSpaced, EndStage
  <2> QED
    BY <2>1, <2>2, <2>3, <2>4, <2>5, <2>6, <2>7, <2>8, <2>9
<1>2. CASE restoreJob.state # "cancelled"
  <2> DEFINE job == [restoreJob EXCEPT !.state =
                       IF ~ok THEN "failed" ELSE IF restoreJob.only THEN "verified" ELSE "ready"]
  <2>1. /\ job \in Jobs /\ job.id = restoreJob.id /\ job.only = restoreJob.only
        /\ job.of = restoreJob.of /\ job.at = restoreJob.at
        /\ job.state \in {"failed", "verified", "ready"}
        /\ job.state = "verified" => job.only
    BY DEF JobsTyped, Jobs, JobStates
  <2>2. /\ serving /\ stager /\ stager' = FALSE /\ watch' = IF serving' THEN watch ELSE "idle"
        /\ UNCHANGED <<hour, backupRun, newest, alerts, lastTry, jobsMade>>
        /\ restoreJob.state = "preparing" /\ restoreJob.of # None /\ jobOnDisk = restoreJob
        /\ Persist(job)
    BY <1>2 DEF EndStage, JobsFollow, WatchTypeOK
  <2> HIDE DEF job
  <2>3. CASE WriteJob(job)
    <3>1. WatchClocks'
      BY <2>1, <2>2, <2>3 DEF WatchClocks, JobsTyped, Jobs, JobStates, Records, Proofs, WriteJob,
         Recorded, Note
    <3>2. JobsTyped'
      <4>1. proven' \in Proofs /\ failures' \in [all : SUBSET Nat, replaced : SUBSET Nat]
        BY <2>1, <2>3, NotesTyped DEF WriteJob
      <4>2. record' \in Records
        BY <2>1, <2>3, RecordedTyped DEF WriteJob, JobsTyped
      <4> QED
        BY <2>1, <2>2, <2>3, <4>1, <4>2 DEF JobsTyped, WriteJob
    <3>3. JobsFollow'
      BY <2>1, <2>2, <2>3 DEF WatchClocks, JobsTyped, Jobs, JobStates, Records, Proofs,
         JobsFollow, WatchTypeOK, WriteJob, Recorded, Note
    <3>4. RecordFollows'
      BY <2>1, <2>2, <2>3 DEF WatchClocks, JobsTyped, Jobs, JobStates, Records, Proofs,
         JobsFollow, WatchTypeOK, RecordFollows, Verifying, WriteJob, Recorded, Note
    <3>5. ReplacedAfterTold'
      BY <2>1, <2>2, <2>3 DEF JobsTyped, Jobs, JobStates, Records, Proofs, JobsFollow,
         WatchTypeOK, RecordFollows, Verifying, ReplacedAfterTold, FailureTold, WriteJob,
         Recorded, Note
    <3>6. AttemptsRecorded'
      BY <2>1, <2>2, <2>3 DEF WatchClocks, JobsTyped, Jobs, JobStates, Records, Proofs,
         JobsFollow, WatchTypeOK, RecordFollows, Verifying, AttemptsRecorded, WriteJob, Recorded,
         Note
    <3>7. ProofKept'
      BY <2>1, <2>2, <2>3 DEF WatchClocks, JobsTyped, Jobs, JobStates, Records, Proofs,
         JobsFollow, WatchTypeOK, ProofKept, WriteJob, Recorded, Note
    <3>8. FailuresTold'
      BY <2>1, <2>2, <2>3 DEF JobsTyped, Jobs, JobStates, Records, Proofs, JobsFollow,
         WatchTypeOK, RecordFollows, Verifying, ReplacedAfterTold, FailureTold, FailuresTold,
         WriteJob, Recorded, Note
    <3>9. AttemptsSpaced'
      BY <2>1, <2>2, <2>3 DEF WatchClocks, JobsTyped, Jobs, JobStates, Records, Proofs,
         JobsFollow, WatchTypeOK, AttemptsRecorded, Verifying, AttemptsSpaced, WriteJob,
         Recorded, Note
    <3> QED
      BY <3>1, <3>2, <3>3, <3>4, <3>5, <3>6, <3>7, <3>8, <3>9
  <2>4. CASE DieWriting(job) /\ Note(job, FALSE)
    <3>1. WatchClocks'
      BY <2>1, <2>2, <2>4 DEF WatchClocks, JobsTyped, Jobs, JobStates, Records, Proofs,
         DieWriting, Note, NoJob
    <3>2. JobsTyped'
      <4>1. proven' \in Proofs /\ failures' \in [all : SUBSET Nat, replaced : SUBSET Nat]
        BY <2>1, <2>4, NotesTyped
      <4> QED
        BY <2>1, <2>2, <2>4, <4>1 DEF JobsTyped, Jobs, JobStates, DieWriting, NoJob
    <3>3. JobsFollow'
      BY <2>1, <2>2, <2>4 DEF WatchClocks, JobsTyped, Jobs, JobStates, Records, Proofs,
         JobsFollow, WatchTypeOK, DieWriting, Note, NoJob
    <3>4. RecordFollows'
      BY <2>1, <2>2, <2>4 DEF WatchClocks, JobsTyped, Jobs, JobStates, Records, Proofs,
         JobsFollow, WatchTypeOK, RecordFollows, Verifying, DieWriting, Note, NoJob
    <3>5. ReplacedAfterTold'
      BY <2>1, <2>2, <2>4 DEF JobsTyped, Jobs, JobStates, Records, Proofs, JobsFollow,
         WatchTypeOK, RecordFollows, Verifying, ReplacedAfterTold, FailureTold, DieWriting, Note,
         NoJob
    <3>6. AttemptsRecorded'
      BY <2>1, <2>2, <2>4 DEF WatchClocks, JobsTyped, Jobs, JobStates, Records, Proofs,
         JobsFollow, WatchTypeOK, RecordFollows, Verifying, AttemptsRecorded, DieWriting, Note,
         NoJob
    <3>7. ProofKept'
      BY <2>1, <2>2, <2>4 DEF WatchClocks, JobsTyped, Jobs, JobStates, Records, Proofs,
         JobsFollow, WatchTypeOK, ProofKept, DieWriting, Note, NoJob
    <3>8. FailuresTold'
      BY <2>1, <2>2, <2>4 DEF JobsTyped, Jobs, JobStates, Records, Proofs, JobsFollow,
         WatchTypeOK, RecordFollows, Verifying, ReplacedAfterTold, FailureTold, FailuresTold,
         DieWriting, Note, NoJob
    <3>9. AttemptsSpaced'
      BY <2>1, <2>2, <2>4 DEF WatchClocks, JobsTyped, Jobs, JobStates, Records, Proofs,
         JobsFollow, WatchTypeOK, AttemptsRecorded, Verifying, AttemptsSpaced, DieWriting, Note,
         NoJob
    <3> QED
      BY <3>1, <3>2, <3>3, <3>4, <3>5, <3>6, <3>7, <3>8, <3>9
  <2> QED
    BY <2>2, <2>3, <2>4 DEF Persist
<1> QED
  BY <1>1, <1>2

LEMMA CancelJobKeeps == ASSUME WatchInv, CancelJob PROVE WatchInv'
<1> USE VerificationAssumption DEF WatchInv
<1>1. WatchClocks'
  BY DEF WatchClocks, JobsTyped, Jobs, JobStates, Records, Proofs, CancelJob, Recorded
<1>2. JobsTyped'
  BY DEF WatchClocks, JobsTyped, Jobs, JobStates, Records, Proofs, CancelJob, Recorded
<1>3. JobsFollow'
  BY DEF WatchClocks, JobsTyped, Jobs, JobStates, Records, Proofs, JobsFollow, WatchTypeOK,
     CancelJob, Recorded
<1>4. RecordFollows'
  BY DEF WatchClocks, JobsTyped, Jobs, JobStates, Records, Proofs, JobsFollow, WatchTypeOK,
     RecordFollows, Verifying, CancelJob, Recorded
<1>5. ReplacedAfterTold'
  BY DEF JobsTyped, Jobs, JobStates, Records, Proofs, JobsFollow, WatchTypeOK, RecordFollows,
     Verifying, ReplacedAfterTold, FailureTold, CancelJob, Recorded
<1>6. AttemptsRecorded'
  BY DEF WatchClocks, JobsTyped, Jobs, JobStates, Records, Proofs, JobsFollow, WatchTypeOK,
     RecordFollows, Verifying, AttemptsRecorded, CancelJob, Recorded
<1>7. ProofKept'
  BY DEF WatchClocks, JobsTyped, Jobs, JobStates, Records, Proofs, JobsFollow, WatchTypeOK,
     ProofKept, CancelJob, Recorded
<1>8. FailuresTold'
  BY DEF JobsTyped, Jobs, JobStates, Records, Proofs, JobsFollow, WatchTypeOK, RecordFollows,
     Verifying, ReplacedAfterTold, FailureTold, FailuresTold, CancelJob, Recorded
<1>9. AttemptsSpaced'
  BY DEF WatchClocks, JobsTyped, Jobs, JobStates, Records, Proofs, JobsFollow, WatchTypeOK,
     AttemptsRecorded, Verifying, AttemptsSpaced, CancelJob, Recorded
<1> QED
  BY <1>1, <1>2, <1>3, <1>4, <1>5, <1>6, <1>7, <1>8, <1>9

LEMMA KillWatchKeeps == ASSUME WatchInv, KillWatch PROVE WatchInv'
<1> USE VerificationAssumption DEF WatchInv
<1>1. WatchClocks'
  BY DEF WatchClocks, JobsTyped, Jobs, JobStates, Records, Proofs, KillWatch, NoJob
<1>2. JobsTyped'
  BY DEF WatchClocks, JobsTyped, Jobs, JobStates, Records, Proofs, KillWatch, NoJob
<1>3. JobsFollow'
  BY DEF WatchClocks, JobsTyped, Jobs, JobStates, Records, Proofs, JobsFollow, WatchTypeOK,
     KillWatch, NoJob
<1>4. RecordFollows'
  BY DEF WatchClocks, JobsTyped, Jobs, JobStates, Records, Proofs, JobsFollow, WatchTypeOK,
     RecordFollows, Verifying, KillWatch, NoJob
<1>5. ReplacedAfterTold'
  BY DEF JobsTyped, Jobs, JobStates, Records, Proofs, JobsFollow, WatchTypeOK, RecordFollows,
     Verifying, ReplacedAfterTold, FailureTold, KillWatch, NoJob
<1>6. AttemptsRecorded'
  BY DEF WatchClocks, JobsTyped, Jobs, JobStates, Records, Proofs, JobsFollow, WatchTypeOK,
     RecordFollows, Verifying, AttemptsRecorded, KillWatch, NoJob
<1>7. ProofKept'
  BY DEF WatchClocks, JobsTyped, Jobs, JobStates, Records, Proofs, JobsFollow, WatchTypeOK,
     ProofKept, KillWatch, NoJob
<1>8. FailuresTold'
  BY DEF JobsTyped, Jobs, JobStates, Records, Proofs, JobsFollow, WatchTypeOK, RecordFollows,
     Verifying, ReplacedAfterTold, FailureTold, FailuresTold, KillWatch, NoJob
<1>9. AttemptsSpaced'
  BY DEF WatchClocks, JobsTyped, Jobs, JobStates, Records, Proofs, JobsFollow, WatchTypeOK,
     AttemptsRecorded, Verifying, AttemptsSpaced, KillWatch, NoJob
<1> QED
  BY <1>1, <1>2, <1>3, <1>4, <1>5, <1>6, <1>7, <1>8, <1>9

LEMMA RestartWatchKeeps == ASSUME WatchInv, RestartWatch PROVE WatchInv'
<1> USE VerificationAssumption DEF WatchInv
<1>1. /\ ~serving /\ serving' = TRUE /\ ~stager /\ watch = "idle"
      /\ UNCHANGED <<hour, backupRun, newest, stager, watch, alerts, lastTry, jobsMade, watchFaults>>
  BY DEF RestartWatch, JobsFollow, WatchTypeOK, JobsTyped
<1>2. CASE jobOnDisk.state # "preparing"
  <2>a. restoreJob' = jobOnDisk /\ UNCHANGED <<jobOnDisk, record, proven, failures>>
    BY <1>2 DEF RestartWatch
  <2>1. WatchClocks'
    BY <1>1, <1>2, <2>a DEF WatchClocks, JobsTyped, Jobs, JobStates, Records, Proofs
  <2>2. JobsTyped'
    BY <1>1, <1>2, <2>a DEF WatchClocks, JobsTyped, Jobs, JobStates, Records, Proofs
  <2>3. JobsFollow'
    BY <1>1, <1>2, <2>a DEF WatchClocks, JobsTyped, Jobs, JobStates, Records, Proofs, JobsFollow,
       WatchTypeOK
  <2>4. RecordFollows'
    BY <1>1, <1>2, <2>a DEF WatchClocks, JobsTyped, Jobs, JobStates, Records, Proofs, JobsFollow,
       WatchTypeOK, RecordFollows, Verifying
  <2>5. ReplacedAfterTold'
    BY <1>1, <1>2, <2>a DEF JobsTyped, Jobs, JobStates, Records, Proofs, JobsFollow, WatchTypeOK,
       RecordFollows, Verifying, ReplacedAfterTold, FailureTold
  <2>6. AttemptsRecorded'
    BY <1>1, <1>2, <2>a DEF WatchClocks, JobsTyped, Jobs, JobStates, Records, Proofs, JobsFollow,
       WatchTypeOK, RecordFollows, Verifying, AttemptsRecorded
  <2>7. ProofKept'
    BY <1>1, <1>2, <2>a DEF WatchClocks, JobsTyped, Jobs, JobStates, Records, Proofs, JobsFollow,
       WatchTypeOK, ProofKept
  <2>8. FailuresTold'
    BY <1>1, <1>2, <2>a DEF JobsTyped, Jobs, JobStates, Records, Proofs, JobsFollow, WatchTypeOK,
       RecordFollows, Verifying, ReplacedAfterTold, FailureTold, FailuresTold
  <2>9. AttemptsSpaced'
    BY <1>1, <1>2, <2>a DEF WatchClocks, JobsTyped, Jobs, JobStates, Records, Proofs, JobsFollow,
       WatchTypeOK, AttemptsRecorded, Verifying, AttemptsSpaced
  <2> QED
    BY <2>1, <2>2, <2>3, <2>4, <2>5, <2>6, <2>7, <2>8, <2>9
<1>3. CASE jobOnDisk.state = "preparing"
  <2> DEFINE job == [jobOnDisk EXCEPT !.state = "failed"]
  <2>a. /\ job \in Jobs /\ job.id = jobOnDisk.id /\ job.only = jobOnDisk.only /\ job.state = "failed"
        /\ job.of = jobOnDisk.of /\ job.at = jobOnDisk.at
    BY DEF JobsTyped, Jobs, JobStates
  <2>b. job # jobOnDisk
    BY <1>3, <2>a
  <2>c. /\ restoreJob' = job /\ jobOnDisk' = job /\ Note(job, TRUE)
        /\ record' = (IF job.only THEN Recorded(job) ELSE record)
    BY <1>3, <2>b DEF RestartWatch
  <2> HIDE DEF job
  <2>1. WatchClocks'
    BY <1>1, <1>3, <2>a, <2>c DEF WatchClocks, JobsTyped, Jobs, JobStates, Records, Proofs,
       Recorded, Note
  <2>2. JobsTyped'
    BY <1>1, <1>3, <2>a, <2>c DEF WatchClocks, JobsTyped, Jobs, JobStates, Records, Proofs,
       Recorded, Note
  <2>3. JobsFollow'
    BY <1>1, <1>3, <2>a, <2>c DEF WatchClocks, JobsTyped, Jobs, JobStates, Records, Proofs,
       JobsFollow, WatchTypeOK, Recorded, Note
  <2>4. RecordFollows'
    BY <1>1, <1>3, <2>a, <2>c DEF WatchClocks, JobsTyped, Jobs, JobStates, Records, Proofs,
       JobsFollow, WatchTypeOK, RecordFollows, Verifying, Recorded, Note
  <2>5. ReplacedAfterTold'
    BY <1>1, <1>3, <2>a, <2>c DEF JobsTyped, Jobs, JobStates, Records, Proofs, JobsFollow,
       WatchTypeOK, RecordFollows, Verifying, ReplacedAfterTold, FailureTold, Recorded, Note
  <2>6. AttemptsRecorded'
    BY <1>1, <1>3, <2>a, <2>c DEF WatchClocks, JobsTyped, Jobs, JobStates, Records, Proofs,
       JobsFollow, WatchTypeOK, RecordFollows, Verifying, AttemptsRecorded, Recorded, Note
  <2>7. ProofKept'
    BY <1>1, <1>3, <2>a, <2>c DEF WatchClocks, JobsTyped, Jobs, JobStates, Records, Proofs,
       JobsFollow, WatchTypeOK, ProofKept, Recorded, Note
  <2>8. FailuresTold'
    BY <1>1, <1>3, <2>a, <2>c DEF JobsTyped, Jobs, JobStates, Records, Proofs, JobsFollow,
       WatchTypeOK, RecordFollows, Verifying, ReplacedAfterTold, FailureTold, FailuresTold,
       Recorded, Note
  <2>9. AttemptsSpaced'
    BY <1>1, <1>3, <2>a, <2>c DEF WatchClocks, JobsTyped, Jobs, JobStates, Records, Proofs,
       JobsFollow, WatchTypeOK, AttemptsRecorded, Verifying, AttemptsSpaced, Recorded, Note
  <2> QED
    BY <2>1, <2>2, <2>3, <2>4, <2>5, <2>6, <2>7, <2>8, <2>9
<1> QED
  BY <1>2, <1>3

LEMMA BackupStepsKeeps == ASSUME WatchInv, BackupSteps PROVE WatchInv'
<1> USE VerificationAssumption DEF WatchInv
<1>1. WatchClocks'
  <2>1. backupRun' \in [state : {"none", "running", "succeeded", "failed"}, started : Nat, succeeded : Nat]
    BY DEF WatchClocks, BackupSteps
  <2>2. newest' \in Nat
    BY DEF WatchClocks, BackupSteps
  <2> QED
    BY <2>1, <2>2 DEF WatchClocks, BackupSteps
<1>2. JobsTyped'
  BY DEF WatchClocks, JobsTyped, Jobs, JobStates, Records, Proofs, BackupSteps
<1>3. JobsFollow'
  BY DEF WatchClocks, JobsTyped, Jobs, JobStates, Records, Proofs, JobsFollow, WatchTypeOK,
     BackupSteps
<1>4. RecordFollows'
  BY DEF WatchClocks, JobsTyped, Jobs, JobStates, Records, Proofs, JobsFollow, WatchTypeOK,
     RecordFollows, Verifying, BackupSteps
<1>5. ReplacedAfterTold'
  BY DEF JobsTyped, Jobs, JobStates, Records, Proofs, JobsFollow, WatchTypeOK, RecordFollows,
     Verifying, ReplacedAfterTold, FailureTold, BackupSteps
<1>6. AttemptsRecorded'
  BY DEF WatchClocks, JobsTyped, Jobs, JobStates, Records, Proofs, JobsFollow, WatchTypeOK,
     RecordFollows, Verifying, AttemptsRecorded, BackupSteps
<1>7. ProofKept'
  BY DEF WatchClocks, JobsTyped, Jobs, JobStates, Records, Proofs, JobsFollow, WatchTypeOK,
     ProofKept, BackupSteps
<1>8. FailuresTold'
  BY DEF JobsTyped, Jobs, JobStates, Records, Proofs, JobsFollow, WatchTypeOK, RecordFollows,
     Verifying, ReplacedAfterTold, FailureTold, FailuresTold, BackupSteps
<1>9. AttemptsSpaced'
  BY DEF WatchClocks, JobsTyped, Jobs, JobStates, Records, Proofs, JobsFollow, WatchTypeOK,
     AttemptsRecorded, Verifying, AttemptsSpaced, BackupSteps
<1> QED
  BY <1>1, <1>2, <1>3, <1>4, <1>5, <1>6, <1>7, <1>8, <1>9

LEMMA PassHourKeeps == ASSUME WatchInv, PassHour PROVE WatchInv'
<1> USE VerificationAssumption DEF WatchInv
<1>1. WatchClocks'
  BY DEF WatchClocks, JobsTyped, Jobs, JobStates, Records, Proofs, PassHour
<1>2. JobsTyped'
  BY DEF WatchClocks, JobsTyped, Jobs, JobStates, Records, Proofs, PassHour
<1>3. JobsFollow'
  BY DEF WatchClocks, JobsTyped, Jobs, JobStates, Records, Proofs, JobsFollow, WatchTypeOK, PassHour
<1>4. RecordFollows'
  BY DEF WatchClocks, JobsTyped, Jobs, JobStates, Records, Proofs, JobsFollow, WatchTypeOK,
     RecordFollows, Verifying, PassHour
<1>5. ReplacedAfterTold'
  BY DEF JobsTyped, Jobs, JobStates, Records, Proofs, JobsFollow, WatchTypeOK, RecordFollows,
     Verifying, ReplacedAfterTold, FailureTold, PassHour
<1>6. AttemptsRecorded'
  BY DEF WatchClocks, JobsTyped, Jobs, JobStates, Records, Proofs, JobsFollow, WatchTypeOK,
     RecordFollows, Verifying, AttemptsRecorded, PassHour
<1>7. ProofKept'
  BY DEF WatchClocks, JobsTyped, Jobs, JobStates, Records, Proofs, JobsFollow, WatchTypeOK,
     ProofKept, PassHour
<1>8. FailuresTold'
  BY DEF JobsTyped, Jobs, JobStates, Records, Proofs, JobsFollow, WatchTypeOK, RecordFollows,
     Verifying, ReplacedAfterTold, FailureTold, FailuresTold, PassHour
<1>9. AttemptsSpaced'
  BY DEF WatchClocks, JobsTyped, Jobs, JobStates, Records, Proofs, JobsFollow, WatchTypeOK,
     AttemptsRecorded, Verifying, AttemptsSpaced, PassHour
<1> QED
  BY <1>1, <1>2, <1>3, <1>4, <1>5, <1>6, <1>7, <1>8, <1>9

LEMMA WatchStepKeeps == ASSUME WatchInv, [WatchNext]_watchVars PROVE WatchInv'
<1>1. CASE WatchNext
  BY <1>1, TickKeeps, VerifyNowKeeps, ListingFailsKeeps, BeginVerificationKeeps, StartRestoreKeeps,
     EndStageKeeps, CancelJobKeeps, KillWatchKeeps, RestartWatchKeeps, BackupStepsKeeps,
     PassHourKeeps DEF WatchNext
<1>2. CASE UNCHANGED watchVars
  <2> USE <1>2 DEF WatchInv, watchVars
  <2>1. WatchClocks'
    BY DEF WatchClocks, JobsTyped, Jobs, JobStates, Records, Proofs
  <2>2. JobsTyped'
    BY DEF WatchClocks, JobsTyped, Jobs, JobStates, Records, Proofs
  <2>3. JobsFollow'
    BY DEF WatchClocks, JobsTyped, Jobs, JobStates, Records, Proofs, JobsFollow, WatchTypeOK
  <2>4. RecordFollows'
    BY DEF WatchClocks, JobsTyped, Jobs, JobStates, Records, Proofs, JobsFollow, WatchTypeOK,
       RecordFollows, Verifying
  <2>5. ReplacedAfterTold'
    BY DEF JobsTyped, Jobs, JobStates, Records, Proofs, JobsFollow, WatchTypeOK, RecordFollows,
       Verifying, ReplacedAfterTold, FailureTold
  <2>6. AttemptsRecorded'
    BY DEF WatchClocks, JobsTyped, Jobs, JobStates, Records, Proofs, JobsFollow, WatchTypeOK,
       RecordFollows, Verifying, AttemptsRecorded
  <2>7. ProofKept'
    BY DEF WatchClocks, JobsTyped, Jobs, JobStates, Records, Proofs, JobsFollow, WatchTypeOK,
       ProofKept
  <2>8. FailuresTold'
    BY DEF JobsTyped, Jobs, JobStates, Records, Proofs, JobsFollow, WatchTypeOK, RecordFollows,
       Verifying, ReplacedAfterTold, FailureTold, FailuresTold
  <2>9. AttemptsSpaced'
    BY DEF WatchClocks, JobsTyped, Jobs, JobStates, Records, Proofs, JobsFollow, WatchTypeOK,
       AttemptsRecorded, Verifying, AttemptsSpaced
  <2> QED
    BY <2>1, <2>2, <2>3, <2>4, <2>5, <2>6, <2>7, <2>8, <2>9
<1> QED
  BY <1>1, <1>2

LEMMA WatchStarts == ASSUME WatchInit PROVE WatchInv
<1> USE VerificationAssumption DEF WatchInv, WatchInit, NoJob
<1>1. WatchClocks
  BY DEF WatchClocks, JobsTyped, Jobs, JobStates, Records, Proofs
<1>2. JobsTyped
  BY DEF WatchClocks, JobsTyped, Jobs, JobStates, Records, Proofs
<1>3. JobsFollow
  BY DEF WatchClocks, JobsTyped, Jobs, JobStates, Records, Proofs, JobsFollow, WatchTypeOK
<1>4. RecordFollows
  BY DEF WatchClocks, JobsTyped, Jobs, JobStates, Records, Proofs, JobsFollow, WatchTypeOK,
     RecordFollows, Verifying
<1>5. ReplacedAfterTold
  BY DEF JobsTyped, Jobs, JobStates, Records, Proofs, JobsFollow, WatchTypeOK, RecordFollows,
     Verifying, ReplacedAfterTold, FailureTold
<1>6. AttemptsRecorded
  BY DEF WatchClocks, JobsTyped, Jobs, JobStates, Records, Proofs, JobsFollow, WatchTypeOK,
     RecordFollows, Verifying, AttemptsRecorded
<1>7. ProofKept
  BY DEF WatchClocks, JobsTyped, Jobs, JobStates, Records, Proofs, JobsFollow, WatchTypeOK,
     ProofKept
<1>8. FailuresTold
  BY DEF JobsTyped, Jobs, JobStates, Records, Proofs, JobsFollow, WatchTypeOK, RecordFollows,
     Verifying, ReplacedAfterTold, FailureTold, FailuresTold
<1>9. AttemptsSpaced
  BY DEF WatchClocks, JobsTyped, Jobs, JobStates, Records, Proofs, JobsFollow, WatchTypeOK,
     AttemptsRecorded, Verifying, AttemptsSpaced
<1> QED
  BY <1>1, <1>2, <1>3, <1>4, <1>5, <1>6, <1>7, <1>8, <1>9

\* A proof that is shown was given and is the latest, a failure is told before its
\* record is replaced, except by an administrator, and two attempts of the
\* watch are apart, through every restart and failed write
\* (control/backup_health.go).
THEOREM WatchKeepsItsWord == WatchInit /\ [][WatchNext]_watchVars => []WatchHolds
<1>1. WatchInv => WatchHolds
  BY DEF WatchInv, WatchHolds, JobsFollow
<1> QED
  BY <1>1, WatchStarts, WatchStepKeeps, PTL

-------------------------------------------------------------------------------
(* The health center *)

Collections == [at : Nat, verdicts : UNION {[S -> Verdicts] : S \in SUBSET CheckIds}]

HealthTyped ==
  /\ review \in ReviewCases \union {NoCase}
  /\ tick \in Nat
  /\ lastError \in BOOLEAN
  /\ past \in Seq(Collections)
  /\ saved.at \in Nat
  /\ \A c \in DOMAIN saved.checks : saved.checks[c].verdict \in Verdicts

\* The snapshot is that of the last collection.
SavedIsLast ==
  /\ Len(past) = 0 => DOMAIN saved.checks = {}
  /\ Len(past) > 0 =>
       /\ DOMAIN saved.checks = DOMAIN past[Len(past)].verdicts
       /\ \A c \in DOMAIN saved.checks : saved.checks[c].verdict = past[Len(past)].verdicts[c]

\* Each problem of the last collection has a beginning.
RunsBegin ==
  \A c \in CheckIds :
    Len(past) > 0 /\ Ill(c, Len(past)) => \E i \in 1..Len(past) : Run(c, i, Len(past))

HealthInv == HealthTyped /\ SavedIsLast /\ RunsBegin /\ HistoryFaithful

\* The recovery that belongs to a run, and the runs that have ended.
RecoveryOf(c, i, j) ==
  [check |-> c, from |-> past[j].verdicts[c], started |-> past[i].at,
   finished |-> past[j + 1].at,
   outcome |-> IF /\ c \in DOMAIN past[j + 1].verdicts
                  /\ past[j + 1].verdicts[c] = "healthy"
               THEN "resolved" ELSE "retired"]
EndedRun(c, i, j) ==
  /\ c \in CheckIds /\ j \in 1..(Len(past) - 1) /\ i \in 1..j
  /\ Run(c, i, j) /\ ~Ill(c, j + 1)
  /\ past[j + 1].at + Retention > saved.at
EndedRuns ==
  UNION {{RecoveryOf(c, i, j) :
           i \in {k \in 1..j : Run(c, k, j) /\ ~Ill(c, j + 1)
                               /\ past[j + 1].at + Retention > saved.at}} :
         c \in CheckIds, j \in 1..(Len(past) - 1)}
SinceFaithful ==
  \A c \in DOMAIN saved.checks :
    \A i \in 1..Len(past) : Run(c, i, Len(past)) => saved.checks[c].since = past[i].at

LEMMA HistoryInParts == HistoryFaithful <=> saved.recoveries = EndedRuns /\ SinceFaithful
BY DEF HistoryFaithful, EndedRuns, RecoveryOf, SinceFaithful

LEMMA HistoryInPartsNext ==
  HistoryFaithful' <=> (saved.recoveries)' = EndedRuns' /\ SinceFaithful'
BY DEF HistoryFaithful, EndedRuns, RecoveryOf, SinceFaithful

LEMMA EndedRunsPointwise ==
  ASSUME NEW r
  PROVE  r \in EndedRuns <=> \E c \in CheckIds, j \in 1..(Len(past) - 1) : \E i \in 1..j :
           EndedRun(c, i, j) /\ r = RecoveryOf(c, i, j)
<1> DEFINE Of(c, j) == {RecoveryOf(c, i, j) :
                         i \in {k \in 1..j : Run(c, k, j) /\ ~Ill(c, j + 1)
                                             /\ past[j + 1].at + Retention > saved.at}}
           J == 1..(Len(past) - 1)
<1>1. EndedRuns = UNION {Of(c, j) : c \in CheckIds, j \in J}
  BY DEF EndedRuns
<1>2. \A c \in CheckIds, j \in J : r \in Of(c, j) <=>
        \E i \in 1..j : EndedRun(c, i, j) /\ r = RecoveryOf(c, i, j)
  BY DEF EndedRun
<1>3. r \in EndedRuns <=> \E c \in CheckIds, j \in J : r \in Of(c, j)
  <2> HIDE DEF Of, J
  <2> QED
    BY <1>1
<1> HIDE DEF Of
<1> QED
  BY <1>2, <1>3

LEMMA EndedRunsPointwiseNext ==
  ASSUME NEW r
  PROVE  r \in EndedRuns' <=> \E c \in CheckIds, j \in 1..(Len(past') - 1) : \E i \in 1..j :
           EndedRun(c, i, j)' /\ r = RecoveryOf(c, i, j)'
<1> DEFINE Of(c, j) == {RecoveryOf(c, i, j)' :
                         i \in {k \in 1..j : Run(c, k, j)' /\ ~Ill(c, j + 1)'
                                             /\ past'[j + 1].at + Retention > (saved.at)'}}
           J == 1..(Len(past') - 1)
<1>1. EndedRuns' = UNION {Of(c, j) : c \in CheckIds, j \in J}
  BY DEF EndedRuns
<1>2. \A c \in CheckIds, j \in J : r \in Of(c, j) <=>
        \E i \in 1..j : EndedRun(c, i, j)' /\ r = RecoveryOf(c, i, j)'
  BY DEF EndedRun
<1>3. r \in EndedRuns' <=> \E c \in CheckIds, j \in J : r \in Of(c, j)
  <2> HIDE DEF Of, J
  <2> QED
    BY <1>1
<1> HIDE DEF Of
<1> QED
  BY <1>2, <1>3

LEMMA HealthConstants ==
  /\ Now \in Nat /\ HeartbeatAge \in Nat /\ ProbeAge \in Nat /\ TaskAge \in Nat
  /\ RunAge \in Nat /\ BackupAge \in Nat /\ Skew \in Nat /\ Soon \in Nat /\ Renewal \in Nat
  /\ Validity \in Nat /\ Retention \in Nat
  /\ Soon <= Renewal /\ Now > 2
BY HealthCenterAssumption

-------------------------------------------------------------------------------
(* The verdicts *)

\* The cases by their kinds.
NodeReviews ==
  [kind : {"node"}, node : [active : BOOLEAN, beat : Times, desired : 0..2, applied : 0..2,
                            serves : BOOLEAN, error : BOOLEAN]]
SiteReviews ==
  [kind : {"site"}, site : [live : {TRUE}, ipv6 : BOOLEAN, publishedAt : {1, Now - 2}],
   nodes : [Assigned -> NodeCases]]
CertificateReviews ==
  [kind : {"certificate"}, tasks : Maybe(Tasks),
   site : [live : {TRUE}, published : BOOLEAN, serving : Maybe(Expiries),
           issued : Maybe([notAfter : Expiries, updated : {1, Now - 1}])]]
BackupReviews ==
  [kind : {"backup"}, run : [state : {"active", "failed", "succeeded"}, started : Times,
                             updated : Times, succeeded : Times]]
UpgradeReviews ==
  [kind : {"upgrade"}, task : {[t EXCEPT !.managed = TRUE] : t \in
     [managed : {TRUE}, status : {"failed", "active", "done"}, deadline : Times]},
   rollout : [state : {"none", "cancelled", "paused", "running", "finished"}, updated : Times],
   round : [finished : Times, errors : BOOLEAN]]

LEMMA ReviewByKind ==
  ASSUME HealthTyped
  PROVE  /\ review.kind = "node" => review \in NodeReviews
         /\ review.kind = "site" => review \in SiteReviews
         /\ review.kind = "certificate" => review \in CertificateReviews
         /\ review.kind = "backup" => review \in BackupReviews
         /\ review.kind = "upgrade" => review \in UpgradeReviews
<1>1. \/ review \in NodeReviews \/ review \in SiteReviews \/ review \in CertificateReviews
      \/ review \in BackupReviews \/ review \in UpgradeReviews \/ review = NoCase
  BY Zenon DEF HealthTyped, ReviewCases, NodeReviews, SiteReviews, CertificateReviews,
               BackupReviews, UpgradeReviews
<1>2. review \in NodeReviews => review.kind = "node"
  BY DEF NodeReviews
<1>3. review \in SiteReviews => review.kind = "site"
  BY DEF SiteReviews
<1>4. review \in CertificateReviews => review.kind = "certificate"
  BY DEF CertificateReviews
<1>5. review \in BackupReviews => review.kind = "backup"
  BY DEF BackupReviews
<1>6. review \in UpgradeReviews => review.kind = "upgrade"
  <2> DEFINE T == {[t EXCEPT !.managed = TRUE] : t \in
                    [managed : {TRUE}, status : {"failed", "active", "done"}, deadline : Times]}
  <2>1. UpgradeReviews =
          [kind : {"upgrade"}, task : T,
           rollout : [state : {"none", "cancelled", "paused", "running", "finished"}, updated : Times],
           round : [finished : Times, errors : BOOLEAN]]
    BY DEF UpgradeReviews
  <2> HIDE DEF T
  <2> QED
    BY <2>1
<1>7. review = NoCase => review.kind = "none"
  BY DEF NoCase
<1> QED
  BY <1>1, <1>2, <1>3, <1>4, <1>5, <1>6, <1>7

LEMMA CaseOfNode ==
  ASSUME HealthTyped, review.kind = "node"
  PROVE  /\ review.node.active \in BOOLEAN /\ review.node.error \in BOOLEAN
         /\ review.node.beat \in Int
         /\ review.node.desired \in 0..2 /\ review.node.applied \in 0..2
<1>1. review.node \in [active : BOOLEAN, beat : Times, desired : 0..2, applied : 0..2,
                       serves : BOOLEAN, error : BOOLEAN]
  BY ReviewByKind DEF NodeReviews
<1>2. Times \subseteq Int
  BY HealthConstants DEF Times, Never
<1> QED
  BY <1>1, <1>2

LEMMA NodesJudged == ASSUME HealthTyped PROVE NodeVerdictsSound
<1> SUFFICES ASSUME review.kind = "node" PROVE NodeVerdictsSound
  BY DEF NodeVerdictsSound
<1> QED
  BY CaseOfNode, HealthConstants
  DEF NodeVerdictsSound, HeartbeatVerdict, ConfigurationVerdict, Fresh, Never

LEMMA CaseOfSite ==
  ASSUME HealthTyped, review.kind = "site", NEW n \in DOMAIN review.nodes
  PROVE  /\ review.site.live = TRUE
         /\ review.site.publishedAt \in {1, Now - 2}
         /\ review.nodes[n].beat \in {1, Now - 1}
         /\ review.nodes[n].nodeProbe.at \in {1, Now - 1}
         /\ review.nodes[n].nodeProbe.ok \in BOOLEAN
         /\ review.nodes[n].siteProbe.at \in {Never, Now - HeartbeatAge - 1, Now - 1}
         /\ review.nodes[n].siteProbe.ok \in BOOLEAN
<1>1. review \in SiteReviews
  BY ReviewByKind
<1>2. /\ review.nodes[n] \in NodeCases
      /\ review.site \in [live : {TRUE}, ipv6 : BOOLEAN, publishedAt : {1, Now - 2}]
  BY <1>1 DEF SiteReviews
<1>3. /\ review.nodes[n].beat \in {1, Now - 1}
      /\ review.nodes[n].nodeProbe \in [at : {1, Now - 1}, ok : BOOLEAN]
      /\ review.nodes[n].siteProbe \in Probes
  BY <1>2 DEF NodeCases
<1> QED
  BY <1>2, <1>3 DEF Probes

\* A node that is seen to pass by the words of the property is one by the code.
LEMMA SeenIsConfirmed ==
  ASSUME HealthTyped, review.kind = "site", NEW n \in DOMAIN review.nodes,
         review.nodes[n].siteProbe.ok, review.nodes[n].siteProbe.at >= review.site.publishedAt,
         Now <= review.nodes[n].siteProbe.at + ProbeAge,
         review.nodes[n].nodeProbe.ok, Now <= review.nodes[n].nodeProbe.at + ProbeAge,
         Now <= review.nodes[n].beat + HeartbeatAge
  PROVE  Observed(review.site, review.nodes[n], Now) /\ Passing(review.nodes[n])
<1>1. Passing(review.nodes[n])
  BY DEF Passing
<1>2. Fresh(review.nodes[n].siteProbe.at, Now, ProbeAge)
  <2> DEFINE at == review.nodes[n].siteProbe.at
             from == review.site.publishedAt
  <2>1. at \in {0, Now - HeartbeatAge - 1, Now - 1} /\ from \in {1, Now - 2}
        /\ at >= from /\ Now <= at + ProbeAge
    BY CaseOfSite DEF Never
  <2> HIDE DEF at, from
  <2>2. at # 0 /\ at <= Now + Skew
    BY <2>1, HealthConstants
  <2> QED
    BY <2>1, <2>2 DEF Fresh, Never, at
<1>3. ASSUME NEW at \in {1, Now - 1}, NEW age, Now <= at + age PROVE Fresh(at, Now, age)
  BY <1>3, HealthConstants DEF Fresh, Never
<1> QED
  BY <1>1, <1>2, <1>3, CaseOfSite DEF Observed

LEMMA ConfirmedIsSeen ==
  ASSUME HealthTyped, review.kind = "site", NEW n \in DOMAIN review.nodes,
         Observed(review.site, review.nodes[n], Now), Passing(review.nodes[n])
  PROVE  /\ review.nodes[n].siteProbe.ok /\ review.nodes[n].siteProbe.at >= review.site.publishedAt
         /\ Now <= review.nodes[n].siteProbe.at + ProbeAge
         /\ review.nodes[n].nodeProbe.ok /\ Now <= review.nodes[n].nodeProbe.at + ProbeAge
         /\ Now <= review.nodes[n].beat + HeartbeatAge
BY CaseOfSite, HealthConstants DEF Observed, Passing, Fresh, Never

LEMMA SitesJudged == ASSUME HealthTyped PROVE SiteVerdictSound
<1> SUFFICES ASSUME review.kind = "site" PROVE SiteVerdictSound
  BY DEF SiteVerdictSound
<1> DEFINE usable == Serving(review.site, review.nodes)
           sure == Confirmed(review.site, review.nodes, Now)
           unknown == {n \in usable : ~Observed(review.site, review.nodes[n], Now)}
           v == AvailabilityVerdict(review.site, review.nodes, Now)
           SeenOK(n) == LET m == review.nodes[n] IN
             /\ m.siteProbe.ok /\ m.siteProbe.at >= review.site.publishedAt
             /\ Now <= m.siteProbe.at + ProbeAge /\ m.nodeProbe.ok /\ Now <= m.nodeProbe.at + ProbeAge
             /\ Now <= m.beat + HeartbeatAge
<1>1. usable \subseteq DOMAIN review.nodes
  BY DEF Serving
<1>2. \A n \in usable : n \in sure <=> SeenOK(n)
  <2> SUFFICES ASSUME NEW n \in usable PROVE n \in sure <=> SeenOK(n)
    OBVIOUS
  <2>1. n \in sure <=> Observed(review.site, review.nodes[n], Now) /\ Passing(review.nodes[n])
    BY DEF Confirmed
  <2> QED
    BY <1>1, <2>1, SeenIsConfirmed, ConfirmedIsSeen
<1>3. sure \subseteq usable
  BY DEF Confirmed
<1>4. review.site.live = TRUE
  <2>1. review.site \in [live : {TRUE}, ipv6 : BOOLEAN, publishedAt : {1, Now - 2}]
    BY ReviewByKind DEF SiteReviews
  <2> QED
    BY <2>1
<1>5. v = IF usable = {} THEN "critical"
          ELSE IF sure = {} THEN IF unknown # {} THEN "unknown" ELSE "critical"
          ELSE IF sure # usable THEN "warning"
          ELSE "healthy"
  BY <1>4 DEF AvailabilityVerdict
<1>6. v = "healthy" => usable # {} /\ \A n \in usable : SeenOK(n)
  <2> HIDE DEF SeenOK, v, usable, sure, unknown
  <2> QED
    BY <1>2, <1>5
<1>7. (\E n \in usable : SeenOK(n)) => v \in {"healthy", "warning"}
  <2> HIDE DEF SeenOK, v, usable, sure, unknown
  <2> QED
    BY <1>2, <1>5
<1>8. v = "critical" => \A n \in usable : Observed(review.site, review.nodes[n], Now)
  <2>1. v = "critical" => usable = {} \/ unknown = {}
    <3> HIDE DEF v, usable, sure, unknown
    <3> QED
      BY <1>5
  <2> QED
    BY <2>1
<1> QED
  BY <1>6, <1>7, <1>8 DEF SiteVerdictSound

LEMMA CaseOfCertificate ==
  ASSUME HealthTyped, review.kind = "certificate"
  PROVE  /\ review.site.live = TRUE /\ review.site.published \in BOOLEAN
         /\ \A e \in review.site.serving : e \in Nat
         /\ \A c \in review.site.issued : c.updated \in Int /\ c.notAfter \in Nat
         /\ \A t \in review.tasks : t.updated \in Int /\ t.deadline \in Int
<1> DEFINE Issues == [notAfter : Expiries, updated : {1, Now - 1}]
<1>1. /\ review.tasks \in Maybe(Tasks)
      /\ review.site \in [live : {TRUE}, published : BOOLEAN, serving : Maybe(Expiries),
                          issued : Maybe(Issues)]
  BY ReviewByKind DEF CertificateReviews
<1>2. Expiries \subseteq Nat
  BY HealthConstants DEF Expiries
<1>3. review.site.serving \subseteq Expiries
  BY <1>1 DEF Maybe
<1>4. review.site.issued \subseteq Issues
  <2> HIDE DEF Issues
  <2>1. review.site.issued \in Maybe(Issues)
    BY <1>1
  <2>2. \A S \in Maybe(Issues) : S \subseteq Issues
    BY DEF Maybe
  <2> QED
    BY <2>1, <2>2
<1>5. review.tasks \subseteq Tasks
  BY <1>1 DEF Maybe
<1>6. \A t \in review.tasks : t.updated \in Int /\ t.deadline \in Int
  BY <1>5, HealthConstants DEF Tasks
<1>7. \A c \in review.site.issued : c.updated \in Int /\ c.notAfter \in Nat
  <2> SUFFICES ASSUME NEW c \in review.site.issued PROVE c.updated \in Int /\ c.notAfter \in Nat
    OBVIOUS
  <2>1. c \in Issues
    BY <1>4
  <2>2. c.notAfter \in Expiries
    BY <2>1
  <2>3. c.updated \in {1, Now - 1}
    BY <2>1
  <2>4. c.updated \in Int
    BY <2>3, HealthConstants
  <2> QED
    BY <1>2, <2>2, <2>4
<1>8. review.site.live = TRUE /\ review.site.published \in BOOLEAN
  BY <1>1
<1> QED
  BY <1>2, <1>3, <1>6, <1>7, <1>8

LEMMA CertificatesJudged == ASSUME HealthTyped PROVE CertificateVerdictSound
<1> SUFFICES ASSUME review.kind = "certificate" PROVE CertificateVerdictSound
  BY DEF CertificateVerdictSound
<1> DEFINE left == {IF e <= Now THEN 0 ELSE e - Now : e \in ServingExpiry(review.site)}
           byExpiry == IF left = {} THEN IF review.site.published THEN "unknown" ELSE "disabled"
                       ELSE IF \E e \in left : e <= Soon THEN "critical"
                       ELSE IF \E e \in left : e <= Renewal THEN "warning"
                       ELSE "healthy"
           late == \E t \in review.tasks : /\ \A c \in review.site.issued : c.updated <= t.updated
                                           /\ TaskVerdict(t, Now) = "warning"
           v == CertificateVerdict(review.site, review.tasks, Now)
<1>1. v = IF late /\ Rank(byExpiry) > Rank("warning") THEN "warning" ELSE byExpiry
  BY CaseOfCertificate DEF CertificateVerdict
<1>2. ASSUME review.site.published, NEW e \in review.site.serving, e <= Now + Soon
      PROVE  v = "critical"
  <2>1. e \in ServingExpiry(review.site) /\ e \in Nat
    BY <1>2, CaseOfCertificate DEF ServingExpiry
  <2>2. (IF e <= Now THEN 0 ELSE e - Now) \in left
    BY <2>1
  <2>3. (IF e <= Now THEN 0 ELSE e - Now) <= Soon
    BY <1>2, <2>1, HealthConstants
  <2>4. byExpiry = "critical"
    <3> HIDE DEF left
    <3> QED
      BY <2>2, <2>3
  <2>5. ~(Rank("critical") > Rank("warning"))
    BY DEF Rank
  <2> HIDE DEF v, late, byExpiry
  <2> QED
    BY <1>1, <2>4, <2>5
<1>3. ASSUME v = "healthy", NEW t \in review.tasks, t.status = "failed"
      PROVE  \E c \in review.site.issued : c.updated > t.updated
  <2>1. byExpiry = "healthy" /\ ~late
    <3>1. Rank("healthy") > Rank("warning")
      BY DEF Rank
    <3> HIDE DEF v, late, byExpiry
    <3> QED
      BY <1>1, <1>3, <3>1
  <2>2. TaskVerdict(t, Now) = "warning"
    BY <1>3 DEF TaskVerdict
  <2>3. \E c \in review.site.issued : ~(c.updated <= t.updated)
    BY <2>1, <2>2
  <2> QED
    BY <2>3, CaseOfCertificate
<1> QED
  BY <1>2, <1>3 DEF CertificateVerdictSound

LEMMA RunsJudged == ASSUME HealthTyped PROVE RunVerdictsSound
<1>0. Times \subseteq Int
  BY HealthConstants DEF Times, Never
<1>1. ASSUME review.kind = "backup", BackupVerdict(review.run, Now) = "healthy"
      PROVE  /\ review.run.succeeded # Never /\ Now < review.run.succeeded + BackupAge
             /\ review.run.state # "failed"
  <2>1. review.run \in [state : {"active", "failed", "succeeded"}, started : Times,
                        updated : Times, succeeded : Times]
    BY <1>1, ReviewByKind DEF BackupReviews
  <2>2. review.run.succeeded \in Int
    BY <1>0, <2>1
  <2>3. /\ BackupState(review.run, Now) \notin {"unknown", "stale", "stalled", "failed"}
        /\ review.run.succeeded # Never
    BY <1>1 DEF BackupVerdict
  <2> QED
    BY <2>2, <2>3, HealthConstants DEF BackupState
<1>2. ASSUME review.kind = "upgrade"
      PROVE  /\ review.task.managed = TRUE /\ review.task.status \in {"failed", "active", "done"}
             /\ review.task.deadline \in Int
             /\ review.rollout.updated \in Int
             /\ review.round.finished \in Int /\ review.round.errors \in BOOLEAN
  <2> DEFINE Plain == [managed : {TRUE}, status : {"failed", "active", "done"}, deadline : Times]
             Managed == {[t EXCEPT !.managed = TRUE] : t \in Plain}
  <2>1. review \in [kind : {"upgrade"}, task : Managed,
          rollout : [state : {"none", "cancelled", "paused", "running", "finished"}, updated : Times],
          round : [finished : Times, errors : BOOLEAN]]
    BY <1>2, ReviewByKind DEF UpgradeReviews
  <2>2. /\ review.task \in Managed
        /\ review.rollout \in [state : {"none", "cancelled", "paused", "running", "finished"}, updated : Times]
        /\ review.round \in [finished : Times, errors : BOOLEAN]
    <3> HIDE DEF Managed
    <3> QED
      BY <2>1
  <2>3. PICK t \in Plain : review.task = [t EXCEPT !.managed = TRUE]
    BY <2>2
  <2>4. review.task \in Plain
    BY <2>3
  <2> QED
    BY <1>0, <2>2, <2>4
<1>3. ASSUME review.kind = "upgrade"
      PROVE  /\ UpgradeVerdict(review.task, Now) = "healthy" =>
                  review.task.status = "done" \/ (review.task.status = "active" /\ Now <= review.task.deadline)
             /\ "healthy" = ReconcilerVerdict(review.round, Now) =>
                  Now <= review.round.finished + ProbeAge /\ ~review.round.errors
             /\ review.rollout.state = "running" /\ RolloutVerdict(review.rollout, Now) = "healthy" =>
                  Now <= review.rollout.updated + ProbeAge
  <2>1. UpgradeVerdict(review.task, Now) = "healthy" =>
          review.task.status = "done" \/ (review.task.status = "active" /\ Now <= review.task.deadline)
    BY <1>2, <1>3, HealthConstants DEF UpgradeVerdict
  <2>2. "healthy" = ReconcilerVerdict(review.round, Now) =>
          Now <= review.round.finished + ProbeAge /\ ~review.round.errors
    BY <1>2, <1>3, HealthConstants DEF ReconcilerVerdict, Fresh
  <2>3. review.rollout.state = "running" /\ RolloutVerdict(review.rollout, Now) = "healthy" =>
          Now <= review.rollout.updated + ProbeAge
    BY <1>2, <1>3, HealthConstants DEF RolloutVerdict, Fresh
  <2> QED
    BY <2>1, <2>2, <2>3
<1> QED
  BY <1>1, <1>3 DEF RunVerdictsSound

-------------------------------------------------------------------------------
(* The answer *)

LEMMA OverallIsWorst ==
  ASSUME HealthTyped, Answer # {}
  PROVE  Overall \in Answer /\ \A v \in Answer : Rank(Overall) <= Rank(v)
<1>1. Answer \subseteq Verdicts
  BY DEF HealthTyped, Answer, Presented, Verdicts, Attention
<1>2. \E v \in Answer : \A w \in Answer : Rank(v) <= Rank(w)
  <2>1. Verdicts = {"critical", "warning", "unknown", "healthy", "disabled"}
    BY DEF Verdicts, Attention
  <2>2. /\ Rank("critical") = 0 /\ Rank("warning") = 1 /\ Rank("unknown") = 2
        /\ Rank("healthy") = 3 /\ Rank("disabled") = 4
    BY DEF Rank
  <2>3. CASE "critical" \in Answer
    BY <1>1, <2>1, <2>2, <2>3
  <2>4. CASE "critical" \notin Answer /\ "warning" \in Answer
    BY <1>1, <2>1, <2>2, <2>4
  <2>5. CASE "critical" \notin Answer /\ "warning" \notin Answer /\ "unknown" \in Answer
    BY <1>1, <2>1, <2>2, <2>5
  <2>6. CASE /\ "critical" \notin Answer /\ "warning" \notin Answer /\ "unknown" \notin Answer
             /\ "healthy" \in Answer
    BY <1>1, <2>1, <2>2, <2>6
  <2>7. CASE /\ "critical" \notin Answer /\ "warning" \notin Answer /\ "unknown" \notin Answer
             /\ "healthy" \notin Answer
    <3>1. \A v \in Answer : v = "disabled"
      BY <1>1, <2>1, <2>7
    <3>2. \E v \in Answer : TRUE
      OBVIOUS
    <3> QED
      BY <2>2, <3>1, <3>2
  <2> QED
    BY <2>3, <2>4, <2>5, <2>6, <2>7
<1> QED
  BY <1>2 DEF Overall

LEMMA WorstInAttention ==
  ASSUME HealthTyped, NEW v \in Answer, v \in Attention
  PROVE  Overall \in Attention
<1>1. Overall \in Answer /\ Rank(Overall) <= Rank(v)
  BY OverallIsWorst
<1>2. Overall \in Verdicts
  BY <1>1 DEF HealthTyped, Answer, Presented, Verdicts, Attention
<1> QED
  BY <1>1, <1>2 DEF Rank, Verdicts, Attention

LEMMA AnswersHonestly == ASSUME HealthTyped PROVE AnswerHonest
<1>1. ASSUME lastError \/ Stale PROVE Overall \in Attention
  <2>1. "unknown" \in Answer /\ "unknown" \in Attention
    BY <1>1 DEF Answer, Attention
  <2> QED
    BY <2>1, WorstInAttention
<1>2. ASSUME NEW c \in DOMAIN saved.checks
      PROVE  /\ Presented(c) = "healthy" => saved.at <= tick + Skew /\ tick < saved.at + Validity
             /\ NeedsAttention(saved.checks[c].verdict) => Presented(c) = saved.checks[c].verdict
             /\ NeedsAttention(Presented(c)) => Overall \in Attention
  <2>1. Presented(c) = "healthy" => ~Stale
    BY DEF Presented
  <2>2. ~Stale => saved.at <= tick + Skew /\ tick < saved.at + Validity
    BY HealthConstants DEF HealthTyped, Stale
  <2>3. NeedsAttention(saved.checks[c].verdict) => Presented(c) = saved.checks[c].verdict
    BY DEF NeedsAttention, Attention, Presented
  <2>4. NeedsAttention(Presented(c)) => Overall \in Attention
    BY WorstInAttention DEF NeedsAttention, Answer
  <2> QED
    BY <2>1, <2>2, <2>3, <2>4
<1> QED
  BY <1>1, <1>2 DEF AnswerHonest

-------------------------------------------------------------------------------
(* The history *)

LEMMA HealthStarts == HealthCenterInit => HealthInv
<1> SUFFICES ASSUME HealthCenterInit PROVE HealthInv
  OBVIOUS
<1>1. past = << >> /\ Len(past) = 0 /\ DOMAIN saved.checks = {} /\ saved.recoveries = {}
  BY DEF HealthCenterInit
<1>2. HealthTyped
  <2>1. past \in Seq(Collections)
    BY <1>1
  <2> QED
    BY <1>1, <2>1 DEF HealthCenterInit, HealthTyped, Never
<1>3. SavedIsLast /\ RunsBegin
  BY <1>1 DEF SavedIsLast, RunsBegin
<1>4. EndedRuns = {}
  <2>1. 1..(Len(past) - 1) = {}
    BY <1>1
  <2> SUFFICES ASSUME NEW r PROVE r \notin EndedRuns
    OBVIOUS
  <2> QED
    BY <2>1, EndedRunsPointwise
<1>5. HistoryFaithful
  BY <1>1, <1>4, HistoryInParts DEF SinceFaithful
<1> QED
  BY <1>2, <1>3, <1>5 DEF HealthInv

\* What a collection adds.
LEMMA PastGrows ==
  ASSUME HealthTyped, NEW verdicts \in UNION {[S -> Verdicts] : S \in SUBSET CheckIds},
         CollectHealth(verdicts)
  PROVE  /\ Len(past) \in Nat /\ Len(past') = Len(past) + 1
         /\ \A k \in 1..Len(past) : past'[k] = past[k]
         /\ past'[Len(past) + 1].at = tick /\ past'[Len(past) + 1].verdicts = verdicts
         /\ past' \in Seq(Collections)
         /\ DOMAIN verdicts \subseteq CheckIds
         /\ \A c \in DOMAIN verdicts : verdicts[c] \in Verdicts
<1> DEFINE new == [at |-> tick, verdicts |-> verdicts]
<1>1. new \in Collections
  BY DEF HealthTyped, Collections
<1>2. past' = Append(past, new) /\ past \in Seq(Collections)
  BY DEF CollectHealth, HealthTyped
<1>3. /\ Append(past, new) \in Seq(Collections)
      /\ Len(Append(past, new)) = Len(past) + 1
      /\ Append(past, new)[Len(past) + 1] = new
      /\ \A k \in 1..Len(past) : Append(past, new)[k] = past[k]
  <2> HIDE DEF new
  <2> QED
    BY <1>1, <1>2, AppendProperties
<1>4. Len(past) \in Nat
  BY <1>2, LenProperties
<1>5. DOMAIN verdicts \subseteq CheckIds /\ \A c \in DOMAIN verdicts : verdicts[c] \in Verdicts
  OBVIOUS
<1> QED
  BY <1>2, <1>3, <1>4, <1>5

LEMMA PastTyped ==
  ASSUME HealthTyped, NEW k \in 1..Len(past)
  PROVE  /\ past[k].at \in Nat
         /\ DOMAIN past[k].verdicts \subseteq CheckIds
         /\ \A c \in DOMAIN past[k].verdicts : past[k].verdicts[c] \in Verdicts
<1>1. past[k] \in Collections
  BY ElementOfSeq DEF HealthTyped
<1> QED
  BY <1>1 DEF Collections

\* The runs so far are what they were, and the new collection goes on from them.
LEMMA RunsStay ==
  ASSUME HealthTyped, NEW verdicts \in UNION {[S -> Verdicts] : S \in SUBSET CheckIds},
         CollectHealth(verdicts), NEW c, NEW n \in Nat, n = Len(past)
  PROVE  /\ \A k \in 1..n : Ill(c, k)' <=> Ill(c, k)
         /\ Ill(c, n + 1)' <=> c \in DOMAIN verdicts /\ NeedsAttention(verdicts[c])
         /\ \A j \in 1..n : \A i \in 1..j : Run(c, i, j)' <=> Run(c, i, j)
         /\ \A i \in 1..n : Run(c, i, n + 1)' <=>
              Run(c, i, n) /\ Ill(c, n + 1)'
         /\ Run(c, n + 1, n + 1)' <=>
              Ill(c, n + 1)' /\ (n = 0 \/ ~Ill(c, n))
<1>0. n \in Nat
  OBVIOUS
<1>1. \A k \in 1..n : Ill(c, k)' <=> Ill(c, k)
  BY PastGrows DEF Ill
<1>2. Ill(c, n + 1)' <=> c \in DOMAIN verdicts /\ NeedsAttention(verdicts[c])
  <2>1. Ill(c, n + 1)' <=> c \in DOMAIN (past'[n + 1].verdicts) /\ NeedsAttention(past'[n + 1].verdicts[c])
    BY DEF Ill, CollectHealth
  <2> QED
    BY <2>1, PastGrows
<1>3. \A j \in 1..n : \A i \in 1..j : Run(c, i, j)' <=> Run(c, i, j)
  <2> SUFFICES ASSUME NEW j \in 1..n, NEW i \in 1..j PROVE Run(c, i, j)' <=> Run(c, i, j)
    OBVIOUS
  <2>1. Run(c, i, j)' <=> (\A k \in i..j : Ill(c, k)') /\ (i = 1 \/ ~Ill(c, i - 1)')
    BY DEF Run
  <2>2. \A k \in i..j : k \in 1..n
    BY <1>0
  <2>3. i = 1 \/ i - 1 \in 1..n
    BY <1>0
  <2> QED
    BY <1>1, <2>1, <2>2, <2>3 DEF Run
<1>4. \A i \in 1..n : Run(c, i, n + 1)' <=> Run(c, i, n) /\ Ill(c, n + 1)'
  <2> SUFFICES ASSUME NEW i \in 1..n PROVE Run(c, i, n + 1)' <=> Run(c, i, n) /\ Ill(c, n + 1)'
    OBVIOUS
  <2>1. Run(c, i, n + 1)' <=> (\A k \in i..(n + 1) : Ill(c, k)') /\ (i = 1 \/ ~Ill(c, i - 1)')
    BY DEF Run
  <2>2. i..(n + 1) = (i..n) \union {n + 1}
    BY <1>0
  <2>3. \A k \in i..n : k \in 1..n
    BY <1>0
  <2>4. i = 1 \/ i - 1 \in 1..n
    BY <1>0
  <2> QED
    BY <1>1, <2>1, <2>2, <2>3, <2>4 DEF Run
<1>5. Run(c, n + 1, n + 1)' <=> Ill(c, n + 1)' /\ (n = 0 \/ ~Ill(c, n))
  <2>1. Run(c, n + 1, n + 1)' <=>
          (\A k \in (n + 1)..(n + 1) : Ill(c, k)') /\ (n + 1 = 1 \/ ~Ill(c, n + 1 - 1)')
    BY DEF Run
  <2>2. (n + 1)..(n + 1) = {n + 1} /\ n + 1 - 1 = n /\ (n + 1 = 1 <=> n = 0)
    BY <1>0
  <2>3. n = 0 \/ n \in 1..n
    BY <1>0
  <2> QED
    BY <1>1, <2>1, <2>2, <2>3
<1> QED
  BY <1>1, <1>2, <1>3, <1>4, <1>5

\* A check needs attention in the snapshot when it does in the last collection.
LEMMA SavedIll ==
  ASSUME HealthInv, Len(past) \in Nat, NEW c
  PROVE  c \in DOMAIN saved.checks /\ NeedsAttention(saved.checks[c].verdict) <=>
           Len(past) > 0 /\ Ill(c, Len(past))
BY DEF HealthInv, SavedIsLast, Ill

LEMMA CollectKeeps ==
  ASSUME HealthInv, NEW verdicts \in UNION {[S -> Verdicts] : S \in SUBSET CheckIds},
         CollectHealth(verdicts), NEW n \in Nat, n = Len(past)
  PROVE  HealthInv'
<1> DEFINE checks == [c \in DOMAIN verdicts |->
             [verdict |-> verdicts[c],
              since |-> IF c \in DOMAIN saved.checks /\ GoesOn(saved.checks[c].verdict, verdicts[c])
                        THEN saved.checks[c].since ELSE tick]]
<1>0. HealthTyped /\ SavedIsLast /\ RunsBegin /\ HistoryFaithful /\ n \in Nat /\ tick \in Nat
  BY PastGrows DEF HealthInv, HealthTyped
<1>1. /\ (saved.at)' = tick /\ (saved.checks)' = checks
      /\ (saved.recoveries)' =
           {r \in saved.recoveries \union {Recovery(c, HowEnded(c, verdicts)) : c \in Over(verdicts)} :
              r.finished + Retention > tick}
      /\ tick > saved.at
  BY DEF CollectHealth, Saved
<1>2. /\ Len(past') = n + 1
      /\ \A k \in 1..n : past'[k] = past[k]
      /\ past'[n + 1].at = tick /\ past'[n + 1].verdicts = verdicts
      /\ past' \in Seq(Collections)
      /\ DOMAIN verdicts \subseteq CheckIds
      /\ \A c \in DOMAIN verdicts : verdicts[c] \in Verdicts
  BY <1>0, PastGrows
<1>3. /\ DOMAIN checks = DOMAIN verdicts
      /\ \A c \in DOMAIN verdicts : checks[c].verdict = verdicts[c]
  OBVIOUS
<1>4. \A c \in DOMAIN verdicts :
        checks[c].since = IF c \in DOMAIN saved.checks /\ GoesOn(saved.checks[c].verdict, verdicts[c])
                          THEN saved.checks[c].since ELSE tick
  OBVIOUS
<1> HIDE DEF checks
<1>5. HealthTyped'
  <2>1. UNCHANGED review /\ UNCHANGED tick /\ lastError' \in BOOLEAN
    BY DEF CollectHealth
  <2>2. (saved.at)' \in Nat /\ \A c \in DOMAIN (saved.checks)' : (saved.checks)'[c].verdict \in Verdicts
    BY <1>0, <1>1, <1>2, <1>3
  <2>3. ReviewCases' = ReviewCases
    BY DEF ReviewCases, Tasks, Times, NodeCases, Probes, Expiries, Maybe
  <2> QED
    BY <1>0, <1>2, <2>1, <2>2, <2>3 DEF HealthTyped
<1>6. SavedIsLast'
  <2>1. Len(past') > 0 /\ Len(past') # 0
    BY <1>0, <1>2
  <2>2. past'[Len(past')].verdicts = verdicts
    BY <1>2
  <2> QED
    BY <1>1, <1>3, <2>1, <2>2 DEF SavedIsLast
<1>7. \A c : /\ \A k \in 1..n : Ill(c, k)' <=> Ill(c, k)
             /\ Ill(c, n + 1)' <=> c \in DOMAIN verdicts /\ NeedsAttention(verdicts[c])
             /\ \A j \in 1..n : \A i \in 1..j : Run(c, i, j)' <=> Run(c, i, j)
             /\ \A i \in 1..n : Run(c, i, n + 1)' <=> Run(c, i, n) /\ Ill(c, n + 1)'
             /\ Run(c, n + 1, n + 1)' <=> Ill(c, n + 1)' /\ (n = 0 \/ ~Ill(c, n))
  BY <1>0, RunsStay
<1>8. \A c : c \in DOMAIN saved.checks /\ NeedsAttention(saved.checks[c].verdict) <=>
               n > 0 /\ Ill(c, n)
  BY <1>0, SavedIll
<1>9. RunsBegin'
  <2> SUFFICES ASSUME NEW c \in CheckIds, Ill(c, n + 1)'
               PROVE  \E i \in 1..(n + 1) : Run(c, i, n + 1)'
    BY <1>2 DEF RunsBegin
  <2>1. CASE n > 0 /\ Ill(c, n)
    <3>1. PICK i \in 1..n : Run(c, i, n)
      BY <1>0, <2>1 DEF RunsBegin
    <3> QED
      BY <1>0, <1>7, <3>1
  <2>2. CASE n = 0 \/ ~Ill(c, n)
    BY <1>0, <1>7, <2>2
  <2> QED
    BY <1>0, <2>1, <2>2
<1>10. \A c \in DOMAIN saved.checks : \A i \in 1..n : Run(c, i, n) => saved.checks[c].since = past[i].at
  BY <1>0, HistoryInParts DEF SinceFaithful
<1>11. SinceFaithful'
  <2> SUFFICES ASSUME NEW c \in DOMAIN verdicts, NEW i \in 1..(n + 1), Run(c, i, n + 1)'
               PROVE  checks[c].since = past'[i].at
    BY <1>1, <1>2, <1>3 DEF SinceFaithful
  <2>1. CASE i \in 1..n
    <3>1. Run(c, i, n) /\ Ill(c, n + 1)'
      BY <1>7, <2>1
    <3>2. Ill(c, n) /\ n > 0
      BY <1>0, <2>1, <3>1 DEF Run
    <3>3. c \in DOMAIN saved.checks /\ NeedsAttention(saved.checks[c].verdict)
      BY <1>8, <3>2
    <3>4. NeedsAttention(verdicts[c])
      BY <1>7, <3>1
    <3>5. checks[c].since = saved.checks[c].since
      BY <1>4, <3>3, <3>4 DEF GoesOn
    <3> QED
      BY <1>2, <1>10, <2>1, <3>1, <3>3, <3>5
  <2>2. CASE i = n + 1
    <3>1. Ill(c, n + 1)' /\ (n = 0 \/ ~Ill(c, n))
      BY <1>7, <2>2
    <3>2. ~(c \in DOMAIN saved.checks /\ NeedsAttention(saved.checks[c].verdict))
      BY <1>8, <3>1
    <3>3. NeedsAttention(verdicts[c])
      BY <1>7, <3>1
    <3>4. checks[c].since = tick
      BY <1>4, <3>2, <3>3 DEF GoesOn
    <3> QED
      BY <1>2, <2>2, <3>4
  <2> QED
    BY <1>0, <2>1, <2>2
<1>12. \A c : Over(verdicts) \subseteq CheckIds /\
              (c \in Over(verdicts) <=> n > 0 /\ Ill(c, n) /\ ~Ill(c, n + 1)')
  <2> TAKE c
  <2>1. c \in Over(verdicts) <=> n > 0 /\ Ill(c, n) /\ ~Ill(c, n + 1)'
    BY <1>7, <1>8 DEF Over
  <2>2. DOMAIN saved.checks \subseteq CheckIds
    <3>1. CASE n = 0
      BY <1>0, <3>1 DEF SavedIsLast
    <3>2. CASE n > 0
      <4>1. n \in 1..Len(past)
        BY <1>0, <3>2
      <4> QED
        BY <1>0, <3>2, <4>1, PastTyped DEF SavedIsLast
    <3> QED
      BY <1>0, <3>1, <3>2
  <2> QED
    BY <2>1, <2>2 DEF Over
<1>13. \A c \in Over(verdicts), i \in 1..n :
         Run(c, i, n) => Recovery(c, HowEnded(c, verdicts)) = RecoveryOf(c, i, n)'
  <2> TAKE c \in Over(verdicts), i \in 1..n
  <2> HAVE Run(c, i, n)
  <2>1. n > 0 /\ Ill(c, n) /\ ~Ill(c, n + 1)'
    BY <1>12
  <2>2. c \in DOMAIN saved.checks /\ saved.checks[c].verdict = past[n].verdicts[c]
    BY <1>0, <1>8, <2>1 DEF SavedIsLast
  <2>3. saved.checks[c].since = past[i].at
    BY <1>10, <2>2
  <2>4. HowEnded(c, verdicts) =
          IF c \in DOMAIN verdicts /\ verdicts[c] = "healthy" THEN "resolved" ELSE "retired"
    <3>1. c \in DOMAIN verdicts => ~NeedsAttention(verdicts[c])
      BY <1>7, <2>1
    <3>2. c \in DOMAIN verdicts => (verdicts[c] # "disabled" <=> verdicts[c] = "healthy")
      BY <1>2, <3>1 DEF NeedsAttention, Verdicts
    <3> QED
      BY <3>2 DEF HowEnded
  <2>5. /\ past'[n] = past[n] /\ past'[i] = past[i]
        /\ past'[n + 1].at = tick /\ past'[n + 1].verdicts = verdicts
    BY <1>0, <1>2, <2>1
  <2>6. RecoveryOf(c, i, n)' =
          [check |-> c, from |-> past'[n].verdicts[c], started |-> past'[i].at,
           finished |-> past'[n + 1].at,
           outcome |-> IF /\ c \in DOMAIN (past'[n + 1].verdicts)
                          /\ past'[n + 1].verdicts[c] = "healthy"
                       THEN "resolved" ELSE "retired"]
    BY DEF RecoveryOf
  <2> QED
    BY <2>2, <2>3, <2>4, <2>5, <2>6 DEF Recovery
<1>14. ASSUME NEW c \in CheckIds, NEW j \in 1..(n - 1), NEW i \in 1..j
       PROVE  /\ RecoveryOf(c, i, j)' = RecoveryOf(c, i, j)
              /\ EndedRun(c, i, j)' <=>
                   /\ Run(c, i, j) /\ ~Ill(c, j + 1)
                   /\ past[j + 1].at + Retention > tick
  <2>1. j \in 1..n /\ j + 1 \in 1..n /\ i \in 1..n /\ j \in 1..(Len(past') - 1)
    BY <1>0, <1>2
  <2>2. past'[j] = past[j] /\ past'[j + 1] = past[j + 1] /\ past'[i] = past[i]
    BY <1>2, <2>1
  <2>3. RecoveryOf(c, i, j)' = RecoveryOf(c, i, j)
    BY <2>2 DEF RecoveryOf
  <2>4. (Run(c, i, j)' <=> Run(c, i, j)) /\ (Ill(c, j + 1)' <=> Ill(c, j + 1))
    BY <1>7, <2>1
  <2>5. EndedRun(c, i, j)' <=>
          /\ Run(c, i, j)' /\ ~Ill(c, j + 1)'
          /\ past'[j + 1].at + Retention > (saved.at)'
    BY <2>1 DEF EndedRun
  <2> QED
    BY <1>1, <2>2, <2>3, <2>4, <2>5
<1>15. \A r : r \in saved.recoveries <=>
                \E c \in CheckIds, j \in 1..(n - 1) : \E i \in 1..j :
                  EndedRun(c, i, j) /\ r = RecoveryOf(c, i, j)
  BY <1>0, HistoryInParts, EndedRunsPointwise
<1>16. ASSUME NEW r, r \in (saved.recoveries)' PROVE r \in EndedRuns'
  <2>1. r.finished + Retention > tick
    BY <1>1, <1>16
  <2>2. CASE r \in saved.recoveries
    <3>1. PICK c \in CheckIds, j \in 1..(n - 1) : \E i \in 1..j :
                  EndedRun(c, i, j) /\ r = RecoveryOf(c, i, j)
      BY <1>15, <2>2
    <3>2. PICK i \in 1..j : EndedRun(c, i, j) /\ r = RecoveryOf(c, i, j)
      BY <3>1
    <3>3. r.finished = past[j + 1].at
      BY <3>2 DEF RecoveryOf
    <3>4. EndedRun(c, i, j)' /\ r = RecoveryOf(c, i, j)'
      BY <1>14, <2>1, <3>2, <3>3 DEF EndedRun
    <3>5. j \in 1..(Len(past') - 1)
      BY <1>0, <1>2
    <3> QED
      BY <3>4, <3>5, EndedRunsPointwiseNext
  <2>3. CASE r \in {Recovery(c, HowEnded(c, verdicts)) : c \in Over(verdicts)}
    <3>1. PICK c \in Over(verdicts) : r = Recovery(c, HowEnded(c, verdicts))
      BY <2>3
    <3>2. c \in CheckIds /\ n > 0 /\ Ill(c, n) /\ ~Ill(c, n + 1)'
      BY <1>12
    <3>3. PICK i \in 1..n : Run(c, i, n)
      BY <1>0, <3>2 DEF RunsBegin
    <3>4. r = RecoveryOf(c, i, n)'
      BY <1>13, <3>1, <3>3
    <3>5. n \in 1..(Len(past') - 1) /\ n \in 1..n
      BY <1>0, <1>2, <3>2
    <3>6. r.finished = tick
      BY <3>1 DEF Recovery
    <3>7. past'[n + 1].at + Retention > (saved.at)'
      BY <1>1, <1>2, <2>1, <3>6
    <3>8. Run(c, i, n)'
      BY <1>7, <3>3, <3>5
    <3>9. EndedRun(c, i, n)'
      BY <3>2, <3>5, <3>7, <3>8 DEF EndedRun
    <3> QED
      BY <3>2, <3>4, <3>5, <3>9, EndedRunsPointwiseNext
  <2> QED
    BY <1>1, <1>16, <2>2, <2>3
<1>17. ASSUME NEW r, r \in EndedRuns' PROVE r \in (saved.recoveries)'
  <2>1. PICK c \in CheckIds, j \in 1..(Len(past') - 1) : \E i \in 1..j :
           EndedRun(c, i, j)' /\ r = RecoveryOf(c, i, j)'
    BY <1>17, EndedRunsPointwiseNext
  <2>2. PICK i \in 1..j : EndedRun(c, i, j)' /\ r = RecoveryOf(c, i, j)'
    BY <2>1
  <2>3. CASE j \in 1..(n - 1)
    <3>1. /\ r = RecoveryOf(c, i, j)
          /\ Run(c, i, j) /\ ~Ill(c, j + 1) /\ past[j + 1].at + Retention > tick
      BY <1>14, <2>2, <2>3
    <3>2. j + 1 \in 1..Len(past) /\ past[j + 1].at \in Nat
      BY <1>0, <2>3, PastTyped
    <3>3. past[j + 1].at + Retention > saved.at
      BY <1>0, <1>1, <3>1, <3>2, HealthConstants DEF HealthTyped
    <3>4. EndedRun(c, i, j)
      BY <2>3, <3>1, <3>3 DEF EndedRun
    <3>5. r \in saved.recoveries
      BY <1>15, <2>3, <3>1, <3>4
    <3>6. r.finished = past[j + 1].at
      BY <3>1 DEF RecoveryOf
    <3> QED
      BY <1>1, <3>1, <3>5, <3>6
  <2>4. CASE j = n /\ n > 0
    <3>1. /\ Run(c, i, n)' /\ ~Ill(c, n + 1)'
          /\ past'[n + 1].at + Retention > (saved.at)'
      BY <2>2, <2>4 DEF EndedRun
    <3>2. i \in 1..n /\ n \in 1..n
      BY <1>0, <2>4
    <3>3. Run(c, i, n)
      BY <1>7, <3>1, <3>2
    <3>4. Ill(c, n)
      BY <1>0, <3>2, <3>3 DEF Run
    <3>5. c \in Over(verdicts)
      BY <1>12, <2>4, <3>1, <3>4
    <3>6. r = Recovery(c, HowEnded(c, verdicts))
      BY <1>13, <2>2, <2>4, <3>2, <3>3, <3>5
    <3>7. r.finished = tick
      BY <3>6 DEF Recovery
    <3> QED
      BY <1>1, <1>2, <3>1, <3>5, <3>6, <3>7
  <2> QED
    BY <1>0, <1>2, <2>3, <2>4
<1>18. HistoryFaithful'
  <2>1. (saved.recoveries)' = EndedRuns'
    BY <1>16, <1>17, <1>1, SetExtensionality
  <2> QED
    BY <1>11, <2>1, HistoryInPartsNext
<1> QED
  BY <1>5, <1>6, <1>9, <1>18 DEF HealthInv

\* Nothing but a collection writes the snapshot.
LEMMA RestKeeps ==
  ASSUME HealthInv, UNCHANGED <<review, saved, past>>, tick' \in Nat, lastError' \in BOOLEAN
  PROVE  HealthInv'
<1>1. HealthTyped'
  <2>1. ReviewCases' = ReviewCases
    BY DEF ReviewCases, Tasks, Times, NodeCases, Probes, Expiries, Maybe
  <2> QED
    BY <2>1 DEF HealthInv, HealthTyped
<1>2. SavedIsLast'
  BY DEF HealthInv, SavedIsLast
<1>3. /\ \A c, k : Ill(c, k)' <=> Ill(c, k)
      /\ \A c, i, j : Run(c, i, j)' <=> Run(c, i, j)
  BY DEF Run, Ill
<1>4. RunsBegin' /\ SinceFaithful'
  BY <1>3, HistoryInParts DEF HealthInv, RunsBegin, SinceFaithful
<1>5. EndedRuns' = EndedRuns
  <2> SUFFICES ASSUME NEW r PROVE r \in EndedRuns' <=> r \in EndedRuns
    OBVIOUS
  <2>1. \A c, i, j : /\ EndedRun(c, i, j)' <=> EndedRun(c, i, j)
                     /\ RecoveryOf(c, i, j)' = RecoveryOf(c, i, j)
    BY <1>3 DEF EndedRun, RecoveryOf
  <2> QED
    BY <2>1, EndedRunsPointwise, EndedRunsPointwiseNext
<1>6. HistoryFaithful'
  BY <1>4, <1>5, HistoryInParts, HistoryInPartsNext DEF HealthInv
<1> QED
  BY <1>1, <1>2, <1>4, <1>6 DEF HealthInv

LEMMA HealthStepKeeps ==
  ASSUME HealthInv, [SnapshotNext]_healthCenterVars
  PROVE  HealthInv'
<1>0. tick \in Nat /\ lastError \in BOOLEAN /\ Len(past) \in Nat
  BY LenProperties DEF HealthInv, HealthTyped
<1>1. CASE \E S \in SUBSET CheckIds : \E verdicts \in [S -> Verdicts] : CollectHealth(verdicts)
  <2>1. PICK S \in SUBSET CheckIds : \E verdicts \in [S -> Verdicts] : CollectHealth(verdicts)
    BY <1>1
  <2>2. PICK verdicts \in [S -> Verdicts] : CollectHealth(verdicts)
    BY <2>1
  <2>3. verdicts \in UNION {[T -> Verdicts] : T \in SUBSET CheckIds}
    OBVIOUS
  <2> QED
    BY <2>2, <2>3, <1>0, CollectKeeps
<1>2. CASE CollectFails \/ RestartHealthCenter
  BY <1>0, <1>2, RestKeeps DEF CollectFails, RestartHealthCenter
<1>3. CASE PassTime
  <2>1. tick' \in Nat
    BY <1>3 DEF PassTime
  <2> QED
    BY <1>0, <1>3, <2>1, RestKeeps DEF PassTime
<1>4. CASE UNCHANGED healthCenterVars
  BY <1>0, <1>4, RestKeeps DEF healthCenterVars
<1> QED
  BY <1>1, <1>2, <1>3, <1>4 DEF SnapshotNext

\* What the health center says is backed by what was seen: verdicts are green
\* only on fresh evidence, each recovery is a run of a problem that has ended
\* with its first sighting, and no stale snapshot answers green
\* (control/system_health.go, store/system_health.go).
THEOREM HealthCenterIsHonest == HealthCenterSpec => []HealthCenterHonest
<1>1. HealthCenterInit => HealthInv
  BY HealthStarts
<1>2. HealthInv /\ [SnapshotNext]_healthCenterVars => HealthInv'
  BY HealthStepKeeps
<1>3. HealthInv => HealthCenterHonest
  BY NodesJudged, SitesJudged, CertificatesJudged, RunsJudged, AnswersHonestly
  DEF HealthInv, HealthCenterHonest
<1> QED
  BY <1>1, <1>2, <1>3, PTL DEF HealthCenterSpec
===============================================================================
