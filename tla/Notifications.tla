---------------------------- MODULE Notifications ----------------------------
(***************************************************************************)
(* What the controller tells its administrators: the messages of the       *)
(* inbox, which each listing brings up to date from the tasks and jobs     *)
(* (control/messages.go, store/messages.go), and the mails about one key,  *)
(* here a node's score gate, which are sent once until the problem is over *)
(* (control/settings.go NotifyNotification, store/notifications.go).       *)
(***************************************************************************)
EXTENDS Naturals, Sequences, FiniteSets, SequencesExt

CONSTANTS
  Items,          \* deployment tasks, node upgrades, uninstall, backup and restore jobs
  Slots,          \* those that are overwritten when they are started again
  ListingLimit,   \* rows of one query for candidates
  MonthsKept,     \* how long work is announced and a message is kept
  MaxLives, MaxMonths,       \* bounds
  Cooldown,                  \* between two mails about a problem
  MaxTurns, MaxMinutes, MaxMailFaults   \* bounds

ASSUME NotificationsAssumption ==
  /\ Slots \subseteq Items /\ {ListingLimit, MaxLives} \subseteq Nat \ {0}
  /\ {MonthsKept, MaxMonths, Cooldown, MaxTurns, MaxMinutes, MaxMailFaults} \subseteq Nat

VARIABLES
  work,        \* the rows the messages are about
  inbox,       \* table messages
  month,       \* the clock of the messages
  made,        \* history: source and status of the messages made, and of those made again
  attended,        \* history: those that were read or dismissed
  scoreGate,   \* the gate the mails are about
  waiting,     \* notifications that wait for notifyMu
  sending,     \* the one that is being delivered
  delivery,    \* its row of notification_delivery_state
  mailOn,      \* the category is selected in the mail settings
  minute,      \* the clock of the mails
  mails,       \* history: mails sent, and problems closed without one
  excused,     \* history: something kept a mail from following the gate
  mailFaults   \* faults so far

inboxVars == <<work, inbox, month, made, attended>>
mailVars == <<scoreGate, waiting, sending, delivery, mailOn, minute, mails, excused, mailFaults>>

-----------------------------------------------------------------------------
(* Messages *)

Finished == {"succeeded", "failed"}
Announced == {"queued"} \union Finished
Sources == Items \X (0..MaxLives)

\* Mutant: a job that starts over is taken for the one before it.
SameSource(i) == <<i, 0>>

\* A task by its id; a job that may start over also by when it was created.
Source(i) == <<i, work[i].life>>

StartWork(i) ==
  /\ \/ work[i].status = "none"
     \/ i \in Slots /\ work[i].status \in Finished /\ work[i].life < MaxLives
  /\ work' = [work EXCEPT ![i] = [life |-> @.life + 1, status |-> "queued", at |-> month]]
  /\ UNCHANGED <<inbox, month, made, attended>>

\* A result that comes in late can turn a failure into a success.
AdvanceWork(i, status) ==
  /\ \/ work[i].status = "queued" /\ status = "active"
     \/ work[i].status = "active" /\ status \in Finished
     \/ work[i].status = "failed" /\ status = "succeeded"
  /\ work' = [work EXCEPT ![i].status = status, ![i].at = month]
  /\ UNCHANGED <<inbox, month, made, attended>>

ToTell ==
  {i \in Items : /\ work[i].status \in Announced
                 /\ work[i].at + MonthsKept >= month
                 /\ \A m \in inbox : <<m.source, m.status>> # <<Source(i), work[i].status>>}

MessageFor(i) ==
  [source |-> Source(i), status |-> work[i].status, at |-> work[i].at,
   read |-> FALSE, dismissed |-> FALSE]

\* Mutant: whatever was read or dismissed is deleted.
SeenOnce(m) == m.read \/ m.dismissed

Outdated(m) == (m.read \/ m.dismissed) /\ m.at + MonthsKept < month

\* ReconcileTaskMessages, in one transaction: the oldest candidates first.
ReconcileMessages ==
  \E chosen \in SUBSET ToTell :
    /\ Cardinality(chosen) <= ListingLimit
    /\ chosen = ToTell \/ Cardinality(chosen) = ListingLimit
    /\ \A i \in chosen, j \in ToTell \ chosen : work[i].at <= work[j].at
    /\ inbox' = {m \in inbox \union {MessageFor(i) : i \in chosen} : ~Outdated(m)}
    /\ LET new == {<<Source(i), work[i].status>> : i \in chosen}
       IN made' = [once |-> made.once \union new, again |-> made.again \union (made.once \intersect new)]
    /\ UNCHANGED <<work, month, attended>>

Handled(M) == attended' = attended \union {<<m.source, m.status>> : m \in M}

MarkRead(m) ==
  /\ ~m.dismissed /\ Handled({m})
  /\ inbox' = (inbox \ {m}) \union {[m EXCEPT !.read = TRUE]}
  /\ UNCHANGED <<work, month, made>>

MarkAllRead ==
  /\ inbox' = {IF m.dismissed THEN m ELSE [m EXCEPT !.read = TRUE] : m \in inbox}
  /\ Handled(inbox)
  /\ UNCHANGED <<work, month, made>>

\* Mutant: the row is deleted instead of kept for the next reconciliation.
DropRow(m) == /\ ~m.dismissed /\ inbox' = inbox \ {m} /\ Handled({m})
              /\ UNCHANGED <<work, month, made>>

DismissMessage(m) ==
  /\ ~m.dismissed /\ Handled({m})
  /\ inbox' = (inbox \ {m}) \union {[m EXCEPT !.dismissed = TRUE]}
  /\ UNCHANGED <<work, month, made>>

PassMonth == month < MaxMonths /\ month' = month + 1 /\ UNCHANGED <<work, inbox, made, attended>>

InboxInit ==
  /\ work = [i \in Items |-> [life |-> 0, status |-> "none", at |-> 0]]
  /\ inbox = {} /\ month = 0 /\ made = [once |-> {}, again |-> {}] /\ attended = {}

InboxNext ==
  \/ \E i \in Items : StartWork(i) \/ \E status \in Finished \union {"active"} : AdvanceWork(i, status)
  \/ ReconcileMessages \/ MarkAllRead \/ PassMonth
  \/ \E m \in inbox : MarkRead(m) \/ DismissMessage(m)

-----------------------------------------------------------------------------
(* Mails *)

\* The gate changes in a transaction; its handler reads the mail settings and
\* waits for its turn, the problem or its end.
TurnGate ==
  /\ Len(mails) + Len(waiting) < MaxTurns
  /\ scoreGate' = IF scoreGate = "allowed" THEN "blocked" ELSE "allowed"
  /\ waiting' = Append(waiting, [resolved |-> scoreGate = "blocked", on |-> mailOn])
  /\ excused' = (excused \/ ~mailOn)
  /\ UNCHANGED <<sending, delivery, mailOn, minute, mails, mailFaults>>

NotSending == [kind |-> "idle"]
\* Mutant: a recovery is mailed whatever was mailed before.
AnyRecovery(n) == n.resolved
\* Mutant: a problem is mailed again while it lasts.
AfterCooldown(n) ==
  ~n.resolved /\ n.on /\ ~(delivery.known /\ minute < delivery.last + Cooldown)

ToClose(n) == n.resolved /\ delivery.known /\ delivery.active
ToSend(n) ==
  /\ ~n.resolved /\ n.on
  /\ delivery.known => ~delivery.active /\ minute >= delivery.last + Cooldown

\* NotifyNotification under notifyMu, up to the delivery.
TakeTurn(k) ==
  LET n == waiting[k] IN
  /\ sending = NotSending
  /\ waiting' = RemoveAt(waiting, k)
  /\ \/ /\ (ToClose(n) /\ n.on) \/ ToSend(n)
        /\ sending' = [kind |-> IF n.resolved THEN "recovery" ELSE "problem", at |-> minute]
        /\ UNCHANGED <<delivery, mails>>
        /\ excused' = (excused \/ k > 1)
     \/ /\ ToClose(n) /\ ~n.on
        /\ delivery' = [delivery EXCEPT !.active = FALSE]
        /\ mails' = Append(mails, [kind |-> "silent", at |-> minute, marked |-> TRUE])
        /\ UNCHANGED sending
        /\ excused' = (excused \/ k > 1)
     \/ /\ ~ToClose(n) /\ ~ToSend(n)
        /\ UNCHANGED <<sending, delivery, mails>>
        /\ excused' = (excused \/ k > 1 \/ (~n.resolved /\ ~delivery.active))
  /\ UNCHANGED <<scoreGate, mailOn, minute, mailFaults>>

\* The delivery succeeds and is marked.
Delivered ==
  /\ sending # NotSending /\ sending' = NotSending
  /\ delivery' = IF sending.kind = "problem"
                 THEN [known |-> TRUE, active |-> TRUE, last |-> sending.at]
                 ELSE [delivery EXCEPT !.active = FALSE]
  /\ mails' = Append(mails, [kind |-> sending.kind, at |-> sending.at, marked |-> TRUE])
  /\ UNCHANGED <<scoreGate, waiting, mailOn, minute, excused, mailFaults>>

\* It fails, or it succeeds and the mark is not written.
NotDelivered(sent) ==
  /\ mailFaults < MaxMailFaults /\ mailFaults' = mailFaults + 1
  /\ sending # NotSending /\ sending' = NotSending
  /\ mails' = IF sent THEN Append(mails, [kind |-> sending.kind, at |-> sending.at, marked |-> FALSE])
              ELSE mails
  /\ excused' = TRUE
  /\ UNCHANGED <<scoreGate, waiting, delivery, mailOn, minute>>

\* The controller is killed: every handler is gone.
KillHandlers ==
  /\ mailFaults < MaxMailFaults /\ mailFaults' = mailFaults + 1
  /\ waiting' = <<>> /\ sending' = NotSending /\ excused' = TRUE
  /\ UNCHANGED <<scoreGate, delivery, mailOn, minute, mails>>

SelectCategory == mailOn' = ~mailOn /\ UNCHANGED <<scoreGate, waiting, sending, delivery, minute,
                                                  mails, excused, mailFaults>>

PassMinute ==
  /\ minute < MaxMinutes /\ minute' = minute + 1
  /\ UNCHANGED <<scoreGate, waiting, sending, delivery, mailOn, mails, excused, mailFaults>>

MailInit ==
  /\ scoreGate = "allowed" /\ waiting = <<>> /\ sending = NotSending
  /\ delivery = [known |-> FALSE, active |-> FALSE, last |-> 0]
  /\ mailOn = TRUE /\ minute = 0 /\ mails = <<>> /\ excused = FALSE /\ mailFaults = 0

MailNext ==
  \/ TurnGate \/ Delivered \/ KillHandlers \/ SelectCategory \/ PassMinute
  \/ \E k \in 1..Len(waiting) : TakeTurn(k)
  \/ \E sent \in BOOLEAN : NotDelivered(sent)

NotificationsInit == InboxInit /\ MailInit

-----------------------------------------------------------------------------
(* Properties *)

NotificationsTypeOK ==
  /\ work \in [Items -> [life : 0..MaxLives, status : Announced \union {"none", "active"},
                         at : 0..MaxMonths]]
  /\ inbox \subseteq [source : Sources, status : Announced, at : 0..MaxMonths,
                      read : BOOLEAN, dismissed : BOOLEAN]
  /\ delivery \in [known : BOOLEAN, active : BOOLEAN, last : 0..MaxMinutes]

\* No message is made twice, also after it was dismissed, deleted with age or
\* listed by two administrators; one that nobody has attended is never deleted.
ToldOnce ==
  /\ made.again = {}
  /\ made.once \ {<<m.source, m.status>> : m \in inbox} \subseteq attended

\* Nothing that came to rest and is recent stays untold once no candidate is left.
RestingIsTold ==
  ToTell = {} =>
    \A i \in Items :
      work[i].status \in Announced /\ work[i].at + MonthsKept >= month =>
        <<<<i, work[i].life>>, work[i].status>> \in made.once

\* A problem is mailed once, and again only after it was closed or when the first
\* mail could not be marked; a recovery follows the mail of its problem.
MailsAlternate ==
  \A i \in 1..Len(mails) :
    LET m == mails[i] before == IF i = 1 THEN [kind |-> "silent", marked |-> TRUE] ELSE mails[i - 1]
    IN IF m.kind = "problem" THEN before.kind \in {"recovery", "silent"} \/ ~before.marked
       ELSE \/ before.kind = "problem" /\ before.marked
            \/ before.kind = "recovery" /\ ~before.marked

Spaced ==
  \A i, j \in 1..Len(mails) :
    i < j /\ mails[i].kind = "problem" /\ mails[j].kind = "problem" /\ mails[i].marked =>
      mails[j].at >= mails[i].at + Cooldown

\* Without a fault, an overtaking, a cooldown or a closed category, the mails say
\* what the gate is as soon as every handler has ended.
MailsFollowGate ==
  ~excused /\ waiting = <<>> /\ sending = NotSending => delivery.active = (scoreGate = "blocked")

\* What administrators are told is told once, in order and to the end
\* (control/messages.go, control/settings.go).
NotificationsHold ==
  NotificationsTypeOK /\ ToldOnce /\ RestingIsTold /\ MailsAlternate /\ Spaced /\ MailsFollowGate
=============================================================================
