---------------------------- MODULE Notifications ----------------------------
(***************************************************************************)
(* services/notifications.ts over services/telegram.ts: every Telegram      *)
(* message has a dedupeKey; notify looks the key up in NotificationLog,     *)
(* sends, and logs the key.  runReminders derives the keys of expiring      *)
(* clients from thresholds, so a renewed or later reminder gets a new key.  *)
(***************************************************************************)
EXTENDS Settings, Integers, FiniteSets

CONSTANTS Notifiers,     \* requests and jobs that call notify
          ReminderDays,  \* expiryReminderDays, e.g. {7, 3, 1}
          MaxDays,       \* the client's period and the bound on the calendar
          MaxPeriods,    \* bound on renewals
          MaxNoteCrashes \* bound on crashes of a notifier

ASSUME NotificationsAssumption ==
  MaxDays \in Nat \ {0} /\ ReminderDays \subseteq 1..MaxDays /\ MaxPeriods \in Nat /\ MaxNoteCrashes \in Nat

VARIABLES today,       \* calendar day
          expiresOn,   \* the client's expiresAt, in days
          periods,     \* renewals so far
          tgReady,     \* telegram settings: enabled and with a bot token
          noteLog,     \* NotificationLog: dedupeKey -> delivered or not
          notifier,    \* notify calls under way
          noteSends,   \* ghost: messages that reached Telegram, per key
          seenToday,   \* ghost: days on which runReminders completed for this client
          noteCrashes

noteVars == <<today, expiresOn, periods, tgReady, noteLog, notifier, noteSends, seenToday, noteCrashes>>

NoNote == [pc |-> "idle", key |-> <<0, 0>>, ok |-> FALSE]
Keys == (ReminderDays \union {0}) \X (0..((MaxPeriods + 2) * MaxDays))  \* threshold (0: expired), expiresAt

NotificationsInit ==
  /\ today = 0 /\ expiresOn = MaxDays /\ periods = 0 /\ tgReady \in BOOLEAN
  /\ noteLog = {} /\ notifier = [n \in Notifiers |-> NoNote]
  /\ noteSends = [k \in Keys |-> 0] /\ seenToday = {} /\ noteCrashes = 0

(* -------------------------------- the keys ------------------------------ *)

\* Mutant of ReminderKey: the thresholds are searched from the largest.
ReminderKeyLargest ==
  LET due == {x \in ReminderDays : expiresOn - today <= x}
  IN <<CHOOSE x \in due : \A y \in due : x >= y, expiresOn>>

\* thresholds.find((x) => daysLeft <= x): the smallest threshold not yet passed.
ReminderKey ==
  LET due == {x \in ReminderDays : expiresOn - today <= x}
  IN <<CHOOSE x \in due : \A y \in due : x <= y, expiresOn>>
ReminderDue == expiresOn > today /\ \E x \in ReminderDays : expiresOn - today <= x

\* runReminders reaches the client: ACTIVE, with a date ahead but within the
\* largest threshold.
runReminders(n) ==
  /\ notifier[n].pc = "idle" /\ tgReady
  /\ IF ReminderDue THEN notifier' = [notifier EXCEPT ![n] = [NoNote EXCEPT !.pc = "lookup", !.key = ReminderKey]]
                         /\ UNCHANGED seenToday
                    ELSE seenToday' = seenToday \union {today} /\ UNCHANGED notifier
  /\ UNCHANGED <<today, expiresOn, periods, tgReady, noteLog, noteSends, noteCrashes>>

\* onClientStatusChanged: the sync sees the client EXPIRED.
onClientStatusChanged(n) ==
  /\ notifier[n].pc = "idle" /\ expiresOn <= today
  /\ notifier' = [notifier EXCEPT ![n] = [NoNote EXCEPT !.pc = "lookup", !.key = <<0, expiresOn>>]]
  /\ UNCHANGED <<today, expiresOn, periods, tgReady, noteLog, noteSends, seenToday, noteCrashes>>

(* --------------------------------- notify ------------------------------- *)

NoteDone(n) == /\ notifier' = [notifier EXCEPT ![n] = NoNote]
               /\ seenToday' = IF notifier[n].key[1] # 0 THEN seenToday \union {today} ELSE seenToday

\* Not configured or already logged: nothing is sent.
notifyLookup(n) ==
  /\ notifier[n].pc = "lookup"
  /\ IF ~tgReady \/ notifier[n].key \in noteLog THEN NoteDone(n)
     ELSE notifier' = [notifier EXCEPT ![n].pc = "send"] /\ UNCHANGED seenToday
  /\ UNCHANGED <<today, expiresOn, periods, tgReady, noteLog, noteSends, noteCrashes>>

\* tgSendMessage to the recipients: at least one chat took it, or none did.
notifySend(n) ==
  /\ notifier[n].pc = "send"
  /\ \E ok \in BOOLEAN :
       /\ notifier' = [notifier EXCEPT ![n].pc = "log", ![n].ok = ok]
       /\ noteSends' = [noteSends EXCEPT ![notifier[n].key] = @ + (IF ok THEN 1 ELSE 0)]
  /\ UNCHANGED <<today, expiresOn, periods, tgReady, noteLog, seenToday, noteCrashes>>

\* notificationLog.create, delivered or not; a key logged meanwhile is a unique
\* violation, which notify swallows.
notifyLog(n) ==
  /\ notifier[n].pc = "log" /\ noteLog' = noteLog \union {notifier[n].key} /\ NoteDone(n)
  /\ UNCHANGED <<today, expiresOn, periods, tgReady, noteSends, noteCrashes>>

notifierCrashes(n) ==
  /\ notifier[n].pc # "idle" /\ noteCrashes < MaxNoteCrashes /\ noteCrashes' = noteCrashes + 1
  /\ notifier' = [notifier EXCEPT ![n] = NoNote]
  /\ UNCHANGED <<today, expiresOn, periods, tgReady, noteLog, noteSends, seenToday>>

(* ------------------------------ environment ----------------------------- *)

\* A day passes; the worker's hourly reminder job has run by then.
dayPasses ==
  /\ today < expiresOn /\ (tgReady => today \in seenToday)
  /\ \A n \in Notifiers : notifier[n].pc = "idle"
  /\ today' = today + 1
  /\ UNCHANGED <<expiresOn, periods, tgReady, noteLog, notifier, noteSends, seenToday, noteCrashes>>
renewClient ==
  /\ periods < MaxPeriods /\ periods' = periods + 1 /\ expiresOn' = expiresOn + MaxDays
  /\ UNCHANGED <<today, tgReady, noteLog, notifier, noteSends, seenToday, noteCrashes>>

NotificationsNext ==
  \/ \E n \in Notifiers : \/ runReminders(n) \/ onClientStatusChanged(n) \/ notifyLookup(n)
                          \/ notifySend(n) \/ notifyLog(n) \/ notifierCrashes(n)
  \/ dayPasses \/ renewClient

NotificationsSpec == NotificationsInit /\ [][NotificationsNext]_noteVars

(* ------------------------------ properties ------------------------------ *)

\* Dates, log and jobs stay within their types.
NotificationsTypeOK ==
  /\ today \in Nat /\ expiresOn \in Nat /\ noteLog \subseteq Keys
  /\ \A n \in Notifiers : notifier[n].key \in Keys \union {<<0, 0>>}

\* "Sends one Telegram notification per dedupeKey" (notifications.ts:44): a key is
\* sent once, and once more for every crash between the send and the log.
OneMessagePerKey == \A k \in Keys : noteSends[k] <= 1 + noteCrashes

\* With the job running every day, a client that reaches its date without having
\* been renewed was handled at every threshold on the way: the key of each one
\* is in the log, delivered or not.
EveryThresholdHandled ==
  tgReady /\ periods = 0 /\ today = expiresOn => \A x \in ReminderDays : <<x, expiresOn>> \in noteLog

\* What reminders promise, with crashes between a message and its log row.
RemindersSound == NotificationsTypeOK /\ OneMessagePerKey /\ EveryThresholdHandled
=============================================================================
