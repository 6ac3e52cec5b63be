----------------------------- MODULE BotPolling -----------------------------
(***************************************************************************)
(* telegramBot.ts (pollTelegram) and resellerBots.ts (pollResellerBots):    *)
(* the two loops of the worker that read commands from Telegram.  They have *)
(* settings of their own and share nothing: a behaviour follows one of them *)
(* (kind).  A loop reads its settings, goes through the bots that are on,   *)
(* brings each of them online and answers what Telegram holds for it.       *)
(* Telegram forgets the updates below the offset of a getUpdates call.      *)
(***************************************************************************)
EXTENDS Settings, Naturals, FiniteSets

CONSTANTS PollBots,        \* the resellers' bots, or the owner's bot
          MaxUpdates,      \* bound: commands written to a bot under one token
          MaxPollFaults,   \* bound: calls that fail, handlers that throw
          MaxSwitches,     \* bound: changes of the settings
          MaxPollCrashes   \* bound: restarts of the worker

ASSUME BotPollingAssumption ==
  MaxUpdates \in Nat /\ MaxPollFaults \in Nat /\ MaxSwitches \in Nat /\ MaxPollCrashes \in Nat

PollTokens == PollBots \X {1, 2}

VARIABLES kind,       \* "owner" for pollTelegram, "sales" for pollResellerBots
          botRows,    \* the settings: is the bot on, and its token
          cachedRows, \* the worker's cached copy
          loop,       \* its step, the bots still to serve, and the bot being served with its updates
          ready,      \* bot -> the token it is online with, 0 for none
          offsets,
          bad,        \* tokens the sales loop gave up on
          sent,       \* token -> commands written so far, numbered from 1
          forgotten,  \* token -> the last update Telegram no longer returns
          handled,    \* token -> updates whose handler ran
          pollFaults, switches, pollCrashes,
          answers,    \* ghost: token -> update -> replies sent
          onlines     \* ghost: token -> how often a loop came online with it

pollVars == <<kind, botRows, cachedRows, loop, ready, offsets, bad, sent, forgotten, handled, pollFaults, switches, pollCrashes, answers, onlines>>
telegramVars == <<sent, forgotten, handled, answers, onlines>>

IdleLoop == [at |-> "idle", todo |-> {}, rows |-> <<>>, batch |-> <<>>]

BotPollingInit ==
  /\ kind \in {"owner", "sales"}
  /\ botRows = [b \in PollBots |-> [on |-> TRUE, token |-> 1]] /\ cachedRows = <<>>
  /\ loop = IdleLoop
  /\ ready = [b \in PollBots |-> 0] /\ offsets = [b \in PollBots |-> 0] /\ bad = {}
  /\ sent = [t \in PollTokens |-> 0] /\ forgotten = [t \in PollTokens |-> 0] /\ handled = [t \in PollTokens |-> {}]
  /\ pollFaults = 0 /\ switches = 0 /\ pollCrashes = 0
  /\ answers = [t \in PollTokens |-> [u \in 1..MaxUpdates |-> 0]] /\ onlines = [t \in PollTokens |-> 0]

\* Somebody writes a command to a bot.
customerWrites(t) ==
  /\ sent[t] < MaxUpdates /\ sent' = [sent EXCEPT ![t] = @ + 1]
  /\ UNCHANGED <<kind, botRows, cachedRows, loop, ready, offsets, bad, forgotten, handled, pollFaults, switches, pollCrashes, answers, onlines>>

\* The settings page turns a bot on or off (its switch, its lock, the master switch), or replaces its token.
switchBot(b, row) ==
  /\ switches < MaxSwitches /\ row # botRows[b]
  /\ switches' = switches + 1 /\ botRows' = [botRows EXCEPT ![b] = row]
  /\ UNCHANGED <<kind, cachedRows, loop, ready, offsets, bad, pollFaults, pollCrashes, telegramVars>>

settingsExpire ==
  /\ cachedRows # <<>> /\ cachedRows' = <<>>
  /\ UNCHANGED <<kind, botRows, loop, ready, offsets, bad, pollFaults, switches, pollCrashes, telegramVars>>

\* A pass of a loop: the bots that are on and whose token is not given up.
readSettings ==
  LET rows == getSetting(botRows, cachedRows)
      active == {b \in PollBots : rows[b].on /\ <<b, rows[b].token>> \notin bad} IN
  /\ loop.at = "idle" /\ active # {}
  /\ cachedRows' = setSettingCache(rows)
  /\ loop' = [at |-> "pass", todo |-> active, rows |-> <<rows>>, batch |-> <<>>]
  /\ UNCHANGED <<kind, botRows, ready, offsets, bad, pollFaults, switches, pollCrashes, telegramVars>>

Fault == pollFaults < MaxPollFaults /\ pollFaults' = pollFaults + 1

\* The settings cannot be read: the sales loop sleeps and tries again, the owner's
\* loop has no handler for it and ends until the worker is restarted.
settingsUnreadable ==
  /\ loop.at = "idle" /\ cachedRows = <<>> /\ Fault
  /\ loop' = IF kind = "owner" THEN [loop EXCEPT !.at = "dead"] ELSE loop
  /\ UNCHANGED <<kind, botRows, cachedRows, ready, offsets, bad, switches, pollCrashes, telegramVars>>

Serves(b) == loop.at = "pass" /\ b \in loop.todo
TokenOf(b) == <<b, Head(loop.rows)[b].token>>
Served(b) == IF loop.todo = {b} THEN IdleLoop ELSE [loop EXCEPT !.at = "pass", !.todo = @ \ {b}, !.batch = <<>>]

\* A token the loop is not online with: getMe, then the offset starts over.
goOnline(b) ==
  LET t == TokenOf(b) IN
  /\ Serves(b) /\ ready[b] # t[2]
  /\ ready' = [ready EXCEPT ![b] = t[2]] /\ offsets' = [offsets EXCEPT ![b] = 0]
  /\ onlines' = [onlines EXCEPT ![t] = @ + 1]
  /\ UNCHANGED <<kind, botRows, cachedRows, loop, bad, sent, forgotten, handled, pollFaults, switches, pollCrashes, answers>>

\* getMe fails, for whatever reason: the sales loop never tries the token again, the
\* owner's loop tries again later.
getMeFails(b) ==
  /\ Serves(b) /\ ready[b] # TokenOf(b)[2] /\ Fault
  /\ bad' = IF kind = "sales" THEN bad \cup {TokenOf(b)} ELSE bad
  /\ loop' = Served(b)
  /\ UNCHANGED <<kind, botRows, cachedRows, ready, offsets, switches, pollCrashes, telegramVars>>

\* getUpdates: the call confirms everything below its offset.
getUpdates(b) ==
  LET t == TokenOf(b)
      gone == IF offsets[b] > forgotten[t] + 1 THEN offsets[b] - 1 ELSE forgotten[t]
      batch == [i \in 1..(sent[t] - gone) |-> gone + i] IN
  /\ Serves(b) /\ ready[b] = t[2]
  /\ forgotten' = [forgotten EXCEPT ![t] = gone]
  /\ loop' = IF batch = <<>> THEN Served(b) ELSE [loop EXCEPT !.at = "batch", !.batch = <<b>> \o batch]
  /\ UNCHANGED <<kind, botRows, cachedRows, ready, offsets, bad, sent, handled, pollFaults, switches, pollCrashes, answers, onlines>>

getUpdatesFails(b) ==
  /\ Serves(b) /\ ready[b] = TokenOf(b)[2] /\ Fault
  /\ loop' = Served(b)
  /\ UNCHANGED <<kind, botRows, cachedRows, ready, offsets, bad, switches, pollCrashes, telegramVars>>

\* Mutant of takeUpdate: the offset jumps past the whole batch with its first update.
takeUpdateJumps(outcome) ==
  LET b == Head(loop.batch)
      u == loop.batch[2]
      t == TokenOf(b)
      rest == Tail(Tail(loop.batch))
      gives == outcome = "throws" /\ kind = "sales" IN
  /\ loop.at = "batch"
  /\ offsets' = [offsets EXCEPT ![b] = loop.batch[Len(loop.batch)] + 1]
  /\ handled' = [handled EXCEPT ![t] = @ \cup {u}]
  /\ IF outcome = "answered" THEN answers' = [answers EXCEPT ![t][u] = @ + 1] /\ UNCHANGED pollFaults ELSE Fault /\ UNCHANGED answers
  /\ loop' = IF gives \/ rest = <<>> THEN Served(b) ELSE [loop EXCEPT !.batch = <<b>> \o rest]
  /\ UNCHANGED <<kind, botRows, cachedRows, ready, bad, sent, forgotten, switches, pollCrashes, onlines>>

\* One update of the batch: the offset moves past it before its handler runs.  A
\* handler that throws ends the bot's turn in the sales loop, and only the update in
\* the owner's; a reply that does not arrive is not noticed.
takeUpdate(outcome) ==
  LET b == Head(loop.batch)
      u == loop.batch[2]
      t == TokenOf(b)
      rest == Tail(Tail(loop.batch))
      gives == outcome = "throws" /\ kind = "sales" IN
  /\ loop.at = "batch"
  /\ offsets' = [offsets EXCEPT ![b] = IF u + 1 > @ THEN u + 1 ELSE @]
  /\ handled' = [handled EXCEPT ![t] = @ \cup {u}]
  /\ IF outcome = "answered" THEN answers' = [answers EXCEPT ![t][u] = @ + 1] /\ UNCHANGED pollFaults ELSE Fault /\ UNCHANGED answers
  /\ loop' = IF gives \/ rest = <<>> THEN Served(b) ELSE [loop EXCEPT !.batch = <<b>> \o rest]
  /\ UNCHANGED <<kind, botRows, cachedRows, ready, bad, sent, forgotten, switches, pollCrashes, onlines>>

\* The worker is restarted: everything the loops remember is gone.
pollerRestarts ==
  /\ pollCrashes < MaxPollCrashes /\ pollCrashes' = pollCrashes + 1
  /\ cachedRows' = <<>> /\ loop' = IdleLoop
  /\ ready' = [b \in PollBots |-> 0] /\ offsets' = [b \in PollBots |-> 0] /\ bad' = {}
  /\ UNCHANGED <<kind, botRows, pollFaults, switches, telegramVars>>

\* What the loop does on its own.
LoopStep ==
  \/ readSettings \/ takeUpdate("answered")
  \/ \E b \in PollBots : goOnline(b) \/ getUpdates(b)

BotPollingNext ==
  \/ \E t \in PollTokens : customerWrites(t)
  \/ \E b \in PollBots, on \in BOOLEAN, k \in {1, 2} : switchBot(b, [on |-> on, token |-> k])
  \/ settingsExpire \/ pollerRestarts
  \/ LoopStep \/ settingsUnreadable
  \/ \E outcome \in {"lost", "throws"} : takeUpdate(outcome)
  \/ \E b \in PollBots : getMeFails(b) \/ getUpdatesFails(b)

BotPollingSpec == BotPollingInit /\ [][BotPollingNext]_pollVars

(* ------------------------------ properties ------------------------------ *)

\* Telegram forgets a command only once its handler ran: a handler that throws in the
\* middle of a batch, a restart or a new token loses none of those behind it.
NoCommandSkipped == \A t \in PollTokens : 1..forgotten[t] \subseteq handled[t]

\* A command is answered again only when a loop came online again with the token
\* (a restart, or a token that was replaced and put back).
AnsweredOncePerLife == \A t \in PollTokens : \A u \in 1..MaxUpdates : answers[t][u] <= onlines[t]

\* A bot that stays on under a token that was not given up answers every command.
Serving(t) ==
  /\ botRows[t[1]].on /\ botRows[t[1]].token = t[2] /\ t \notin bad
  /\ loop.at # "dead"
CommandsHandled == \A t \in PollTokens : \A u \in 1..MaxUpdates : (sent[t] >= u) ~> (u \in handled[t] \/ ~Serving(t))

\* What the polling loops promise.
PollingSound == [](NoCommandSkipped /\ AnsweredOncePerLife) /\ CommandsHandled
=============================================================================
