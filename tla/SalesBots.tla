----------------------------- MODULE SalesBots -----------------------------
(***************************************************************************)
(* services/resellerBots.ts: the book of the resellers' sales bots.  All of *)
(* it is one Setting, read as a whole, changed in one entry and written as  *)
(* a whole; the activation fee is taken from the wallet in between.         *)
(***************************************************************************)
EXTENDS Integers, FiniteSets

CONSTANTS BotAdmins,    \* resellers that may run a bot
          BotTokens,    \* tokens they may register, strings
          BotEditors,   \* requests that may be under way at a time
          MaxBotEdits,  \* bound: requests
          MaxBotFailures  \* bound: writes of the book that fail

ASSUME SalesBotsAssumption == MaxBotEdits \in Nat /\ MaxBotFailures \in Nat /\ "" \notin BotTokens

VARIABLES botBook,    \* the row: master switch and one entry per reseller
          botEdits,   \* what each request read and is about to do
          charged,    \* activation fees taken from a reseller's wallet
          botOps,
          botFailures,
          crossed,    \* ghost: two requests overlapped, or a write failed
          locked,     \* ghost: the owner locked the bot and neither unlocked nor removed it
          feesDue     \* ghost: fees taken since the reseller's entry was last removed

salesBotVars == <<botBook, botEdits, charged, botOps, botFailures, crossed, locked, feesDue>>

NoBot == [token |-> "", enabled |-> FALSE, blocked |-> FALSE, paid |-> 0]
NoEdit == [at |-> "idle"]

SalesBotsInit ==
  /\ botBook = [enabled |-> FALSE, bots |-> [a \in BotAdmins |-> NoBot]]
  /\ botEdits = [e \in BotEditors |-> NoEdit]
  /\ charged = [a \in BotAdmins |-> 0] /\ feesDue = [a \in BotAdmins |-> 0]
  /\ botOps = 0 /\ botFailures = 0 /\ crossed = FALSE /\ locked = [a \in BotAdmins |-> FALSE]

\* A request reads the book and keeps what it will write.
beginBotEdit(e, edit) ==
  /\ botEdits[e].at = "idle" /\ botOps < MaxBotEdits
  /\ botOps' = botOps + 1
  /\ botEdits' = [botEdits EXCEPT ![e] = edit]
  /\ crossed' = (crossed \/ \E x \in BotEditors \ {e} : botEdits[x].at # "idle")
  /\ UNCHANGED <<botBook, charged, botFailures, locked, feesDue>>

Write(kind, a, book) == [at |-> "write", kind |-> kind, admin |-> a, book |-> book]
WithBot(a, bot) == [botBook EXCEPT !.bots[a] = bot]

\* The owner's master switch.
saveResellerBotsConfig(e) ==
  beginBotEdit(e, Write("config", CHOOSE a \in BotAdmins : TRUE, [botBook EXCEPT !.enabled = ~@]))

\* Register or replace a token: the switch, the lock and the other entries are checked
\* in what was read; Telegram is asked before anything is taken.
setResellerBot(e, a, token) ==
  /\ botBook.enabled /\ ~botBook.bots[a].blocked
  /\ \A x \in BotAdmins \ {a} : botBook.bots[x].token # token
  /\ beginBotEdit(e, [Write("set", a, WithBot(a, [NoBot EXCEPT !.token = token, !.enabled = TRUE, !.paid = botBook.bots[a].paid])) EXCEPT !.at = "ask"])

\* Mutant of askedTelegram: the fee is taken at every registration.
askedAlwaysCharged(e, outcome) ==
  LET edit == botEdits[e]
      a == edit.admin IN
  /\ edit.at = "ask"
  /\ botEdits' = [botEdits EXCEPT ![e] = IF outcome # "ok" THEN NoEdit ELSE [edit EXCEPT !.at = "write", !.book.bots[a].paid = @ + 1]]
  /\ charged' = IF outcome = "ok" THEN [charged EXCEPT ![a] = @ + 1] ELSE charged
  /\ feesDue' = IF outcome = "ok" THEN [feesDue EXCEPT ![a] = @ + 1] ELSE feesDue
  /\ UNCHANGED <<botBook, botOps, botFailures, crossed, locked>>

\* Telegram knows the token or not, the wallet covers the fee or not; the fee is due
\* when what was read says that none was paid.
askedTelegram(e, outcome) ==
  LET edit == botEdits[e]
      a == edit.admin
      fee == IF edit.book.bots[a].paid > 0 THEN 0 ELSE 1 IN
  /\ edit.at = "ask"
  /\ botEdits' = [botEdits EXCEPT ![e] = IF outcome # "ok" THEN NoEdit ELSE [edit EXCEPT !.at = "write", !.book.bots[a].paid = @ + fee]]
  /\ charged' = IF outcome = "ok" THEN [charged EXCEPT ![a] = @ + fee] ELSE charged
  /\ feesDue' = IF outcome = "ok" THEN [feesDue EXCEPT ![a] = @ + fee] ELSE feesDue
  /\ UNCHANGED <<botBook, botOps, botFailures, crossed, locked>>

\* Pause and resume: resuming needs the switch and no lock.
setResellerBotEnabled(e, a, on) ==
  /\ botBook.bots[a].token # ""
  /\ (on => botBook.enabled /\ ~botBook.bots[a].blocked)
  /\ beginBotEdit(e, Write("enabled", a, WithBot(a, [botBook.bots[a] EXCEPT !.enabled = on])))

\* The reseller removes its own bot, the owner any: locked or not.
deleteResellerBot(e, a) == beginBotEdit(e, Write("delete", a, WithBot(a, NoBot)))

\* The owner's lock stops the bot; unlocking does not start it.
setResellerBotBlocked(e, a, on) ==
  /\ botBook.bots[a].token # ""
  /\ beginBotEdit(e, Write(IF on THEN "lock" ELSE "unlock", a,
                           WithBot(a, [botBook.bots[a] EXCEPT !.blocked = on, !.enabled = IF on THEN FALSE ELSE @])))

\* The whole book is written back.
persist(e) ==
  LET edit == botEdits[e] IN
  /\ edit.at = "write"
  /\ botBook' = edit.book
  /\ botEdits' = [botEdits EXCEPT ![e] = NoEdit]
  /\ locked' = [locked EXCEPT ![edit.admin] = CASE edit.kind = "lock" -> TRUE [] edit.kind \in {"unlock", "delete"} -> FALSE [] OTHER -> @]
  /\ feesDue' = IF edit.kind = "delete" THEN [feesDue EXCEPT ![edit.admin] = 0] ELSE feesDue
  /\ UNCHANGED <<charged, botOps, botFailures, crossed>>

\* The write fails: a fee that was taken stays taken.
persistFails(e) ==
  /\ botEdits[e].at = "write" /\ botFailures < MaxBotFailures
  /\ botFailures' = botFailures + 1 /\ crossed' = TRUE
  /\ botEdits' = [botEdits EXCEPT ![e] = NoEdit]
  /\ UNCHANGED <<botBook, charged, botOps, locked, feesDue>>

SalesBotsNext ==
  \E e \in BotEditors :
    \/ saveResellerBotsConfig(e) \/ persist(e) \/ persistFails(e)
    \/ \E outcome \in {"ok", "unknown", "poor"} : askedTelegram(e, outcome)
    \/ \E a \in BotAdmins :
         \/ deleteResellerBot(e, a)
         \/ \E token \in BotTokens : setResellerBot(e, a, token)
         \/ \E on \in BOOLEAN : setResellerBotEnabled(e, a, on) \/ setResellerBotBlocked(e, a, on)

SalesBotsSpec == SalesBotsInit /\ [][SalesBotsNext]_salesBotVars

(* ------------------------------ properties ------------------------------ *)

\* No entry claims a fee the wallet was not charged, however requests overlap.
PaidWasCharged == \A a \in BotAdmins : botBook.bots[a].paid <= charged[a]

\* "Charges the activation fee once" (resellerBots.ts:124): replacing a token, pausing,
\* locking and resuming never charge again, and the book remembers the fee.
FeeOnce == ~crossed => \A a \in BotAdmins : feesDue[a] <= 1 /\ ((\A e \in BotEditors : botEdits[e].at = "idle") => feesDue[a] = botBook.bots[a].paid)

\* A bot the owner locked is neither resumed nor registered anew by its reseller.
LockHolds == ~crossed => \A a \in BotAdmins : locked[a] => botBook.bots[a].blocked /\ ~botBook.bots[a].enabled

\* Two resellers never poll the same bot: each would take the other's messages.
OneBotPerToken ==
  ~crossed => \A a, b \in BotAdmins : a # b /\ botBook.bots[a].token # "" => botBook.bots[a].token # botBook.bots[b].token

\* What the book of sales bots promises.
SalesBotsSound == PaidWasCharged /\ FeeOnce /\ LockHolds /\ OneBotPerToken
=============================================================================
