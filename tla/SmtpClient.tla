----------------------------- MODULE SmtpClient -----------------------------
(***************************************************************************)
(* The SMTP client of services/mailer.ts: one command at a time over one    *)
(* socket, replies cut out of a buffer, and a failure (error, timeout,      *)
(* close) that must reach whoever waits, now or later.                      *)
(***************************************************************************)
EXTENDS Integers, Sequences, FiniteSets

CONSTANTS WithAuth,   \* settings name a user
          MaxChunks   \* bound on unsolicited continuation lines

ASSUME SmtpAssumption == WithAuth \in BOOLEAN /\ MaxChunks \in Nat

\* The steps of sendMail in order, each with the replies it accepts.
Steps ==
  <<[cmd |-> "greeting", want |-> {220}], [cmd |-> "EHLO", want |-> {250}]>>
  \o (IF WithAuth THEN <<[cmd |-> "AUTH", want |-> {334}], [cmd |-> "user", want |-> {334}], [cmd |-> "pass", want |-> {235}]>> ELSE <<>>)
  \o <<[cmd |-> "MAIL", want |-> {250}], [cmd |-> "RCPT", want |-> {250, 251}], [cmd |-> "DATA", want |-> {354}],
       [cmd |-> "body", want |-> {250}], [cmd |-> "QUIT", want |-> {221}]>>

VARIABLES mailStep,  \* index of the step being waited for
          waiting,   \* a promise is pending
          buffer,    \* lines received and not consumed: codes, 0 for a continuation line
          failure,   \* the first failure of the socket, sticky
          outcome,   \* "idle", "open", "sent" or "failed"
          peer       \* the server: commands answered, chunks sent, accepted the body

smtpVars == <<mailStep, waiting, buffer, failure, outcome, peer>>

SmtpInit ==
  /\ mailStep = 1 /\ waiting = FALSE /\ buffer = <<>> /\ failure = FALSE /\ outcome = "idle"
  /\ peer = [answered |-> 0, chunks |-> 0, accepted |-> FALSE]

\* sendMail connects once the settings are complete and a recipient is known, and
\* waits for the greeting.
sendMail == outcome = "idle" /\ outcome' = "open" /\ waiting' = TRUE /\ UNCHANGED <<mailStep, buffer, failure, peer>>

\* takeReply: the lines up to the first final one are one reply.
Finals == {k \in DOMAIN buffer : buffer[k] # 0}
takeReply == CHOOSE k \in Finals : \A j \in Finals : k <= j

\* Mutant of settleFailure: the rejection is swallowed.
settleSwallows ==
  /\ outcome = "open" /\ waiting /\ failure
  /\ waiting' = FALSE /\ outcome' = IF Steps[mailStep].cmd = "QUIT" THEN "sent" ELSE outcome
  /\ UNCHANGED <<mailStep, buffer, failure, peer>>

\* settle: a pending promise is rejected by a failure, even one older than the
\* promise, and otherwise resolved as soon as a whole reply is there.
settleFailure ==
  /\ outcome = "open" /\ waiting /\ failure
  /\ waiting' = FALSE /\ outcome' = IF Steps[mailStep].cmd = "QUIT" THEN "sent" ELSE "failed"
  /\ UNCHANGED <<mailStep, buffer, failure, peer>>
settleReply ==
  LET k == takeReply IN
  /\ outcome = "open" /\ waiting /\ ~failure /\ Finals # {}
  /\ buffer' = SubSeq(buffer, k + 1, Len(buffer))
  /\ IF Steps[mailStep].cmd = "QUIT" \/ (buffer[k] \in Steps[mailStep].want /\ mailStep = Len(Steps))
     THEN outcome' = "sent" /\ waiting' = FALSE /\ UNCHANGED mailStep
     ELSE IF buffer[k] \in Steps[mailStep].want
     THEN mailStep' = mailStep + 1 /\ waiting' = FALSE /\ UNCHANGED outcome
     ELSE outcome' = "failed" /\ waiting' = FALSE /\ UNCHANGED mailStep
  /\ UNCHANGED <<failure, peer>>

\* step: the next command is written and its promise starts to wait.
nextStep ==
  /\ outcome = "open" /\ ~waiting /\ waiting' = TRUE /\ UNCHANGED <<mailStep, buffer, failure, outcome, peer>>

\* The server answers each command once, in one or several lines.  External.
serverReplies(code) ==
  /\ ~failure /\ peer.answered < mailStep /\ waiting
  /\ buffer' = Append(buffer, code)
  /\ peer' = [peer EXCEPT !.answered = mailStep,
                          !.accepted = @ \/ (Steps[mailStep].cmd = "body" /\ code = 250)]
  /\ UNCHANGED <<mailStep, waiting, failure, outcome>>
serverContinues ==
  /\ ~failure /\ peer.answered < mailStep /\ waiting /\ peer.chunks < MaxChunks
  /\ buffer' = Append(buffer, 0) /\ peer' = [peer EXCEPT !.chunks = @ + 1]
  /\ UNCHANGED <<mailStep, waiting, failure, outcome>>

\* die: an error, the 20 s socket timeout or the close.
socketDies ==
  /\ outcome = "open" /\ ~failure /\ failure' = TRUE /\ UNCHANGED <<mailStep, waiting, buffer, outcome, peer>>

SmtpNext == sendMail \/ settleFailure \/ settleReply \/ nextStep \/ serverContinues \/ socketDies
            \/ \E c \in {220, 221, 235, 250, 251, 334, 354, 550} : serverReplies(c)

\* The event loop runs settled promises, and the 20 s timeout fires on a silent peer.
SmtpFairness == WF_smtpVars(settleFailure \/ settleReply \/ nextStep) /\ WF_smtpVars(socketDies)

SmtpSpec == SmtpInit /\ [][SmtpNext]_smtpVars

(* ------------------------------ properties ------------------------------ *)

\* The conversation stays within its steps.
SmtpTypeOK == mailStep \in 1..Len(Steps) /\ outcome \in {"idle", "open", "sent", "failed"} /\ {waiting, failure} \subseteq BOOLEAN

\* "Sends one message and resolves when the server accepted it" (mailer.ts:110):
\* sendMail resolves only after the server took the body, whatever the order of
\* replies, continuation lines and a dying socket.
ResolvesWhenAccepted == outcome = "sent" => peer.accepted

\* sendMail always settles: a socket that dies while nobody waits still rejects the
\* next step, so no caller waits for ever.
MailSettles == outcome = "open" ~> outcome \in {"sent", "failed"}

\* What sending a mail promises, whatever the server and the socket do.
MailSound == [](SmtpTypeOK /\ ResolvesWhenAccepted) /\ MailSettles
=============================================================================
