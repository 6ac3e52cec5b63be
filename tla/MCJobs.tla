------------------------------- MODULE MCJobs -------------------------------
(***************************************************************************)
(* The parts that talk to somebody else and must come to an end: webhooks,  *)
(* mail, updates, licenses, panel calls, bots.  They share nothing, so one of*)
(* them runs in a behaviour (focus), under its own fairness.                *)
(***************************************************************************)
EXTENDS Outbox, SmtpClient, Updates, Licensing, PanelDriver, BotPolling

VARIABLE focus  \* the component that runs; the others stay in their initial state

JobsVars ==
  <<focus, outboxVars, smtpVars, updateVars, licenseVars, driverVars, pollVars>>

JobsInit ==
  /\ focus \in {"outbox", "smtp", "updates", "license", "driver", "polling"}
  /\ OutboxInit
  /\ SmtpInit
  /\ UpdatesInit
  /\ LicensingInit
  /\ PanelDriverInit
  /\ BotPollingInit
  /\ (focus # "polling" => kind = "sales")

JobsNext ==
  \/ focus = "outbox" /\ OutboxNext /\ UNCHANGED <<focus, smtpVars, updateVars, licenseVars, driverVars, pollVars>>
  \/ focus = "smtp" /\ SmtpNext /\ UNCHANGED <<focus, outboxVars, updateVars, licenseVars, driverVars, pollVars>>
  \/ focus = "updates" /\ UpdatesNext /\ UNCHANGED <<focus, outboxVars, smtpVars, licenseVars, driverVars, pollVars>>
  \/ focus = "license" /\ LicensingNext /\ UNCHANGED <<focus, outboxVars, smtpVars, updateVars, driverVars, pollVars>>
  \/ focus = "driver" /\ PanelDriverNext /\ UNCHANGED <<focus, outboxVars, smtpVars, updateVars, licenseVars, pollVars>>
  \/ focus = "polling" /\ BotPollingNext /\ UNCHANGED <<focus, outboxVars, smtpVars, updateVars, licenseVars, driverVars>>

\* The fairness of each component, for the behaviours in which it runs.
JobsFairness ==
  /\ WF_outboxVars(focus = "outbox" /\ HookDispatch)
  /\ \A d \in HookDeliveries : WF_outboxVars(focus = "outbox" /\ backoffEnds(d))
  /\ WF_smtpVars(focus = "smtp" /\ (settleFailure \/ settleReply \/ nextStep))
  /\ WF_smtpVars(focus = "smtp" /\ socketDies)
  /\ WF_updateVars(focus = "updates" /\ AgentStep)
  /\ WF_updateVars(focus = "updates" /\ cmd_watch)
  /\ WF_updateVars(focus = "updates" /\ statusAges)
  /\ \A i \in Installs : WF_licenseVars(focus = "license" /\ receive(i))
  /\ \A i \in Installs : WF_licenseVars(focus = "license" /\ redeemLicense(i))
  /\ \A i \in Installs : WF_licenseVars(focus = "license" /\ checkAges(i))
  /\ \A i \in Installs : WF_licenseVars(focus = "license" /\ (verify(i) \/ unreachable(i)))
  /\ \A i \in Installs : WF_licenseVars(focus = "license" /\ autoRecheckLicense(i))
  /\ \A c \in PanelCalls : WF_driverVars(focus = "driver" /\ CallStep(c))
  /\ WF_pollVars(focus = "polling" /\ LoopStep)
  /\ WF_pollVars(focus = "polling" /\ settingsExpire)

JobsSpec == JobsInit /\ [][JobsNext]_JobsVars /\ JobsFairness

=============================================================================
