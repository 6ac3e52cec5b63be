------------------------------- MODULE MCDesk -------------------------------
(***************************************************************************)
(* The services behind the panel's pages that keep tables of their own and  *)
(* do not touch each other's: one of them runs in a behaviour (focus), so   *)
(* the states of the run are the states of each component on its own.       *)
(***************************************************************************)
EXTENDS CustomerWallet, CardDeposits, LoginGuard, Sessions, AdminDesk, ResellerPanels, Backups,
        Notifications, ClientTargets, PanelImport, Catalog, ShopDomains, PluginBook, Pages, PageBooks,
        SalesBots, ClientBulk, TLC

\* Every page is a page of the run (a definition of this module, which TLC evaluates once).
DeskPages == AllPages

VARIABLE focus  \* the component that runs; the others stay in their initial state

DeskVars ==
  <<focus, walletVars, cardVars, loginGuardVars, sessionVars, adminDeskVars, panelVars, backupVars, noteVars, targetVars, importVars, catVars, domainVars, pluginVars, pageVars, salesBotVars, bulkVars>>

DeskInit ==
  /\ focus \in {"wallet", "card", "guard", "sessions", "admins", "panels", "backups", "notes", "targets", "adopt", "catalog", "domains", "plugins", "pages", "bots", "bulk"}
  /\ Init
  /\ CardInit
  /\ LoginGuardInit
  /\ SessionsInit
  /\ AdminDeskInit
  /\ ResellerPanelsInit
  /\ BackupsInit
  /\ NotificationsInit
  /\ ClientTargetsInit
  /\ PanelImportInit
  /\ CatalogInit
  /\ ShopDomainsInit
  /\ PluginBookInit
  /\ PagesInit
  /\ SalesBotsInit
  /\ ClientBulkInit
  /\ (focus # "notes" => tgReady)
  /\ (focus # "targets" => ~nameTaken)
  /\ (focus # "catalog" => plan.service = 1)
  /\ (focus # "pages" => page = "backups")
  /\ (focus # "bulk" => broken = {})

DeskNext ==
  \/ focus = "wallet" /\ Next /\ UNCHANGED <<focus, cardVars, loginGuardVars, sessionVars, adminDeskVars, panelVars, backupVars, noteVars, targetVars, importVars, catVars, domainVars, pluginVars, pageVars, salesBotVars, bulkVars>>
  \/ focus = "card" /\ CardNext /\ UNCHANGED <<focus, walletVars, loginGuardVars, sessionVars, adminDeskVars, panelVars, backupVars, noteVars, targetVars, importVars, catVars, domainVars, pluginVars, pageVars, salesBotVars, bulkVars>>
  \/ focus = "guard" /\ LoginGuardNext /\ UNCHANGED <<focus, walletVars, cardVars, sessionVars, adminDeskVars, panelVars, backupVars, noteVars, targetVars, importVars, catVars, domainVars, pluginVars, pageVars, salesBotVars, bulkVars>>
  \/ focus = "sessions" /\ SessionsNext /\ UNCHANGED <<focus, walletVars, cardVars, loginGuardVars, adminDeskVars, panelVars, backupVars, noteVars, targetVars, importVars, catVars, domainVars, pluginVars, pageVars, salesBotVars, bulkVars>>
  \/ focus = "admins" /\ AdminDeskNext /\ UNCHANGED <<focus, walletVars, cardVars, loginGuardVars, sessionVars, panelVars, backupVars, noteVars, targetVars, importVars, catVars, domainVars, pluginVars, pageVars, salesBotVars, bulkVars>>
  \/ focus = "panels" /\ ResellerPanelsNext /\ UNCHANGED <<focus, walletVars, cardVars, loginGuardVars, sessionVars, adminDeskVars, backupVars, noteVars, targetVars, importVars, catVars, domainVars, pluginVars, pageVars, salesBotVars, bulkVars>>
  \/ focus = "backups" /\ BackupsNext /\ UNCHANGED <<focus, walletVars, cardVars, loginGuardVars, sessionVars, adminDeskVars, panelVars, noteVars, targetVars, importVars, catVars, domainVars, pluginVars, pageVars, salesBotVars, bulkVars>>
  \/ focus = "notes" /\ NotificationsNext /\ UNCHANGED <<focus, walletVars, cardVars, loginGuardVars, sessionVars, adminDeskVars, panelVars, backupVars, targetVars, importVars, catVars, domainVars, pluginVars, pageVars, salesBotVars, bulkVars>>
  \/ focus = "targets" /\ ClientTargetsNext /\ UNCHANGED <<focus, walletVars, cardVars, loginGuardVars, sessionVars, adminDeskVars, panelVars, backupVars, noteVars, importVars, catVars, domainVars, pluginVars, pageVars, salesBotVars, bulkVars>>
  \/ focus = "adopt" /\ PanelImportNext /\ UNCHANGED <<focus, walletVars, cardVars, loginGuardVars, sessionVars, adminDeskVars, panelVars, backupVars, noteVars, targetVars, catVars, domainVars, pluginVars, pageVars, salesBotVars, bulkVars>>
  \/ focus = "catalog" /\ CatalogNext /\ UNCHANGED <<focus, walletVars, cardVars, loginGuardVars, sessionVars, adminDeskVars, panelVars, backupVars, noteVars, targetVars, importVars, domainVars, pluginVars, pageVars, salesBotVars, bulkVars>>
  \/ focus = "domains" /\ ShopDomainsNext /\ UNCHANGED <<focus, walletVars, cardVars, loginGuardVars, sessionVars, adminDeskVars, panelVars, backupVars, noteVars, targetVars, importVars, catVars, pluginVars, pageVars, salesBotVars, bulkVars>>
  \/ focus = "plugins" /\ PluginBookNext /\ UNCHANGED <<focus, walletVars, cardVars, loginGuardVars, sessionVars, adminDeskVars, panelVars, backupVars, noteVars, targetVars, importVars, catVars, domainVars, pageVars, salesBotVars, bulkVars>>
  \/ focus = "pages" /\ PagesNext /\ UNCHANGED <<focus, walletVars, cardVars, loginGuardVars, sessionVars, adminDeskVars, panelVars, backupVars, noteVars, targetVars, importVars, catVars, domainVars, pluginVars, salesBotVars, bulkVars>>
  \/ focus = "bots" /\ SalesBotsNext /\ UNCHANGED <<focus, walletVars, cardVars, loginGuardVars, sessionVars, adminDeskVars, panelVars, backupVars, noteVars, targetVars, importVars, catVars, domainVars, pluginVars, pageVars, bulkVars>>
  \/ focus = "bulk" /\ ClientBulkNext /\ UNCHANGED <<focus, walletVars, cardVars, loginGuardVars, sessionVars, adminDeskVars, panelVars, backupVars, noteVars, targetVars, importVars, catVars, domainVars, pluginVars, pageVars, salesBotVars>>

DeskSpec == DeskInit /\ [][DeskNext]_DeskVars


\* The invoices are interchangeable.
DeskSymmetry == Permutations(Invoices)

\* Both orders of the sub-panel plan are of one buyer.
OneBuyer == [o \in PanelOrders |-> "buyer"]

\* Two vless inbounds and a trojan one on server A, a trojan one on B.
DeskServerOf == [i \in Inbounds |-> IF i < 4 THEN "A" ELSE "B"]
DeskShapeOf == [i \in Inbounds |-> IF i < 3 THEN "vless" ELSE "trojan"]

\* Clients found on a panel: two share a uuid, one has none, one has not started.
DeskImportRows == {[email |-> "e1", uuid |-> "u1", pending |-> TRUE], [email |-> "e2", uuid |-> "u1", pending |-> FALSE],
                   [email |-> "e3", uuid |-> "u2", pending |-> FALSE], [email |-> "e4", uuid |-> "", pending |-> FALSE]}
=============================================================================
