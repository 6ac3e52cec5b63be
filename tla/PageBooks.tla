----------------------------- MODULE PageBooks -----------------------------
(***************************************************************************)
(* The pages of the panel and of its shops, and the vocabulary they are     *)
(* written down in.  A React page is its event handlers (what each does     *)
(* before, with and after its request), its controls (what disables the     *)
(* button of a handler) and its loader (when it fetches what it shows).     *)
(*                                                                          *)
(* What a handler does with a successful answer ("then"):                   *)
(*   patch     merges each answer into what is shown                        *)
(*   patchAll  merges everything once the last request is answered          *)
(*   reload    awaits load() before its flag falls                          *)
(*   tick      lowers its flag and has the page load again on its own       *)
(*   keep      leaves the optimistic change on the screen                   *)
(*   none      shows a message only                                         *)
(*   leave     goes to another page                                         *)
(*   read      sent no write at all: the handler is a refresh button        *)
(***************************************************************************)
EXTENDS Naturals, TLC

\* A handler that raises flag ("" for none) while its request is under way.
Do(flag, then) == [flag |-> flag, row |-> FALSE, then |-> then, error |-> "toast", early |-> FALSE, steps |-> 1]

\* A handler of one row of a list: the flag holds the id of the row.
DoRow(flag, then) == [Do(flag, then) EXCEPT !.row = TRUE]

\* A handler that sends two requests, one after the other.
Twice(h) == [h EXCEPT !.steps = 2]

\* A handler that changes what is shown before it asks, and loads again when refused.
Early(h) == [h EXCEPT !.early = TRUE, !.error = "reload"]

\* A handler that loads again, or has the page load again, after an error too.
Anyway(h) == [h EXCEPT !.error = h.then]

\* A control disabled while any of the flags is up, or while they hold its own id.
Off(flags) == [any |-> flags, own |-> {}]
OffOwn(flags) == [any |-> {}, own |-> flags]
NoControls == [h \in {} |-> Off({})]

\* A page that is given its rows, one that loads them when it opens, one that polls
\* on top of what it was given, one whose filter is part of the query, and one
\* whose effect drops the answers of an earlier run (alive = false).
NoLoad == [flag |-> "", mount |-> FALSE, poll |-> FALSE, filter |-> FALSE, guarded |-> FALSE]
Load(flag) == [NoLoad EXCEPT !.flag = flag, !.mount = TRUE]
Polled(l) == [l EXCEPT !.poll = TRUE]
Filtered(l) == [l EXCEPT !.filter = TRUE]
Guarded(l) == [l EXCEPT !.guarded = TRUE]

Page(load, handlers, controls) == [load |-> load, handlers |-> handlers, controls |-> controls]

(* ------- the panel: clients, servers, the installation, settings, integrations ------- *)
(* Every entry is one component of apps/web/src/app/(app).                               *)

\* Backups: refresh polls while a backup or a restore runs.
BackupsHandlers ==
  [refresh |-> Do("loading", "read"), saveSettings |-> Do("saving", "reload"), runNow |-> Do("running", "reload"),
   remove |-> DoRow("", "reload"), verify |-> DoRow("busy", "reload"), cleanup |-> Do("busy", "reload"),
   reindex |-> Do("busy", "reload"), doRestore |-> Do("restoring", "reload")]
BackupsControls ==
  [refresh |-> Off({"loading"}), saveSettings |-> Off({"saving"}), runNow |-> Off({"running"}),
   cleanup |-> OffOwn({"busy"}), reindex |-> OffOwn({"busy"})]
BackupsRows == [verify |-> OffOwn({"busy"}), doRestore |-> Off({"restoring"})]

\* Services: the cards are moved on the screen first, and loaded again if that is refused.
ServicesHandlers ==
  [submit |-> Do("busy", "reload"), toggleActive |-> DoRow("", "patch"), remove |-> DoRow("", "patch"),
   duplicate |-> DoRow("", "reload"), move |-> Early(Do("ordering", "keep"))]
ServicesControls == [move |-> Off({"ordering"})]
ServicesDialog == [submit |-> Off({"busy"})]

ServersHandlers == [sync |-> DoRow("syncing", "patch"), syncAll |-> Do("syncingAll", "patch"), remove |-> DoRow("", "patch")]
ServersControls == [syncAll |-> Off({"syncingAll"})]
ServerCard == [sync |-> OffOwn({"syncing"})]

ServerFormHandlers == [test |-> Do("testing", "none"), save |-> Do("busy", "patch")]
ServerFormControls == [test |-> Off({"testing"}), save |-> Off({"busy"})]

\* The chips of the period load it at once; the chip follows the answer.
ServerDetailHandlers == [period |-> Do("loading", "read"), refresh |-> Do("loading", "read"), sync |-> Do("syncing", "reload")]
ServerDetailControls == [refresh |-> Off({"loading"}), sync |-> Off({"syncing"})]

\* The scan of a panel's clients runs again after an import, or when asked to (tick).
ImportClientsHandlers == [runImport |-> Do("busy", "tick")]
ImportClientsControls == [runImport |-> Off({"busy"})]

\* Audit: every filter, the page and the live tick re-run the same effect.
AuditHandlers == [saveSettings |-> Do("saving", "tick"), pruneNow |-> Do("saving", "tick")]
AuditControls == [saveSettings |-> Off({"saving"}), pruneNow |-> Off({"saving"})]

\* Clients: the search is debounced; the rows are patched from each answer.
ClientsHandlers ==
  [saved |-> Do("", "patch"), reset |-> DoRow("", "patch"), toggle |-> DoRow("", "patch"), remove |-> DoRow("", "patch"),
   refreshAll |-> Do("", "read")]

\* The price shown in the form is asked for again, debounced, when the form changes.
ClientFormHandlers == [submit |-> Do("busy", "patch")]
ClientFormControls == [submit |-> Off({"busy"})]
CreateClientHandlers == [submit |-> Do("busy", "patch")]
CreateClientControls == [submit |-> Off({"busy"})]

\* A bulk action goes in slices; the list is loaded again however it ends.
BulkRunner == [run |-> Anyway(Twice(Do("busy", "tick")))]
BulkBarControls == [run |-> Off({"busy"})]

ClientDetailHandlers == [patch |-> Do("busy", "patch"), reset |-> Do("", "patch"), remove |-> Do("", "leave")]
ClientDetailControls == [patch |-> Off({"busy"})]

\* The cards of a client's page share one flag that holds the name of the action.
ClientTargetsCard ==
  Page(Load("busy"), [reload |-> Do("busy", "read"), save |-> Do("busy", "patch")],
       [reload |-> OffOwn({"busy"}), save |-> OffOwn({"busy"})])
ClientHwidCard ==
  Page(Load("busy"), [reload |-> Do("busy", "read"), save |-> Do("busy", "reload"), clear |-> Do("busy", "reload")],
       [reload |-> OffOwn({"busy"}), save |-> OffOwn({"busy"}), clear |-> OffOwn({"busy"})])
ClientIpsCard ==
  Page(Load("busy"), [reload |-> Do("busy", "read"), clear |-> Do("busy", "reload")],
       [reload |-> OffOwn({"busy"}), clear |-> OffOwn({"busy"})])
AutoRenewCard ==
  Page(Load(""), [save |-> Do("busy", "patch"), stop |-> Do("busy", "patch")],
       [save |-> OffOwn({"busy"}), stop |-> OffOwn({"busy"})])

\* Monitoring: resolving goes on past a refusal, and loads again however it ends.
MonitoringHandlers ==
  [refresh |-> Do("loading", "read"), resolve |-> DoRow("", "reload"), resolveVisible |-> Anyway(Do("loading", "tick"))]
MonitoringControls == [refresh |-> Off({"loading"}), resolveVisible |-> Off({"loading"})]

AdminsHandlers ==
  [onSaved |-> Do("", "patch"), toggleActive |-> DoRow("", "patch"), remove |-> DoRow("", "patch"), bulk |-> Do("bulkBusy", "patch")]
AdminsControls == [bulk |-> Off({"bulkBusy"})]

\* An admin is saved first, then the services it may sell.
AdminFormHandlers == [submit |-> Twice(Do("busy", "patchAll"))]
AdminFormControls == [submit |-> Off({"busy"})]

UpdatesHandlers == [check |-> Do("pending", "tick"), update |-> Do("pending", "tick"), cancel |-> Do("pending", "reload")]
UpdatesControls == [check |-> OffOwn({"pending"}), update |-> OffOwn({"pending"}), cancel |-> OffOwn({"pending"})]
UpdateAuto == Page(Load(""), [reload |-> Do("", "read"), toggle |-> Do("saving", "patch"), hours |-> Do("saving", "patch")], [hours |-> Off({"saving"})])

ClientTypesHandlers == [save |-> Do("busy", "patch")]
ClientTypesControls == [save |-> Off({"busy"})]

\* The pages of this module by name.
PanelBook ==
  [backups |-> Page(Polled([NoLoad EXCEPT !.flag = "loading"]), BackupsHandlers, BackupsControls @@ BackupsRows),
   services |-> Page(NoLoad, ServicesHandlers, ServicesControls @@ ServicesDialog),
   servers |-> Page(NoLoad, ServersHandlers, ServersControls @@ ServerCard),
   serverForm |-> Page(NoLoad, ServerFormHandlers, ServerFormControls),
   serverDetail |-> Page([NoLoad EXCEPT !.flag = "loading"], ServerDetailHandlers, ServerDetailControls),
   importClients |-> Page(Guarded(Polled(Load("loading"))), ImportClientsHandlers, ImportClientsControls),
   audit |-> Page(Guarded(Filtered(Polled(Load("loading")))), AuditHandlers, AuditControls),
   clients |-> Page(Filtered(Load("loading")), ClientsHandlers, NoControls),
   clientForm |-> Page(Filtered(Load("")), ClientFormHandlers, ClientFormControls),
   createClient |-> Page(Filtered(Load("")), CreateClientHandlers, CreateClientControls),
   bulkBar |-> Page(NoLoad, BulkRunner, BulkBarControls),
   clientDetail |-> Page(NoLoad, ClientDetailHandlers, ClientDetailControls),
   clientTargets |-> ClientTargetsCard, clientHwid |-> ClientHwidCard, clientIps |-> ClientIpsCard, autoRenew |-> AutoRenewCard,
   monitoring |-> Page(Polled([NoLoad EXCEPT !.flag = "loading"]), MonitoringHandlers, MonitoringControls),
   admins |-> Page(NoLoad, AdminsHandlers, AdminsControls),
   adminForm |-> Page(NoLoad, AdminFormHandlers, AdminFormControls),
   updates |-> Page(Polled(NoLoad), UpdatesHandlers, UpdatesControls),
   updateAuto |-> UpdateAuto,
   clientTypes |-> Page(NoLoad, ClientTypesHandlers, ClientTypesControls)]

(* ------------------------------- settings ------------------------------- *)

\* Licenses: one flag holds the name of the action; the buttons of a code (release, revoke) send "row" and look at none.
LicenseHandlers ==
  [activate |-> Do("busy", "reload"), refresh |-> Do("busy", "reload"), clear |-> Do("busy", "reload"),
   create |-> Do("busy", "reload"), row |-> Do("busy", "reload")]
LicenseControls == [activate |-> OffOwn({"busy"}), refresh |-> OffOwn({"busy"}), clear |-> OffOwn({"busy"}), create |-> OffOwn({"busy"})]

\* Alerts: five settings are loaded together; the file of settings is imported and loaded again.
AlertsHandlers ==
  [refresh |-> Do("loading", "read"), save |-> Do("saving", "patch"), exportBundle |-> Do("busy", "none"), importBundle |-> Do("busy", "reload")]
AlertsControls ==
  [refresh |-> Off({"loading"}), save |-> Off({"saving"}), exportBundle |-> Off({"busy"}), importBundle |-> Off({"busy"})]

\* The shop's own domain: verify saves the typed host first.
DomainHandlers == [save |-> Do("busy", "patch"), verify |-> Twice(Do("busy", "patchAll")), remove |-> Do("busy", "patch")]
DomainControls == [save |-> Off({"busy"}), verify |-> Off({"busy"}), remove |-> Off({"busy"})]

SecurityHandlers == [begin2fa |-> Do("busy", "patch"), confirm2fa |-> Do("busy", "patch"), disable2fa |-> Do("busy", "patch")]
SecurityControls == [begin2fa |-> Off({"busy"}), confirm2fa |-> Off({"busy"}), disable2fa |-> Off({"busy"})]

LoginGuardCard ==
  Page(Load("loading"), [reload |-> Do("loading", "read"), save |-> Do("saving", "patch")], [reload |-> Off({"loading"}), save |-> Off({"saving"})])

\* save and sendTest return at once when their own flag is up.
MailHandlers == [save |-> Do("busy", "patch"), sendTest |-> Do("testing", "none")]
MailControls == [save |-> Off({"busy"}), sendTest |-> Off({"testing"})]

ClientTypesTabHandlers == [defaults |-> Do("busy", "patch"), admin |-> DoRow("busy", "patch")]
ClientTypesTabControls == [defaults |-> Off({"busy"}), admin |-> Off({"busy"})]

ExternalLinksHandlers ==
  [add |-> Do("busy", "reload"), save |-> DoRow("busy", "reload"), probe |-> Do("testing", "none"), remove |-> DoRow("", "reload")]
ExternalLinksControls == [add |-> Off({"busy"}), save |-> Off({"busy"}), probe |-> Off({"testing"})]

BrandTab == Page(NoLoad, [save |-> Do("busy", "patch")], [save |-> Off({"busy"})])
AccountTab == Page(NoLoad, [changePassword |-> Do("busy", "none")], [changePassword |-> Off({"busy"})])
SessionTab == Page(Load(""), [save |-> Do("busy", "patch"), logout |-> Do("", "leave")], [save |-> Off({"busy"})])

\* Reseller bots: every action of a bot shares one flag.
ResellerBotHandlers ==
  [register |-> Do("busy", "reload"), pause |-> Do("busy", "reload"), resume |-> Do("busy", "reload"), removeMine |-> Do("busy", "reload"),
   saveConfig |-> Do("saving", "reload"), refresh |-> Do("busy", "read"), block |-> DoRow("busy", "reload"), removeBot |-> DoRow("busy", "reload")]
ResellerBotControls ==
  [register |-> Off({"busy"}), pause |-> Off({"busy"}), resume |-> Off({"busy"}), removeMine |-> Off({"busy"}), saveConfig |-> Off({"saving"})]
ResellerBotRows == [refresh |-> Off({"busy"}), block |-> Off({"busy"}), removeBot |-> Off({"busy"})]

ApiKeysHandlers == [refresh |-> Do("busy", "read"), create |-> Do("creating", "reload"), revoke |-> DoRow("", "reload")]
ApiKeysControls == [refresh |-> Off({"busy"}), create |-> Off({"creating"})]

\* Webhooks: the switch moves before the request, and the list is loaded again either way.
WebhooksHandlers ==
  [refresh |-> Do("busy", "read"), toggleActive |-> Early(DoRow("", "reload")), remove |-> DoRow("", "reload"), test |-> DoRow("testingId", "reload")]
WebhooksControls == [refresh |-> Off({"busy"}), test |-> OffOwn({"testingId"})]
WebhookModal == Page(NoLoad, [save |-> Do("saving", "patch")], [save |-> Off({"saving"})])

NotificationsTab == Page(Load(""), [refresh |-> Do("busy", "read")], [refresh |-> Off({"busy"})])

TelegramHandlers == [save |-> Do("saving", "patch"), test |-> Do("testing", "none")]
TelegramControls == [save |-> Off({"saving"}), test |-> Off({"testing"})]

\* The pages of this module by name.
SettingsBook ==
  [license |-> Page(Load(""), LicenseHandlers, LicenseControls),
   alerts |-> Page(Load("loading"), AlertsHandlers, AlertsControls),
   domain |-> Page(Load("loading"), DomainHandlers, DomainControls),
   security |-> Page(NoLoad, SecurityHandlers, SecurityControls),
   loginGuard |-> LoginGuardCard,
   mail |-> Page(Load(""), MailHandlers, MailControls),
   clientTypesTab |-> Page(Load(""), ClientTypesTabHandlers, ClientTypesTabControls),
   externalLinks |-> Page(Load(""), ExternalLinksHandlers, ExternalLinksControls),
   brand |-> BrandTab, account |-> AccountTab, session |-> SessionTab,
   resellerBot |-> Page(Load(""), ResellerBotHandlers, ResellerBotControls @@ ResellerBotRows),
   apiKeys |-> Page(Load(""), ApiKeysHandlers, ApiKeysControls),
   webhooks |-> Page(Load(""), WebhooksHandlers, WebhooksControls),
   webhookModal |-> WebhookModal, notifications |-> NotificationsTab,
   telegram |-> Page(NoLoad, TelegramHandlers, TelegramControls)]

(* ------- a seller's store, orders and wallet, a customer's pages, the sign-in page ------- *)

\* The store's settings and the texts of its page are saved one after the other.
StoreSettingsHandlers == [save |-> Twice(Do("saving", "patch"))]
StoreSettingsControls == [save |-> Off({"saving"})]
StorePaymentsHandlers == [save |-> Twice(Do("saving", "patch"))]
StorePaymentsControls == [save |-> Off({"saving"})]

\* Card deposits: one flag holds the name of the action.
CardPayHandlers ==
  [rotate |-> Do("busy", "patch"), token |-> Do("busy", "patch"), syncBank |-> Do("busy", "reload"),
   rematch |-> Do("busy", "patch"), addDeposit |-> Do("busy", "patch")]
CardPayControls ==
  [rotate |-> OffOwn({"busy"}), token |-> OffOwn({"busy"}), syncBank |-> OffOwn({"busy"})]
CardPayDeposits == [rematch |-> OffOwn({"busy"}), addDeposit |-> OffOwn({"busy"})]

FxHandlers == [testRate |-> Do("busy", "none"), refreshRate |-> Do("busy", "patch")]
FxControls == [testRate |-> OffOwn({"busy"}), refreshRate |-> OffOwn({"busy"})]

\* Plugins: save looks at its own row's flag; rotate and remove raise it and look at none.
PluginsHandlers ==
  [add |-> Do("busy", "patch"), save |-> DoRow("busy", "patch"), rotate |-> DoRow("busy", "patch"), remove |-> DoRow("busy", "patch")]
PluginsControls == [add |-> OffOwn({"busy"}), save |-> OffOwn({"busy"})]

CustomersHandlers ==
  [reload |-> Do("loading", "read"), submitCredit |-> Do("busy", "patch"), submitPassword |-> Do("busy", "none"), toggleStatus |-> DoRow("busy", "patch")]
CustomersControls == [toggleStatus |-> Off({"busy"})]
CustomersDialogs == [submitCredit |-> Off({"busy"}), submitPassword |-> Off({"busy"})]

\* Panels sold as plans: an unlink loads again whether it was refused or not.
PanelPlansHandlers ==
  [reload |-> Do("", "read"), save |-> Do("saving", "reload"), unlink |-> Anyway(DoRow("", "reload")), reveal |-> DoRow("", "reload")]
PanelPlansControls == [save |-> Off({"saving"})]
PanelAccounts == Page(NoLoad, [resetPassword |-> DoRow("busy", "tick")], [resetPassword |-> OffOwn({"busy"})])

StorePlansHandlers == [remove |-> DoRow("", "reload"), toggleActive |-> DoRow("", "reload")]
PlanFormHandlers == [save |-> Do("saving", "reload")]
PlanFormControls == [save |-> Off({"saving"})]

\* The catalogue: edits stay on the page until save sends the whole of it.
CatalogPlansControls == [save |-> Off({"saving"})]
CatalogTab == Page(Load(""), [reload |-> Do("", "read"), save |-> Do("saving", "patch")], CatalogPlansControls)

DiscountsHandlers == [create |-> Do("saving", "reload"), remove |-> Anyway(DoRow("", "reload")), reload |-> Do("", "read")]
DiscountsControls == [create |-> Off({"saving"})]
CryptoWalletsTab == Page(Load(""), [save |-> Do("busy", "patch")], [save |-> Off({"busy"})])
StoreOverviewTab == Page(Load(""), [refresh |-> Do("busy", "read")], [refresh |-> Off({"busy"})])

\* Orders: the flag holds the order's id, and the reload asks with the filter of the press.
OrdersHandlers == [fulfill |-> DoRow("busy", "reload"), cancel |-> DoRow("busy", "reload")]
OrdersControls == [fulfill |-> OffOwn({"busy"}), cancel |-> OffOwn({"busy"})]
OrderPaymentsHandlers == [confirmPay |-> DoRow("busy", "reload"), doReject |-> DoRow("busy", "reload")]
OrderPaymentsControls == [confirmPay |-> OffOwn({"busy"}), doReject |-> Off({"busy"})]

WalletPage == Page(Load(""), [reload |-> Do("", "read"), topupDone |-> Do("", "tick")], NoControls)
TopupModal == Page(NoLoad, [start |-> Do("busy", "patch"), sendProof |-> Do("busy", "patch")], [start |-> Off({"busy"}), sendProof |-> Off({"busy"})])

\* The owner's wallet page: prices and adjustments share one flag.
OwnerPanelHandlers == [savePricing |-> Do("saving", "patch"), doAdjust |-> Do("saving", "reload"), savePrice |-> Do("saving", "reload"), reload |-> Do("", "read")]
OwnerPanelControls == [savePricing |-> Off({"saving"}), doAdjust |-> Off({"saving"}), savePrice |-> Off({"saving"})]

\* A package is bought once at a time, whichever package it is.
WalletPlansTab == Page(Load(""), [reload |-> Do("", "read"), buy |-> DoRow("busy", "tick")], [buy |-> Off({"busy"})])
PlansAdmin == Page(NoLoad, [save |-> Do("saving", "patch")], [save |-> Off({"saving"})])

\* The pages of this module by name.
StoreBook ==
  [storeSettings |-> Page(Load("loading"), StoreSettingsHandlers, StoreSettingsControls),
   storePayments |-> Page(Load("loading"), StorePaymentsHandlers, StorePaymentsControls),
   cardPay |-> Page(NoLoad, CardPayHandlers, CardPayControls @@ CardPayDeposits),
   fx |-> Page(NoLoad, FxHandlers, FxControls),
   plugins |-> Page(Load(""), PluginsHandlers, PluginsControls),
   customers |-> Page(Filtered(Load("loading")), CustomersHandlers, CustomersControls @@ CustomersDialogs),
   panelPlans |-> Page(Load(""), PanelPlansHandlers, PanelPlansControls),
   panelAccounts |-> PanelAccounts,
   storePlans |-> Page(Load(""), StorePlansHandlers @@ PlanFormHandlers, PlanFormControls),
   catalog |-> CatalogTab,
   discounts |-> Page(Load(""), DiscountsHandlers, DiscountsControls),
   cryptoWallets |-> CryptoWalletsTab, storeOverview |-> StoreOverviewTab,
   orders |-> Page(Filtered(Load("")), OrdersHandlers, OrdersControls),
   orderPayments |-> Page(Filtered(Load("")), OrderPaymentsHandlers, OrderPaymentsControls),
   wallet |-> WalletPage, topup |-> TopupModal,
   ownerPanel |-> Page(Load(""), OwnerPanelHandlers, OwnerPanelControls),
   walletPlans |-> WalletPlansTab, plansAdmin |-> PlansAdmin]

(* ------------------------------ customers ------------------------------- *)

\* Sign-in: login and sendCode return at once when their own flag is up.
LoginHandlers == [login |-> Do("busy", "leave"), sendCode |-> Do("sending", "none")]
LoginControls == [login |-> Off({"busy"}), sendCode |-> Off({"sending"})]

\* The sign-in and sign-up dialog of a shop; the account is loaded again once it closes.
AuthModalHandlers == [submit |-> Do("busy", "tick")]
AuthModalControls == [submit |-> Off({"busy"})]
ShopAccountLoad == Load("")

\* Checkout: the flag of an order falls on a refusal only, a success opens the order's page.
CheckoutHandlers == [checkCode |-> Do("checking", "patch"), submit |-> Do("busy", "leave")]
CheckoutControls == [checkCode |-> Off({"checking"}), submit |-> Off({"busy"})]

\* The order's page polls while the order is open.
OrderHandlers ==
  [refresh |-> Do("", "read"), pickCoin |-> Do("coinBusy", "patch"), sendTxid |-> Do("busy", "reload"), sendReceipt |-> Do("busy", "reload")]
OrderControls == [pickCoin |-> Off({"coinBusy"}), sendTxid |-> Off({"busy"}), sendReceipt |-> Off({"busy"})]

\* The account's page: a top-up is started, then its payment is polled.
AccountHandlers == [refreshAll |-> Do("", "read"), logout |-> Do("", "leave")]
TopupForm == [submit |-> Twice(Do("topupBusy", "patchAll"))]
TopupFormControls == [submit |-> Off({"topupBusy"})]
PaymentPanelHandlers == [sendProof |-> Do("proofBusy", "patch")]
PaymentPanelControls == [sendProof |-> Off({"proofBusy"})]
ProfileForms == Page(Load(""), [saveProfile |-> Do("busy", "reload"), changePassword |-> Do("pwBusy", "none")],
                     [saveProfile |-> Off({"busy"}), changePassword |-> Off({"pwBusy"})])

\* The pages of this module by name.
ShopBook ==
  [login |-> Page(NoLoad, LoginHandlers, LoginControls),
   shopAuth |-> Page(ShopAccountLoad, AuthModalHandlers, AuthModalControls),
   checkout |-> Page(NoLoad, CheckoutHandlers, CheckoutControls),
   order |-> Page(Polled(NoLoad), OrderHandlers, OrderControls),
   shopAccount |-> Page(Polled(ShopAccountLoad), AccountHandlers @@ TopupForm @@ PaymentPanelHandlers, TopupFormControls @@ PaymentPanelControls),
   profile |-> ProfileForms]

\* Every page.
AllPages == PanelBook @@ SettingsBook @@ StoreBook @@ ShopBook
=============================================================================
