------------------------------ MODULE Licensing -----------------------------
(***************************************************************************)
(* One license code, the vendor's mint store (services/licensing.ts, one    *)
(* settings row that is written back whole) and the customer installs that  *)
(* verify it over the network (licenseVendor.ts, api/license/verify).       *)
(* Features follow the license, so an install is either licensed or locked. *)
(***************************************************************************)
EXTENDS Integers, FiniteSets

CONSTANTS Installs,
          MAX_HITS,      \* verifications one address may send per window
          VendorOverlap, \* may the vendor panel serve two requests at once?
          MaxVerifies, MaxVendorOps \* bounds

ASSUME LicensingAssumption ==
  MAX_HITS \in Nat /\ VendorOverlap \in BOOLEAN /\ MaxVerifies \in Nat /\ MaxVendorOps \in Nat

VARIABLES mint,      \* the code in the vendor's store
          writing,   \* redeemLicense between reading the row and writing it: install -> the row to write
          hits,      \* requests of each install's address in the current window
          license,   \* instance_license of each install; age is how old lastCheck is
          call,      \* verifyRemote of each install
          verifies, vendorOps,
          refusal    \* ghost: why the vendor last said no to each install

licenseVars == <<mint, writing, hits, license, call, verifies, vendorOps, refusal>>

Free == "free"   \* not bound to an install
NotWriting == [on |-> FALSE, row |-> [exists |-> FALSE, bound |-> Free, revoked |-> FALSE, over |-> FALSE]]
NoLicense == [code |-> FALSE, active |-> FALSE, age |-> "never"]
NoCall == [at |-> "idle", kind |-> "none", ok |-> FALSE]
LicensingInit ==
  /\ mint = [exists |-> TRUE, bound |-> Free, revoked |-> FALSE, over |-> FALSE]
  /\ writing = [i \in Installs |-> NotWriting] /\ hits = [i \in Installs |-> 0]
  /\ license = [i \in Installs |-> NoLicense] /\ call = [i \in Installs |-> NoCall]
  /\ verifies = 0 /\ vendorOps = 0 /\ refusal = [i \in Installs |-> "none"]

(* ------------------------------ the mint store --------------------------- *)

VendorQuiet == VendorOverlap \/ \A i \in Installs : ~writing[i].on
\* createLicenses mints the code again after deleteLicense (a new row, unbound).
VendorWrites(row) ==
  /\ VendorQuiet /\ vendorOps < MaxVendorOps /\ vendorOps' = vendorOps + 1 /\ mint' = row
  /\ UNCHANGED <<writing, hits, license, call, verifies, refusal>>
createLicenses == ~mint.exists /\ VendorWrites([exists |-> TRUE, bound |-> Free, revoked |-> FALSE, over |-> FALSE])
setLicenseRevoked == mint.exists /\ \E v \in BOOLEAN : v # mint.revoked /\ VendorWrites([mint EXCEPT !.revoked = v])
releaseLicense == mint.exists /\ mint.bound # Free /\ VendorWrites([mint EXCEPT !.bound = Free, !.over = FALSE])
deleteLicense == mint.exists /\ VendorWrites([mint EXCEPT !.exists = FALSE])
\* The days of a bound code run out.
licenseExpires ==
  /\ mint.bound # Free /\ ~mint.over /\ vendorOps < MaxVendorOps /\ vendorOps' = vendorOps + 1
  /\ mint' = [mint EXCEPT !.over = TRUE] /\ UNCHANGED <<writing, hits, license, call, verifies, refusal>>

\* redeemLicense: a missing, revoked or expired code, or one bound elsewhere, is refused.
Refused(i) == ~mint.exists \/ mint.revoked \/ mint.bound \notin {Free, i} \/ (mint.bound = i /\ mint.over)

\* POST /api/license/verify: the address's budget, then redeemLicense up to its write.
Answer(i, yes) == call' = [call EXCEPT ![i].at = "answered", ![i].ok = yes]
\* Mutant of verify: the code is bound before it is looked at.
verifyRebinds(i) ==
  /\ call[i].at = "sent" /\ VendorQuiet /\ ~writing[i].on /\ hits' = [hits EXCEPT ![i] = IF @ < MAX_HITS THEN @ + 1 ELSE @]
  /\ \/ (hits[i] >= MAX_HITS \/ Refused(i)) /\ Answer(i, FALSE) /\ refusal' = [refusal EXCEPT ![i] = IF hits[i] >= MAX_HITS THEN "budget" ELSE "code"] /\ UNCHANGED writing
     \/ /\ hits[i] < MAX_HITS /\ UNCHANGED <<call, refusal>>
        /\ writing' = [writing EXCEPT ![i] = [on |-> TRUE, row |-> [mint EXCEPT !.bound = i, !.revoked = FALSE]]]
  /\ UNCHANGED <<mint, license, verifies, vendorOps>>

verify(i) ==
  /\ call[i].at = "sent" /\ VendorQuiet /\ ~writing[i].on /\ hits' = [hits EXCEPT ![i] = IF @ < MAX_HITS THEN @ + 1 ELSE @]
  /\ \/ (hits[i] >= MAX_HITS \/ Refused(i)) /\ Answer(i, FALSE) /\ refusal' = [refusal EXCEPT ![i] = IF hits[i] >= MAX_HITS THEN "budget" ELSE "code"] /\ UNCHANGED writing
     \/ /\ hits[i] < MAX_HITS /\ ~Refused(i) /\ UNCHANGED <<call, refusal>>
        /\ writing' = [writing EXCEPT ![i] = [on |-> TRUE, row |-> [mint EXCEPT !.bound = i]]]
  /\ UNCHANGED <<mint, license, verifies, vendorOps>>
redeemLicense(i) ==
  /\ writing[i].on /\ mint' = writing[i].row /\ writing' = [writing EXCEPT ![i] = NotWriting]
  /\ IF call[i].at = "sent" THEN Answer(i, TRUE) ELSE UNCHANGED call
  /\ UNCHANGED <<hits, license, verifies, vendorOps, refusal>>
windowPasses(i) ==
  /\ hits[i] > 0 /\ hits' = [hits EXCEPT ![i] = 0]
  /\ UNCHANGED <<mint, writing, license, call, verifies, vendorOps, refusal>>

(* ------------------------------ the installs ----------------------------- *)

\* activateLicense and recheckLicense up to verifyRemote; autoRecheckLicense asks
\* again once the last check is six hours old.
Ask(i, kind) ==
  /\ call[i].at = "idle" /\ verifies < MaxVerifies /\ verifies' = verifies + 1
  /\ call' = [call EXCEPT ![i] = [at |-> "sent", kind |-> kind, ok |-> FALSE]]
  /\ UNCHANGED <<mint, writing, hits, license, vendorOps, refusal>>
activateLicense(i) == Ask(i, "activate")
recheckLicense(i) == license[i].code /\ Ask(i, "recheck")
\* The worker's tick, which keeps asking (it is not limited by MaxVerifies).
autoRecheckLicense(i) ==
  /\ call[i].at = "idle" /\ license[i].code /\ license[i].age # "fresh"
  /\ call' = [call EXCEPT ![i] = [at |-> "sent", kind |-> "recheck", ok |-> FALSE]]
  /\ UNCHANGED <<mint, writing, hits, license, verifies, vendorOps, refusal>>

\* The answer, or the 9 s timeout: activation needs a yes; a recheck keeps the
\* license when nobody answered and drops it when the vendor said no.
receive(i) ==
  /\ call[i].at = "answered" /\ call' = [call EXCEPT ![i] = NoCall]
  /\ license' = [license EXCEPT ![i] =
       IF call[i].ok THEN [code |-> TRUE, active |-> TRUE, age |-> "fresh"]
       ELSE IF call[i].kind = "recheck" THEN [@ EXCEPT !.active = FALSE, !.age = "never"] ELSE @]
  /\ UNCHANGED <<mint, writing, hits, verifies, vendorOps, refusal>>

unreachable(i) ==
  /\ call[i].at = "sent" /\ call' = [call EXCEPT ![i] = NoCall]
  /\ UNCHANGED <<mint, writing, hits, license, verifies, vendorOps, refusal>>
dropLicense(i) ==
  /\ call[i].at = "idle" /\ license[i].code /\ vendorOps < MaxVendorOps /\ vendorOps' = vendorOps + 1
  /\ license' = [license EXCEPT ![i] = NoLicense] /\ UNCHANGED <<mint, writing, hits, call, verifies, refusal>>

\* lastCheck grows older than RECHECK_HOURS, then than LICENSE_GRACE_DAYS.
checkAges(i) ==
  /\ license[i].age \in {"fresh", "due"}
  /\ license' = [license EXCEPT ![i].age = IF @ = "fresh" THEN "due" ELSE "stale"]
  /\ UNCHANGED <<mint, writing, hits, call, verifies, vendorOps, refusal>>

\* panelEntitlements: locked without an active license checked within the grace days.
panelEntitlements(i) == license[i].active /\ license[i].age \in {"fresh", "due"}

LicensingNext ==
  \/ createLicenses \/ setLicenseRevoked \/ releaseLicense \/ deleteLicense \/ licenseExpires
  \/ \E i \in Installs :
       \/ verify(i) \/ redeemLicense(i) \/ windowPasses(i) \/ receive(i) \/ unreachable(i)
       \/ activateLicense(i) \/ recheckLicense(i) \/ autoRecheckLicense(i) \/ dropLicense(i) \/ checkAges(i)
LicensingSpec == LicensingInit /\ [][LicensingNext]_licenseVars

\* The vendor answers or the call times out, time passes, the worker keeps ticking.
LicensingFairness ==
  \A i \in Installs : /\ WF_licenseVars(receive(i)) /\ WF_licenseVars(redeemLicense(i)) /\ WF_licenseVars(checkAges(i))
                      /\ WF_licenseVars(verify(i) \/ unreachable(i)) /\ WF_licenseVars(autoRecheckLicense(i))

(* ------------------------------ properties ------------------------------ *)

\* The store, the licenses and the calls stay within their types.
LicensingTypeOK ==
  /\ mint \in [exists : BOOLEAN, bound : Installs \union {Free}, revoked : BOOLEAN, over : BOOLEAN]
  /\ license \in [Installs -> [code : BOOLEAN, active : BOOLEAN, age : {"never", "fresh", "due", "stale"}]]
  /\ \A i \in Installs : call[i].at \in {"idle", "sent", "answered"}

\* A working panel is locked only because its code was removed or the vendor refused
\* it (a vendor that answers nothing, or too late, never locks it).
LockedForAReason ==
  [][\A i \in Installs : license[i].active /\ ~license'[i].active => ~license'[i].code \/ refusal[i] # "none"]_licenseVars

\* A code the vendor revoked does not serve an install for ever: it is locked by
\* the next check or, if the vendor stays unreachable, at the end of the grace
\* window, unless the vendor takes the revocation back.
RevokedStopsWorking == \A i \in Installs : (mint.revoked /\ panelEntitlements(i)) ~> (~mint.revoked \/ ~panelEntitlements(i))

\* A revocation is not undone by an install that verifies the code: only the vendor
\* lifts it.
RevocationSticks == [][mint.exists /\ mint.revoked /\ ~mint'.revoked => vendorOps' # vendorOps]_licenseVars

\* What licensing promises, with a vendor that is unreachable or answers late.
LicensesSound == []LicensingTypeOK /\ LockedForAReason /\ RevocationSticks /\ RevokedStopsWorking
=============================================================================
