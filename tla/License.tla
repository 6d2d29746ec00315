------------------------------ MODULE License ------------------------------
(***************************************************************************)
(* lib/licenses: what VerifyLicenseSecret says of a license, as a function *)
(* of the license, of the time and of the cluster.  Whether the signature  *)
(* fits the payload and the payload can be decoded is one bit of it; which *)
(* of the two keys the Secret has is part of it, too.                      *)
(***************************************************************************)
EXTENDS Integers

CONSTANTS MaxTime,       \* bound on the clock
          DefaultGracePeriod, \* of a license that states none
          Fingerprints,  \* what the fingerprint of a license may be; "" for none
          ThisCluster,   \* UID of the namespace kube-system
          Nil            \* no Secret, or an error to read it

Time == 0..MaxTime

Keys == {"license", "signature"}

LicensePayload == [expirationDate : Time, gracePeriodDays : Int, fingerprint : Fingerprints,
                   signed : BOOLEAN, keys : SUBSET Keys]

ASSUME LicenseAssumption == /\ MaxTime \in Nat
                            /\ DefaultGracePeriod \in Nat \ {0}
                            /\ ThisCluster \in Fingerprints \ {""}
                            /\ Nil \notin LicensePayload

(* IsValid, IsInGracePeriod, IsEnforced; IsExpired is all but the first.   *)
Verdicts == {"valid", "grace", "enforced"}

GetActualGracePeriod(lp) ==
  IF lp.gracePeriodDays > 0 THEN lp.gracePeriodDays ELSE DefaultGracePeriod

EnforcementDate(lp) == lp.expirationDate + GetActualGracePeriod(lp)

VerifyExpirationDateLate(lp, now) ==
  CASE now < lp.expirationDate -> "valid"
    [] now > lp.expirationDate /\ now =< EnforcementDate(lp) -> "grace"
    [] OTHER -> "enforced"
VerifyExpirationDate(lp, now) ==
  CASE now < lp.expirationDate -> "valid"
    [] now > lp.expirationDate /\ now < EnforcementDate(lp) -> "grace"
    [] OTHER -> "enforced"

(* Any error to read the namespace kube-system counts as a mismatch.       *)
IsClusterFingerprintValid(lp, nsRead) == nsRead /\ lp.fingerprint = ThisCluster

VerifyClusterFingerprint(lp, verdict, nsRead) ==
  IF verdict = "valid" /\ lp.fingerprint # "" /\ ~IsClusterFingerprintValid(lp, nsRead)
  THEN "enforced" ELSE verdict

VerifyLicensePayload(lp, now) ==
  IF lp.signed THEN VerifyExpirationDate(lp, now) ELSE "enforced"

(* get is what the Get of the Secret answers: Nil for NotFound and for any *)
(* other error, which all count as a license that has run out.             *)
VerifyLicenseSecret(get, now, nsRead) ==
  IF get = Nil THEN "enforced"
  ELSE IF get.keys # Keys THEN "enforced"
  ELSE VerifyClusterFingerprint(get, VerifyLicensePayload(get, now), nsRead)

-----------------------------------------------------------------------------
(* What the fields of a license are documented to mean.                    *)

Signed(lp) == lp.signed /\ lp.keys = Keys
Genuine(lp) == Signed(lp) /\ lp.fingerprint \in {"", ThisCluster}

ExpectedVerdict(lp, now) ==
  CASE Genuine(lp) /\ now < lp.expirationDate -> "valid"
    [] Genuine(lp) /\ now >= lp.expirationDate /\ now < EnforcementDate(lp) -> "grace"
    [] OTHER -> "enforced"

(* The code departs from it twice: at the very instant of expiration, and  *)
(* when a license of another cluster is in its grace period.               *)
AtExpiration(lp, now) == Genuine(lp) /\ now = lp.expirationDate
GraceOfAnotherCluster(lp, now) ==
  Signed(lp) /\ ~Genuine(lp) /\ now > lp.expirationDate /\ now < EnforcementDate(lp)
=============================================================================
