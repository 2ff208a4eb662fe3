------------------------------- MODULE Accounts -------------------------------
(***************************************************************************)
(* The settings of one account that say how it signs in (judge/views/      *)
(* two_factor.py, judge/views/user.py, judge/signals.py): an app that      *)
(* gives codes, spare codes, and devices.  A request works on the profile  *)
(* it loaded when it began; some of them save a few fields and others the  *)
(* whole row, and the user has several sessions open.                      *)
(***************************************************************************)
EXTENDS Integers, FiniteSets

CONSTANTS
    AcSessions,     \* Sessions of the user; each has one request at a time.
    AcDevices,      \* Devices that can be registered.
    AcStaff,        \* The user is staff, and staff must have a second factor.
    MaxAcRequests   \* Bound: requests.

\* What the constants are.
AccountsAssumption == AcStaff \in BOOLEAN

VARIABLES
    ac_row,         \* The profile: totp (is_totp_enabled), key, codes, webauthn.
    ac_devices,     \* Credentials stored.
    ac_sessions,    \* Per session: passed (2fa_passed), key (totp_enable_key).
    ac_requests,    \* Per session: the request under way and the profile it loaded, or NoRequest.
    ac_count,
    ac_lapped,      \* History: two requests were under way at once and one of them changed settings.
    ac_cleared      \* History: sessions whose page for enabling was made before codes were cleared.

acvars == <<ac_row, ac_devices, ac_sessions, ac_requests, ac_count, ac_lapped, ac_cleared>>

NoKey == "none"
NoRequest == [kind |-> "none"]
Kinds == {"enable_page", "enable", "refresh_page", "refresh", "disable", "codes", "whole", "second",
          "register", "delete"}

AcInit ==
    /\ ac_row = [totp |-> FALSE, key |-> NoKey, codes |-> FALSE, webauthn |-> FALSE]
    /\ ac_devices = {}
    /\ ac_sessions = [s \in AcSessions |-> [passed |-> FALSE, key |-> NoKey]]
    /\ ac_requests = [s \in AcSessions |-> NoRequest]
    /\ ac_count = 0 /\ ac_lapped = FALSE /\ ac_cleared = {}

HasFactor(row) == row.totp \/ row.webauthn

\* DMOJLoginMiddleware: what a session may ask for.
Admits(s, kind) ==
    IF HasFactor(ac_row) /\ ~ac_sessions[s].passed THEN kind = "second" ELSE kind # "second"

\* A request of a session that it admits begins; its profile is loaded.
BeginRequest(s, kind, device) ==
    /\ ac_requests[s] = NoRequest /\ Admits(s, kind)
    /\ ac_count < MaxAcRequests /\ ac_count' = ac_count + 1
    /\ ac_requests' = [ac_requests EXCEPT ![s] = [kind |-> kind, row |-> ac_row, device |-> device]]
    /\ UNCHANGED <<ac_row, ac_devices, ac_sessions, ac_lapped, ac_cleared>>

\* A request ends; settings changed while another was under way, or did not.
EndRequest(s) ==
    /\ ac_requests' = [ac_requests EXCEPT ![s] = NoRequest]
    /\ ac_lapped' = (ac_lapped \/ \E o \in AcSessions \ {s} : ac_requests[o] # NoRequest)
    /\ UNCHANGED ac_count

Doing(s, kind) == ac_requests[s].kind = kind

SetRow(row) == ac_row' = row
SetSession(s, field, value) == ac_sessions' = [ac_sessions EXCEPT ![s][field] = value]

\* check_skip: there is nothing to do for the profile as it was loaded.
Skipped(s) ==
    LET row == ac_requests[s].row IN
    CASE ac_requests[s].kind \in {"enable_page", "enable"} -> row.totp
      [] ac_requests[s].kind \in {"refresh_page", "refresh"} -> ~row.totp
      [] ac_requests[s].kind = "disable" -> ~row.totp \/ (AcStaff /\ ~row.webauthn)
      [] OTHER -> FALSE

Skip(s) ==
    /\ ac_requests[s] # NoRequest /\ Skipped(s)
    /\ ac_requests' = [ac_requests EXCEPT ![s] = NoRequest]
    /\ UNCHANGED <<ac_row, ac_devices, ac_sessions, ac_count, ac_lapped, ac_cleared>>

\* TOTPEnableView.get: the session gets a key, and the profile spare codes unless it had some.
KeyPage(s) ==
    /\ Doing(s, "enable_page") \/ Doing(s, "refresh_page")
    /\ ~Skipped(s)
    /\ SetSession(s, "key", IF ac_sessions[s].key = NoKey THEN s ELSE ac_sessions[s].key)
    /\ SetRow([ac_row EXCEPT !.codes = @ \/ ~ac_requests[s].row.codes])
    /\ ac_cleared' = ac_cleared \ {s}
    /\ EndRequest(s) /\ UNCHANGED ac_devices

\* Mutant: only the flag is saved.
FlagSaved(s) == [ac_row EXCEPT !.totp = TRUE]

\* The key the session was given, once a code of it is entered; only these fields are saved.
KeySaved(s) == [ac_row EXCEPT !.totp = TRUE, !.key = ac_sessions[s].key]

\* TOTPEnableView.post.
EnableTOTP(s) ==
    /\ Doing(s, "enable") \/ Doing(s, "refresh")
    /\ ~Skipped(s) /\ ac_sessions[s].key # NoKey
    /\ SetRow(KeySaved(s))
    /\ ac_sessions' = [ac_sessions EXCEPT ![s] = [passed |-> TRUE, key |-> NoKey]]
    /\ EndRequest(s) /\ UNCHANGED <<ac_devices, ac_cleared>>

\* A post without the page: KeyError.
NoKeyYet(s) ==
    /\ Doing(s, "enable") \/ Doing(s, "refresh")
    /\ ~Skipped(s) /\ ac_sessions[s].key = NoKey
    /\ ac_requests' = [ac_requests EXCEPT ![s] = NoRequest]
    /\ UNCHANGED <<ac_row, ac_devices, ac_sessions, ac_count, ac_lapped, ac_cleared>>

\* TOTPDisableView.form_valid: the whole row.
DisableTOTP(s) ==
    /\ Doing(s, "disable") /\ ~Skipped(s)
    /\ SetRow([ac_requests[s].row EXCEPT !.totp = FALSE, !.key = NoKey, !.codes = FALSE])
    /\ ac_cleared' = {o \in AcSessions : ac_sessions[o].key # NoKey}
    /\ EndRequest(s) /\ UNCHANGED <<ac_devices, ac_sessions>>

\* generate_scratch_codes.
NewCodes(s) ==
    /\ Doing(s, "codes")
    /\ SetRow([ac_row EXCEPT !.codes = TRUE])
    /\ EndRequest(s) /\ UNCHANGED <<ac_devices, ac_sessions, ac_cleared>>

\* edit_profile, remove_api_token, remove_contest: the profile is saved as it was loaded.
SaveWhole(s) ==
    /\ Doing(s, "whole")
    /\ SetRow(ac_requests[s].row)
    /\ EndRequest(s) /\ UNCHANGED <<ac_devices, ac_sessions, ac_cleared>>

\* TwoFactorLoginView: with what the profile has.
PassSecond(s) ==
    /\ Doing(s, "second")
    /\ HasFactor(ac_requests[s].row) => ac_requests[s].row.totp \/ ac_requests[s].row.codes \/ ac_devices # {}
    /\ SetSession(s, "passed", HasFactor(ac_requests[s].row))
    /\ EndRequest(s) /\ UNCHANGED <<ac_row, ac_devices, ac_cleared>>

\* Or the user goes away; and a session may end at any time.
LeaveSession(s) ==
    /\ ac_requests[s] = NoRequest \/ Doing(s, "second")
    /\ ac_sessions' = [ac_sessions EXCEPT ![s] = [passed |-> FALSE, key |-> NoKey]]
    /\ ac_requests' = [ac_requests EXCEPT ![s] = NoRequest]
    /\ UNCHANGED <<ac_row, ac_devices, ac_count, ac_lapped, ac_cleared>>

\* WebAuthnAttestationView.post: the device is stored, and then the flag unless the profile
\* that was loaded had it.
StoreDevice(s) ==
    LET device == ac_requests[s].device IN
    /\ Doing(s, "register") /\ device \notin ac_devices
    /\ ac_devices' = ac_devices \cup {device}
    /\ ac_requests' = [ac_requests EXCEPT ![s].kind = "mark"]
    /\ UNCHANGED <<ac_row, ac_sessions, ac_count, ac_lapped, ac_cleared>>

MarkDevice(s) ==
    /\ Doing(s, "mark")
    /\ SetRow([ac_row EXCEPT !.webauthn = @ \/ ~ac_requests[s].row.webauthn])
    /\ EndRequest(s) /\ UNCHANGED <<ac_devices, ac_sessions, ac_cleared>>

\* A device that is stored, or is not, already.
NoDevice(s) ==
    /\ \/ Doing(s, "register") /\ ac_requests[s].device \in ac_devices
       \/ Doing(s, "delete") /\ ac_requests[s].device \notin ac_devices
    /\ ac_requests' = [ac_requests EXCEPT ![s] = NoRequest]
    /\ UNCHANGED <<ac_row, ac_devices, ac_sessions, ac_count, ac_lapped, ac_cleared>>

\* Mutant: the device that goes is not counted.
LastDevice(s) == AcStaff /\ Cardinality(ac_devices) < 1 /\ ~ac_requests[s].row.totp

\* Staff may not delete what is left of a second factor.
LastFactor(s) == AcStaff /\ Cardinality(ac_devices) <= 1 /\ ~ac_requests[s].row.totp

\* WebAuthnDeleteView.post.
DeleteDevice(s) ==
    LET device == ac_requests[s].device IN
    /\ Doing(s, "delete") /\ device \in ac_devices
    /\ IF LastFactor(s)
       THEN /\ ac_requests' = [ac_requests EXCEPT ![s] = NoRequest]
            /\ UNCHANGED ac_devices
       ELSE /\ ac_devices' = ac_devices \ {device}
            /\ ac_requests' = [ac_requests EXCEPT ![s].kind = "count"]
    /\ UNCHANGED <<ac_row, ac_sessions, ac_count, ac_lapped, ac_cleared>>

\* webauthn_delete, the receiver of post_delete.
UnmarkDevice(s) ==
    /\ Doing(s, "count")
    /\ SetRow([ac_row EXCEPT !.webauthn = @ /\ ac_devices # {}])
    /\ EndRequest(s) /\ UNCHANGED <<ac_devices, ac_sessions, ac_cleared>>

AcNext == \E s \in AcSessions :
    \/ \E kind \in Kinds, device \in AcDevices : BeginRequest(s, kind, device)
    \/ Skip(s) \/ KeyPage(s) \/ EnableTOTP(s) \/ NoKeyYet(s) \/ DisableTOTP(s) \/ NewCodes(s)
    \/ SaveWhole(s) \/ PassSecond(s) \/ LeaveSession(s)
    \/ StoreDevice(s) \/ MarkDevice(s) \/ NoDevice(s) \/ DeleteDevice(s) \/ UnmarkDevice(s)

AcSpec == AcInit /\ [][AcNext]_acvars

-----------------------------------------------------------------------------
(* Properties.                                                             *)

NoneBetween == \A s \in AcSessions : ac_requests[s].kind \notin {"mark", "count"}

\* Whatever overwrites what, an account that asks for codes of an app has the key they are
\* made from, and the other way round.
KeyWithApp == ac_row.totp <=> ac_row.key # NoKey

\* An account that asks for codes of an app has been given spare codes, unless two requests
\* overlapped, or the page for enabling was made before another session disabled them.
CodesWithApp == ac_row.totp /\ ~ac_row.codes => ac_lapped \/ ac_row.key \in ac_cleared

\* An account asks for a device when it has one, unless two requests overlapped; then
\* the flag may be left on with no device, or off with one.
FlagWithDevices == NoneBetween /\ ~ac_lapped => (ac_row.webauthn <=> ac_devices # {})

\* Staff who must have a second factor and have one never lose it, unless two requests overlapped.
StaffKeepFactor == AcStaff /\ HasFactor(ac_row) => HasFactor(ac_row)' \/ ac_lapped'

AccountsHold == KeyWithApp /\ CodesWithApp /\ FlagWithDevices
=============================================================================
