--------------------------------- MODULE Tokens ---------------------------------
(***************************************************************************)
(* The profile and its API token (edit_profile, generate_api_token and     *)
(* remove_api_token in judge/views/user.py, Profile.generate_api_token,    *)
(* ProfileForm, APIMiddleware).  Requests load the profile first; making a *)
(* token and counting points store their own fields, removing a token and  *)
(* the form store the whole row, and the form sets the organizations anew. *)
(***************************************************************************)
EXTENDS Integers, FiniteSets

CONSTANTS
    OpenOrgs,       \* Organizations open to all.
    ClosedOrgs,     \* Organizations that admit by request.
    MaxOpenOrgs,    \* DMOJ_USER_MAX_ORGANIZATION_COUNT.
    TnRequests,
    MaxTokens,      \* Bound: tokens made.
    MaxTnChanges    \* Bound: gradings, admissions and kicks.

\* What the constants are.
TokensAssumption == OpenOrgs \cap ClosedOrgs = {} /\ MaxOpenOrgs \in Nat

VARIABLES
    tn_row,         \* The profile: token (0: none), points, about.
    tn_orgs,        \* Its organizations.
    tn_requests,    \* Requests under way, each with the row it loaded.
    tn_tokens,      \* How many tokens were made.
    tn_changes,
    tn_last,        \* History: the token given last, 0 once removed; and the points counted last.
    tn_put,         \* History: the closed organizations that admitted the user and did not remove it.
    tn_stale        \* History: fields a save put back to what a request had loaded.

tnvars == <<tn_row, tn_orgs, tn_requests, tn_tokens, tn_changes, tn_last, tn_put, tn_stale>>

NoRequestOfToken == [kind |-> "none", row |-> [token |-> 0, points |-> 0, about |-> 0], orgs |-> {}, had |-> {}, about |-> 0]

TnInit ==
    /\ tn_row = [token |-> 0, points |-> 0, about |-> 0]
    /\ tn_orgs = {}
    /\ tn_requests = [r \in TnRequests |-> NoRequestOfToken]
    /\ tn_tokens = 0 /\ tn_changes = 0
    /\ tn_last = [token |-> 0, points |-> 0]
    /\ tn_put = {} /\ tn_stale = {}

EndTn(r) == tn_requests' = [tn_requests EXCEPT ![r] = NoRequestOfToken]

\* The middleware loads the profile.
LoadProfile(r, kind) ==
    /\ tn_requests[r].kind = "none"
    /\ tn_requests' = [tn_requests EXCEPT ![r] = [NoRequestOfToken EXCEPT !.kind = kind, !.row = tn_row]]
    /\ UNCHANGED <<tn_row, tn_orgs, tn_tokens, tn_changes, tn_last, tn_put, tn_stale>>

\* The whole row is saved; what changed since it was loaded is put back.
SaveLoadedProfile(row, loaded, kept) ==
    /\ tn_row' = row
    /\ tn_stale' = tn_stale \cup {field \in kept : loaded[field] # tn_row[field]}

-----------------------------------------------------------------------------
(* Tokens.                                                                 *)

\* Mutant: the whole row is saved.
WholeRow(row) == row

\* save(update_fields=['api_token']).
OnlyToken(row) == [tn_row EXCEPT !.token = row.token]

GenerateApiToken(r) ==
    /\ tn_requests[r].kind = "generate" /\ tn_tokens < MaxTokens
    /\ tn_tokens' = tn_tokens + 1
    /\ tn_row' = OnlyToken([tn_requests[r].row EXCEPT !.token = tn_tokens + 1])
    /\ tn_last' = [tn_last EXCEPT !.token = tn_tokens + 1]
    /\ EndTn(r)
    /\ UNCHANGED <<tn_orgs, tn_changes, tn_put, tn_stale>>

RemoveApiToken(r) ==
    /\ tn_requests[r].kind = "remove"
    /\ SaveLoadedProfile([tn_requests[r].row EXCEPT !.token = 0], tn_requests[r].row, {"points", "about"})
    /\ tn_last' = [tn_last EXCEPT !.token = 0]
    /\ EndTn(r)
    /\ UNCHANGED <<tn_orgs, tn_tokens, tn_changes, tn_put>>

\* APIMiddleware: the digest of the token is the one stored.
TokenAccepted(token) == token # 0 /\ tn_row.token = token

-----------------------------------------------------------------------------
(* The form.                                                               *)

\* Mutant: any organization may be chosen.
AnyOrgs(orgs) == Cardinality(orgs \cap OpenOrgs) <= MaxOpenOrgs

\* ProfileForm: open organizations and those the user has, not too many of the open ones.
CleanOrgs(orgs) == orgs \subseteq OpenOrgs \cup tn_orgs /\ Cardinality(orgs \cap OpenOrgs) <= MaxOpenOrgs

\* The form as posted, from a page that may be old, is valid.
CheckProfileForm(r, orgs, about) ==
    /\ tn_requests[r].kind = "edit" /\ CleanOrgs(orgs)
    /\ tn_requests' = [tn_requests EXCEPT ![r] = [@ EXCEPT !.kind = "checked", !.orgs = orgs, !.had = tn_orgs, !.about = about]]
    /\ UNCHANGED <<tn_row, tn_orgs, tn_tokens, tn_changes, tn_last, tn_put, tn_stale>>

EditProfile(r) ==
    LET request == tn_requests[r] IN
    /\ request.kind = "checked"
    /\ tn_row' = [request.row EXCEPT !.about = request.about]
    /\ tn_stale' = tn_stale \cup {field \in {"token", "points"} : request.row[field] # tn_row[field]}
                            \cup ((request.orgs \cap request.had) \ tn_put)
    /\ tn_orgs' = request.orgs
    /\ EndTn(r)
    /\ UNCHANGED <<tn_tokens, tn_changes, tn_last, tn_put>>

-----------------------------------------------------------------------------
(* What others do.                                                         *)

\* Profile.calculate_points: three fields are saved.
CountPoints ==
    /\ tn_changes < MaxTnChanges /\ tn_changes' = tn_changes + 1
    /\ tn_row' = [tn_row EXCEPT !.points = tn_last.points + 1]
    /\ tn_last' = [tn_last EXCEPT !.points = @ + 1]
    /\ UNCHANGED <<tn_orgs, tn_requests, tn_tokens, tn_put, tn_stale>>

AdmittedTo(o) ==
    /\ tn_changes < MaxTnChanges /\ tn_changes' = tn_changes + 1
    /\ o \notin tn_orgs
    /\ tn_orgs' = tn_orgs \cup {o} /\ tn_put' = tn_put \cup {o}
    /\ UNCHANGED <<tn_row, tn_requests, tn_tokens, tn_last, tn_stale>>

KickedFrom(o) ==
    /\ tn_changes < MaxTnChanges /\ tn_changes' = tn_changes + 1
    /\ o \in tn_orgs
    /\ tn_orgs' = tn_orgs \ {o} /\ tn_put' = tn_put \ {o}
    /\ UNCHANGED <<tn_row, tn_requests, tn_tokens, tn_last, tn_stale>>

TnNext ==
    \/ CountPoints
    \/ \E o \in ClosedOrgs : AdmittedTo(o) \/ KickedFrom(o)
    \/ \E r \in TnRequests : \/ GenerateApiToken(r) \/ RemoveApiToken(r) \/ EditProfile(r)
                             \/ \E kind \in {"generate", "remove", "edit"} : LoadProfile(r, kind)
                             \/ \E orgs \in SUBSET (OpenOrgs \cup ClosedOrgs), about \in {1} : CheckProfileForm(r, orgs, about)

TnSpec == TnInit /\ [][TnNext]_tnvars

-----------------------------------------------------------------------------
(* Properties.                                                             *)

\* The API takes the token given last and no other, and none once it was removed, unless a form
\* under way put an older one back; making a token disturbs nothing else.
LastTokenOnly ==
    "token" \notin tn_stale => \A token \in 0..MaxTokens : TokenAccepted(token) <=> token # 0 /\ token = tn_last.token

PointsKept == "points" \notin tn_stale => tn_row.points = tn_last.points

\* Nobody gets into a closed organization by a form, except back into one that removed him while
\* the form was under way; nor into more open ones than allowed.
OrgsWereAdmitted ==
    /\ tn_orgs \cap ClosedOrgs \subseteq tn_put \cup tn_stale
    /\ Cardinality(tn_orgs \cap OpenOrgs) <= MaxOpenOrgs

TokensHold == LastTokenOnly /\ PointsKept /\ OrgsWereAdmitted
=============================================================================
