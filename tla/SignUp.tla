--------------------------------- MODULE SignUp ---------------------------------
(***************************************************************************)
(* Signing up (judge/views/register.py, judge/social_auth.py, the pipeline *)
(* in dmoj/settings.py, DMOJLoginMiddleware): a form checks the name and   *)
(* the address, then stores a user, then a profile; a login elsewhere      *)
(* finds the user of its address or asks for a name and makes one.  Names  *)
(* are unique in the database, addresses only in the forms.                *)
(***************************************************************************)
EXTENDS Integers, FiniteSets

CONSTANTS
    SuNames, SuEmails,
    SuForms,        \* Registration forms posted.
    SuFlows,        \* Logins by way of another site; its account is known by its address.
    SuOrgs,         \* Organizations open to all.
    MaxSuOrgs       \* DMOJ_USER_MAX_ORGANIZATION_COUNT.

\* What the constants are: an address is not blank.
SignUpAssumption == "" \notin SuEmails

VARIABLES
    su_users,       \* Per name: the user, or NoUser.
    su_links,       \* Per address: the users associated with the account elsewhere.
    su_forms, su_flows,
    su_died         \* History: users whose making died halfway.

suvars == <<su_users, su_links, su_forms, su_flows, su_died>>

NoUser == [email |-> "", active |-> FALSE, profile |-> FALSE, orgs |-> {}, seen |-> {}]
NotSigning == [at |-> "none", name |-> "", email |-> "", orgs |-> {}, seen |-> {}]

\* "seen" is history: the names there were when the address was last looked for.
NewUser(actor, active) == [email |-> actor.email, active |-> active, profile |-> FALSE, orgs |-> {}, seen |-> actor.seen]

SuInit ==
    /\ su_users = [n \in SuNames |-> NoUser]
    /\ su_links = [e \in SuEmails |-> {}]
    /\ su_forms = [r \in SuForms |-> NotSigning]
    /\ su_flows = [f \in SuFlows |-> NotSigning]
    /\ su_died = {}

UserExists(n) == su_users[n] # NoUser
UsersThere == {n \in SuNames : UserExists(n)}
UsersOf(e) == {n \in UsersThere : su_users[n].email = e}
SetUser(n, user) == su_users' = [su_users EXCEPT ![n] = user]
SetForm(r, form) == su_forms' = [su_forms EXCEPT ![r] = form]
SetFlow(f, flow) == su_flows' = [su_flows EXCEPT ![f] = flow]

-----------------------------------------------------------------------------
(* The registration form.                                                  *)

\* Mutant: the address is not looked for.
CleanNameOnly(n, e, orgs) == ~UserExists(n) /\ Cardinality(orgs) <= MaxSuOrgs

\* CustomRegistrationForm: name and address free, not too many organizations.
CleanRegistration(n, e, orgs) == ~UserExists(n) /\ UsersOf(e) = {} /\ Cardinality(orgs) <= MaxSuOrgs

PostRegistration(r, n, e, orgs) ==
    /\ su_forms[r].at = "none"
    /\ SetForm(r, IF CleanRegistration(n, e, orgs)
                  THEN [at |-> "checked", name |-> n, email |-> e, orgs |-> orgs, seen |-> UsersThere]
                  ELSE [NotSigning EXCEPT !.at = "refused"])
    /\ UNCHANGED <<su_users, su_links, su_flows, su_died>>

\* The user, inactive until the mail is answered; a name taken meanwhile is an error.
CreateInactive(r) ==
    LET form == su_forms[r] IN
    /\ form.at = "checked"
    /\ IF UserExists(form.name)
       THEN SetForm(r, [form EXCEPT !.at = "failed"]) /\ UNCHANGED su_users
       ELSE SetUser(form.name, NewUser(form, FALSE)) /\ SetForm(r, [form EXCEPT !.at = "created"])
    /\ UNCHANGED <<su_links, su_flows, su_died>>

\* Profile.get_or_create, then the organizations and the saved profile.
RegisterProfile(r) ==
    LET form == su_forms[r] IN
    /\ form.at = "created"
    /\ SetUser(form.name, [su_users[form.name] EXCEPT !.profile = TRUE])
    /\ SetForm(r, [form EXCEPT !.at = "profile"])
    /\ UNCHANGED <<su_links, su_flows, su_died>>

RegisterOrgs(r) ==
    LET form == su_forms[r] IN
    /\ form.at = "profile"
    /\ SetUser(form.name, [su_users[form.name] EXCEPT !.orgs = @ \cup form.orgs])
    /\ SetForm(r, [form EXCEPT !.at = "done"])
    /\ UNCHANGED <<su_links, su_flows, su_died>>

\* The server dies while it handles the form.
FormDies(r) ==
    LET form == su_forms[r] IN
    /\ form.at \in {"checked", "created", "profile"}
    /\ su_died' = IF form.at = "checked" THEN su_died ELSE su_died \cup {form.name}
    /\ SetForm(r, [form EXCEPT !.at = "failed"])
    /\ UNCHANGED <<su_users, su_links, su_flows>>

Activate(n) ==
    /\ UserExists(n) /\ ~su_users[n].active
    /\ SetUser(n, [su_users[n] EXCEPT !.active = TRUE])
    /\ UNCHANGED <<su_links, su_forms, su_flows, su_died>>

-----------------------------------------------------------------------------
(* The login by way of another site: social_user, associate_by_email,      *)
(* choose_username, create_user, make_profile, associate_user.             *)

\* Mutant: users are not looked for by address.
FoundByLink(e) == su_links[e]

\* The user of the account, or of its address.
FoundUsers(e) == IF su_links[e] # {} THEN su_links[e] ELSE UsersOf(e)

StartFlow(f, e) ==
    LET found == FoundUsers(e)
        user == CHOOSE n \in found : TRUE IN
    /\ su_flows[f].at = "none"
    /\ SetFlow(f, CASE found = {} -> [NotSigning EXCEPT !.at = "naming", !.email = e, !.seen = UsersThere]
                    [] Cardinality(found) = 1 -> [NotSigning EXCEPT !.at = "made", !.email = e, !.name = user]
                    [] OTHER -> [NotSigning EXCEPT !.at = "refused"])
    /\ UNCHANGED <<su_users, su_links, su_forms, su_died>>

\* choose_username comes back with a name; one that is taken is asked again.
ChooseUsername(f, n) ==
    /\ su_flows[f].at = "naming" /\ ~UserExists(n)
    /\ SetFlow(f, [su_flows[f] EXCEPT !.at = "named", !.name = n])
    /\ UNCHANGED <<su_users, su_links, su_forms, su_died>>

CreateUser(f) ==
    LET flow == su_flows[f] IN
    /\ flow.at = "named"
    /\ IF UserExists(flow.name)
       THEN SetFlow(f, [flow EXCEPT !.at = "refused"]) /\ UNCHANGED su_users
       ELSE SetUser(flow.name, NewUser(flow, TRUE)) /\ SetFlow(f, [flow EXCEPT !.at = "new"])
    /\ UNCHANGED <<su_links, su_forms, su_died>>

\* Mutant: the profile is stored with the form.
ProfileLater(n) == su_users[n]

\* The user as make_profile leaves it before it shows the form.
WithProfile(n) == [su_users[n] EXCEPT !.profile = TRUE]

MakeProfile(f) ==
    LET flow == su_flows[f] IN
    /\ flow.at = "new"
    /\ SetUser(flow.name, WithProfile(flow.name))
    /\ SetFlow(f, [flow EXCEPT !.at = "asking"])
    /\ UNCHANGED <<su_links, su_forms, su_died>>

\* The form of the profile, posted with no more organizations than allowed.
FillProfile(f, orgs) ==
    LET flow == su_flows[f] IN
    /\ flow.at = "asking" /\ Cardinality(orgs) <= MaxSuOrgs
    /\ SetUser(flow.name, [su_users[flow.name] EXCEPT !.orgs = orgs])
    /\ SetFlow(f, [flow EXCEPT !.at = "made"])
    /\ UNCHANGED <<su_links, su_forms, su_died>>

\* An account elsewhere is associated with one user.
AssociateUser(f) ==
    LET flow == su_flows[f] IN
    /\ flow.at = "made"
    /\ IF su_links[flow.email] \subseteq {flow.name}
       THEN /\ su_links' = [su_links EXCEPT ![flow.email] = {flow.name}]
            /\ SetFlow(f, [flow EXCEPT !.at = "in"])
       ELSE SetFlow(f, [flow EXCEPT !.at = "refused"]) /\ UNCHANGED su_links
    /\ UNCHANGED <<su_users, su_forms, su_died>>

\* The visitor leaves a form, or the server dies.
FlowEnds(f) ==
    LET flow == su_flows[f] IN
    /\ flow.at \in {"naming", "named", "new", "asking", "made"}
    /\ su_died' = IF flow.at = "new" THEN su_died \cup {flow.name} ELSE su_died
    /\ SetFlow(f, [flow EXCEPT !.at = "refused"])
    /\ UNCHANGED <<su_users, su_links, su_forms>>

SuNext ==
    \/ \E n \in SuNames : Activate(n)
    \/ \E r \in SuForms : \/ CreateInactive(r) \/ RegisterProfile(r) \/ RegisterOrgs(r) \/ FormDies(r)
                          \/ \E n \in SuNames, e \in SuEmails, orgs \in SUBSET SuOrgs : PostRegistration(r, n, e, orgs)
    \/ \E f \in SuFlows : \/ CreateUser(f) \/ MakeProfile(f) \/ AssociateUser(f) \/ FlowEnds(f)
                          \/ \E e \in SuEmails : StartFlow(f, e)
                          \/ \E n \in SuNames : ChooseUsername(f, n)
                          \/ \E orgs \in SUBSET SuOrgs : FillProfile(f, orgs)

SuSpec == SuInit /\ [][SuNext]_suvars

-----------------------------------------------------------------------------
(* Properties.                                                             *)

\* Two users have one address only if neither was there when the other's address was looked for:
\* a later sign-up never makes a second account, by whichever way it comes.
OneAccountPerAddress ==
    \A m, n \in UsersThere : m # n /\ su_users[m].email = su_users[n].email => n \notin su_users[m].seen

\* A user without a profile, whose every page fails, is being made or was when the server died:
\* a visitor who only leaves a form never makes one.
ProfilesMade ==
    \A n \in UsersThere :
        \/ su_users[n].profile \/ n \in su_died
        \/ \E r \in SuForms : su_forms[r].at = "created" /\ su_forms[r].name = n
        \/ \E f \in SuFlows : su_flows[f].at = "new" /\ su_flows[f].name = n

\* An account elsewhere leads to one user, who has its address, also after a flow that was left.
LinksHold == \A e \in SuEmails : Cardinality(su_links[e]) <= 1 /\ su_links[e] \subseteq UsersOf(e)

SignUpHolds == OneAccountPerAddress /\ ProfilesMade /\ LinksHold
=============================================================================
