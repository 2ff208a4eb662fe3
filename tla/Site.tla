--------------------------------- MODULE Site ---------------------------------
(***************************************************************************)
(* Components side by side.  Around the judging: packets of a connection,  *)
(* the rows of the judges, the batches and announcements of a grading, the *)
(* locks and limits of submissions and the reports on plagiarism.  And     *)
(* around the people: organizations, courses, second factors, sign-up,     *)
(* tokens, archives to download, clones, comments and their votes, tickets *)
(* and test data.  And what is shown of rows that change: caches, rendered *)
(* formulas, marks of problems, mails, and pages that follow events.  They *)
(* share nothing that is modelled: a behaviour is of one `part'.           *)
(***************************************************************************)
EXTENDS Framing, Machines, Progress, Locks,
        Organizations, Courses, Accounts, SignUp, Tokens, Downloads, Clones,
        Discussion, Tickets, ProblemData, Caches, Marks, Delivery

VARIABLE part

-----------------------------------------------------------------------------
(* Judging.                                                                *)

JudgingParts == {"framing", "machines", "progress", "locks", "limits", "plagiarism"}

jdvars == <<part, frvars, jmvars, prvars, lkvars, livars, msvars>>

\* What the constants are.
JudgingAssumption ==
    /\ FramingAssumption /\ ProgressAssumption
    /\ LocksAssumption /\ LimitsAssumption /\ MossAssumption

JudgingInit ==
    \/ part = "framing" /\ FrInit
    \/ part = "machines" /\ JmInit
    \/ part = "progress" /\ PrInit
    \/ part = "locks" /\ LkInit
    \/ part = "limits" /\ LiInit
    \/ part = "plagiarism" /\ MsInit

JudgingNext ==
    /\ \/ part = "framing" /\ FrNext
       \/ part = "machines" /\ JmNext
       \/ part = "progress" /\ PrNext
       \/ part = "locks" /\ LkNext
       \/ part = "limits" /\ LiNext
       \/ part = "plagiarism" /\ MsNext
    /\ UNCHANGED part

JudgingSpec == JudgingInit /\ [][JudgingNext]_jdvars

-----------------------------------------------------------------------------
(* People.                                                                 *)

PeopleParts == {"organizations", "courses", "accounts", "sign-up", "tokens", "downloads", "clones",
                "comments", "votes", "tickets", "problem data"}

ppvars == <<part, orgvars, csvars, acvars, suvars, tnvars, ddvars, cnvars,
            dcvars, vtvars, tkvars, pdvars>>

\* What the constants are.
PeopleAssumption ==
    /\ OrganizationsAssumption /\ CoursesAssumption /\ AccountsAssumption /\ SignUpAssumption
    /\ TokensAssumption /\ DownloadsAssumption /\ ClonesAssumption /\ ProblemDataAssumption

PeopleInit ==
    \/ part = "organizations" /\ OrgInit
    \/ part = "courses" /\ CsInit
    \/ part = "accounts" /\ AcInit
    \/ part = "sign-up" /\ SuInit
    \/ part = "tokens" /\ TnInit
    \/ part = "downloads" /\ DdInit
    \/ part = "clones" /\ CnInit
    \/ part = "comments" /\ DcInit
    \/ part = "votes" /\ VtInit
    \/ part = "tickets" /\ TkInit
    \/ part = "problem data" /\ PdInit

PeopleNext ==
    /\ \/ part = "organizations" /\ OrgNext
       \/ part = "courses" /\ CsNext
       \/ part = "accounts" /\ AcNext
       \/ part = "sign-up" /\ SuNext
       \/ part = "tokens" /\ TnNext
       \/ part = "downloads" /\ DdNext
       \/ part = "clones" /\ CnNext
       \/ part = "comments" /\ DcNext
       \/ part = "votes" /\ VtNext
       \/ part = "tickets" /\ TkNext
       \/ part = "problem data" /\ PdNext
    /\ UNCHANGED part

PeopleSpec == PeopleInit /\ [][PeopleNext]_ppvars

-----------------------------------------------------------------------------
(* What is shown.                                                          *)

ShownParts == {"caches", "formulas", "mails", "marks", "delivery", "recent"}

shvars == <<part, cavars, fovars, mlvars, mkvars, dvvars, rcvars>>

\* What the constants are.
ShownAssumption == MailAssumption /\ MarksAssumption /\ DeliveryAssumption /\ RecentAssumption

ShownInit ==
    \/ part = "caches" /\ CaInit
    \/ part = "formulas" /\ FoInit
    \/ part = "mails" /\ MlInit
    \/ part = "marks" /\ MkInit
    \/ part = "delivery" /\ DvInit
    \/ part = "recent" /\ RcInit

ShownNext ==
    /\ \/ part = "caches" /\ CaNext
       \/ part = "formulas" /\ FoNext
       \/ part = "mails" /\ MlNext
       \/ part = "marks" /\ MkNext
       \/ part = "delivery" /\ DvNext
       \/ part = "recent" /\ RcNext
    /\ UNCHANGED part

ShownSpec == ShownInit /\ [][ShownNext]_shvars

-----------------------------------------------------------------------------
(* Properties.                                                             *)

\* Around the judges: packets, the rows of judges, the announcements of a grading, locked
\* submissions, limits of submissions and the reports on plagiarism.
JudgingHolds ==
    /\ part = "framing" => FramingHolds
    /\ part = "machines" => MachinesHold
    /\ part = "progress" => ProgressHolds
    /\ part = "locks" => LocksHold
    /\ part = "limits" => LimitsHold
    /\ part = "plagiarism" => MossHolds

\* Who is in, who may do what: slots, virtual attempts, bans, second factors, one account
\* for an address, tokens, points and archives keep what their pages and forms assume,
\* whatever requests overlap - but for the overlaps each part names.
PeopleHold ==
    /\ part = "organizations" => SlotsHold
    /\ part = "courses" => CoursesHold
    /\ part = "accounts" => AccountsHold
    /\ part = "sign-up" => SignUpHolds
    /\ part = "tokens" => TokensHold
    /\ part = "downloads" => DownloadsHold

\* What people write: scores of comments and the votes behind them, hidden threads, tickets,
\* archives of test data and their init.yml, and what clones copy.
ContentHolds ==
    /\ part = "comments" => ScoreIsTheVotes /\ NothingBelowHidden
    /\ part = "votes" => OneVoteEach
    /\ part = "tickets" => TicketsHold
    /\ part = "problem data" => ProblemDataHolds
    /\ part = "clones" => ClonesHold

\* What is shown of rows that change: what caches keep was made of the rows as they are, a
\* formula that is found has its files, the first errors of a period are mailed, marks are of
\* the submissions, and pages that follow events catch up - but for the overlaps each part names.
ShownHolds ==
    /\ part = "caches" => CachesHold
    /\ part = "formulas" => FormulasHold
    /\ part = "mails" => MailsHold
    /\ part = "marks" => MarksHold
    /\ part = "delivery" => DeliveryHolds
    /\ part = "recent" => RecentHolds

\* What is decided stays so: requests to join an organization, the second factor of staff,
\* and that a clone stays hidden until an editor shows it.
DecisionsStay == [][
    /\ part = "organizations" => DecisionsAreFinal
    /\ part = "accounts" => StaffKeepFactor
    /\ part = "clones" => ShownByEditors
    ]_ppvars
=============================================================================
