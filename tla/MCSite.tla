--------------------------------- MODULE MCSite ---------------------------------
(***************************************************************************)
(* Components of the web site and of the bridge that share nothing that is *)
(* modelled, in one instance for TLC: a behaviour is of one `part'.  Those *)
(* around the judges and the people and those of what is shown come from   *)
(* Site, with variables of their own; s1, s2, ... are the variables of the *)
(* others.  Each module states what its component does and what must hold  *)
(* of it; here are their bounds, and the statements gathered by theme.     *)
(***************************************************************************)
EXTENDS Site, FiniteSetsExt

VARIABLES s1, s2, s3, s4, s5, s6, s7, s8, s9, s10, s11

siteVars == <<jdvars, ppvars, shvars, s1, s2, s3, s4, s5, s6, s7, s8, s9, s10, s11>>

MCBatches == [p1 |-> <<1, 2>>, p2 |-> <<0>>]

\* In the place of the numerical method of ratings: whole numbers that depend on the same
\* data, so that a contest rated from other data is told apart.
MCRecalculate(ranks, means, times, perfs) ==
    [u \in DOMAIN ranks |->
        LET perf == means[u] + Cardinality({v \in DOMAIN ranks : ranks[v] > ranks[u]})
                    - Cardinality({v \in DOMAIN ranks : ranks[v] < ranks[u]})
            mean == means[u] + (perf + MapThenSumSet(LAMBDA d : perfs[u][d], DOMAIN perfs[u])) IN
        [rating |-> Max({1, mean + times[u] - 3}), mean |-> mean, perf |-> perf]]

\* Scores in each contest.
MCScores == <<{1, 2}, {1}>>

MCWeights == <<2, 1>>

\* Rows of the form of test cases: cases, the start and the end of a batch.
Case(f) == [type |-> "C", points |-> TRUE, file |-> f]
CaseOfBatch == [type |-> "C", points |-> FALSE, file |-> "f1"]
StartOfBatch == [type |-> "S", points |-> TRUE, file |-> "f1"]
EndOfBatch == [type |-> "E", points |-> FALSE, file |-> "f1"]
MCForms ==
    { <<>>, <<Case("f1"), Case("f2")>>, <<StartOfBatch, CaseOfBatch, StartOfBatch, CaseOfBatch, CaseOfBatch>>,
      <<StartOfBatch, CaseOfBatch, EndOfBatch, CaseOfBatch>>,
      <<StartOfBatch, CaseOfBatch, CaseOfBatch, EndOfBatch, Case("f1")>>, <<StartOfBatch, EndOfBatch>> }
MCContents == [z1 |-> {"f1", "f2"}, z2 |-> {"f1"}]

\* A calendar whose days have two hours, whose weeks two days; it starts inside a week.
MCMonths == <<3, 2, 3>>
MCOffset == -1

\* Packets of one, three and four bytes, each after its size; the last is too large.
MCEnds == <<3, 8, 14>>

Fm == INSTANCE Formats WITH
    FmBatches <- MCBatches, MaxTries <- 3, Penalty <- 2, FirstAcBonus <- 2,
    TimeBonus <- 2, WindowEnd <- 5,
    fm_rows <- s1

Sb == INSTANCE Scoreboards WITH
    SbUsers <- {"u1", "u2", "u3"}, SbWorkers <- {"w1", "w2"}, SbScores <- {0, 1},
    SbTimes <- {0, 1}, SbPoints <- {0, 1}, PerBoard <- 2, MaxMoves <- 2,
    sb_rows <- s1, sb_loaded <- s2, sb_people <- s3, sb_virtual <- s4,
    sb_moves <- s5

Rt == INSTANCE Ratings WITH
    RtUsers <- {"u1", "u2"}, NContests <- 2, RtScores <- MCScores,
    RtRateAll <- {2}, RtFloor <- 2, RatingInit <- 4, MeanInit <- 5,
    Recalculate <- MCRecalculate, MaxEdits <- 1,
    rt_held <- s1, rt_rated <- s2, rt_parts <- s3, rt_excluded <- s4,
    rt_ratings <- s5, rt_profile <- s6, rt_edits <- s7, rt_dirty <- s8,
    rt_unsynced <- s9

St == INSTANCE Standing WITH
    StUsers <- {"u1"}, StProblems <- {"p1"}, StWorkers <- {"w1", "w2"},
    MaxCases <- 2, Tenth <- 100, Worths <- {1000, 1240}, FirstWorth <- 1240, MaxSubs <- 1, MaxChanges <- 1,
    st_subs <- s1, st_problems <- s2, st_points <- s3, st_cache <- s4,
    st_fill <- s5, st_work <- s6, st_queue <- s7, st_changes <- s8, st_off <- s9,
    st_old <- s10, st_rewritten <- s11

So == INSTANCE Solutions WITH
    CaseStatuses <- {"AC", "WA"}, CombineOver <- 2, MaxShown <- 4,
    SoUsers <- {"u1"}, SoRaws <- {0, 1, 2}, MaxSoSubs <- 3,
    so_of <- s1, so_cases <- s2, so_graded <- s3, so_partial <- s4, so_subs <- s5

Pf == INSTANCE Performance WITH
    PfProblems <- {"a", "b", "c"}, PfPoints <- {0, 1, 2}, Weights <- MCWeights,
    FirstEntries <- 1, MoreEntries <- 1, MaxPfChanges <- 4,
    pf_best <- s1, pf_profile <- s2, pf_page <- s3, pf_base <- s4, pf_more <- s5,
    pf_changes <- s6, pf_moved <- s7

Pg == INSTANCE Pages WITH
    PerPage <- 2, PgBody <- 3, PgPadding <- 1, PgTail <- 1, PgMargin <- 2,
    PadPages <- 1, MaxTotal <- 15, LsItems <- {"p1", "p2"}, MaxLsChanges <- 1,
    pg_total <- s1, pg_page <- s2, pg_dead <- s3,
    ls_public <- s1, ls_solved <- s2, ls_editorial <- s3, ls_session <- s4,
    ls_page <- s5, ls_draw <- s6, ls_changes <- s7, ls_shrunk <- s8,
    ClContests <- {"c1", "c2"}, ClTimes <- {1, 6, 7, 13}, DayLen <- 2,
    WeekLen <- 2, MonthLens <- MCMonths, ClOffset <- MCOffset,
    cl_rows <- s1, cl_today <- s2, cl_page <- s3,
    AlIds <- {1, 2, 3}, AlTags <- {"x", "y"}, AlEnds <- {1, 2}, ApiPageSize <- 1,
    MaxAlChanges <- 2,
    al_kind <- s1, al_items <- s2, al_asked <- s3, al_page <- s4, al_more <- s5,
    al_got <- s6, al_changes <- s7, al_first <- s8, al_lost <- s9

\* What the modules ask of their constants.
ASSUME SiteAssumption ==
    /\ JudgingAssumption /\ PeopleAssumption /\ ShownAssumption
    /\ Pg!CalendarAssumption
    /\ Fm!FormatsAssumption
    /\ Pg!PagesAssumption
    /\ Pf!PerformanceAssumption
    /\ Sb!ScoreboardsAssumption
    /\ So!SolutionsAssumption

-----------------------------------------------------------------------------
\* A component has at most eleven variables; those it does not have are 0.
Blank1 == s2 = 0 /\ s3 = 0 /\ s4 = 0 /\ s5 = 0 /\ s6 = 0 /\ s7 = 0 /\ s8 = 0 /\ s9 = 0 /\ s10 = 0 /\ s11 = 0
Blank3 == s4 = 0 /\ s5 = 0 /\ s6 = 0 /\ s7 = 0 /\ s8 = 0 /\ s9 = 0 /\ s10 = 0 /\ s11 = 0
Blank5 == s6 = 0 /\ s7 = 0 /\ s8 = 0 /\ s9 = 0 /\ s10 = 0 /\ s11 = 0
Blank7 == s8 = 0 /\ s9 = 0 /\ s10 = 0 /\ s11 = 0
Blank8 == s9 = 0 /\ s10 = 0 /\ s11 = 0
Blank9 == s10 = 0 /\ s11 = 0

Rest1 == UNCHANGED <<part, s2, s3, s4, s5, s6, s7, s8, s9, s10, s11>>
Rest3 == UNCHANGED <<part, s4, s5, s6, s7, s8, s9, s10, s11>>
Rest5 == UNCHANGED <<part, s6, s7, s8, s9, s10, s11>>
Rest7 == UNCHANGED <<part, s8, s9, s10, s11>>
Rest8 == UNCHANGED <<part, s9, s10, s11>>
Rest9 == UNCHANGED <<part, s10, s11>>

\* The components of Site have variables of their own.
AllBlank == s1 = 0 /\ s2 = 0 /\ s3 = 0 /\ Blank3
BlankFraming == /\ fr_proxied = 0 /\ fr_sent = 0 /\ fr_open = 0 /\ fr_at = 0 /\ fr_lo = 0 /\ fr_hi = 0
                /\ fr_size = 0 /\ fr_got = 0
BlankMachines == /\ jm_row = 0 /\ jm_versions = 0 /\ jm_conns = 0 /\ jm_list = 0 /\ jm_admins = 0
                 /\ jm_restarts = 0 /\ jm_overlap = 0 /\ jm_outlived = 0 /\ jm_crossed = 0
BlankProgress == /\ pr_judge = 0 /\ pr_batch = 0 /\ pr_in = 0 /\ pr_rows = 0 /\ pr_counter = 0
                 /\ pr_clock = 0 /\ pr_gradings = 0 /\ pr_posts = 0
BlankLocks == /\ lk_clock = 0 /\ lk_contest = 0 /\ lk_subs = 0 /\ lk_requests = 0 /\ lk_count = 0
              /\ lk_late = 0 /\ lk_reverted = 0 /\ lk_wrong = 0
BlankLimits == li_subs = 0 /\ li_requests = 0 /\ li_many = 0 /\ li_late = 0 /\ li_revived = 0
BlankMoss == /\ ms_problems = 0 /\ ms_rows = 0 /\ ms_tasks = 0 /\ ms_pages = 0 /\ ms_edits = 0
             /\ ms_changed = 0 /\ ms_crossed = 0 /\ ms_refused = 0
BlankOrganizations == /\ org_open = 0 /\ org_members = 0 /\ org_classes = 0 /\ org_requests = 0
                      /\ org_review = 0 /\ org_toggles = 0 /\ org_raced = 0
BlankCourses == /\ cs_parts = 0 /\ cs_rows = 0 /\ cs_count = 0 /\ cs_banned = 0 /\ cs_clock = 0
                /\ cs_requests = 0 /\ cs_started = 0 /\ cs_late = 0 /\ cs_pardoned = 0
                /\ cs_miscounted = 0
BlankAccounts == /\ ac_row = 0 /\ ac_devices = 0 /\ ac_sessions = 0 /\ ac_requests = 0
                 /\ ac_count = 0 /\ ac_lapped = 0 /\ ac_cleared = 0
BlankSignUp == /\ su_users = 0 /\ su_links = 0 /\ su_forms = 0 /\ su_flows = 0 /\ su_died = 0
BlankTokens == /\ tn_row = 0 /\ tn_orgs = 0 /\ tn_requests = 0 /\ tn_tokens = 0 /\ tn_changes = 0
               /\ tn_last = 0 /\ tn_put = 0 /\ tn_stale = 0
BlankDownloads == /\ dd_now = 0 /\ dd_last = 0 /\ dd_key = 0 /\ dd_tasks = 0 /\ dd_file = 0
                  /\ dd_requests = 0 /\ dd_starts = 0 /\ dd_crossed = 0 /\ dd_sent = 0
BlankClones == /\ cn_kind = 0 /\ cn_items = 0 /\ cn_rows = 0 /\ cn_lessons = 0 /\ cn_requests = 0
               /\ cn_edits = 0 /\ cn_parent = 0 /\ cn_should = 0
BlankComments == /\ dc_comments = 0 /\ dc_votes = 0 /\ dc_requests = 0 /\ dc_started = 0
                 /\ dc_overwritten = 0 /\ dc_loose = 0
BlankVotes == /\ vt_may = 0 /\ vt_rows = 0 /\ vt_requests = 0 /\ vt_count = 0 /\ vt_ids = 0
              /\ vt_crossed = 0 /\ vt_asked = 0
BlankTickets == /\ tk_rows = 0 /\ tk_requests = 0 /\ tk_events = 0 /\ tk_pages = 0 /\ tk_count = 0
                /\ tk_saves = 0 /\ tk_reverted = 0 /\ tk_excused = 0 /\ tk_failed = 0
BlankProblemData == /\ pd_code = 0 /\ pd_row = 0 /\ pd_cases = 0 /\ pd_zips = 0 /\ pd_inits = 0
                    /\ pd_posts = 0 /\ pd_started = 0 /\ pd_deaths = 0 /\ pd_gone = 0 /\ pd_torn = 0
BlankCaches == /\ ca_row = 0 /\ ca_save = 0 /\ ca_saves = 0 /\ ca_cached = 0 /\ ca_pdf = 0
               /\ ca_requests = 0 /\ ca_count = 0 /\ ca_stale = 0 /\ ca_failures = 0
BlankFormulas == /\ fo_kind = 0 /\ fo_files = 0 /\ fo_cache = 0 /\ fo_workers = 0
                 /\ fo_pages = 0 /\ fo_shown = 0 /\ fo_broken = 0
BlankMails == ml_counter = 0 /\ ml_period = 0 /\ ml_counts = 0 /\ ml_errors = 0 /\ ml_lapses = 0
BlankMarks == /\ mk_subs = 0 /\ mk_worth = 0 /\ mk_keys = 0 /\ mk_fill = 0 /\ mk_judges = 0
              /\ mk_deletes = 0 /\ mk_changes = 0 /\ mk_excused = 0 /\ mk_deleted = 0
BlankDelivery == /\ dv_version = 0 /\ dv_writer = 0 /\ dv_queue = 0 /\ dv_id = 0 /\ dv_pages = 0
                 /\ dv_others = 0 /\ dv_daemons = 0 /\ dv_posted = 0 /\ dv_dropped = 0 /\ dv_excused = 0
BlankRecent == /\ rc_status = 0 /\ rc_made = 0 /\ rc_rows = 0 /\ rc_shown = 0 /\ rc_first = 0
               /\ rc_events = 0 /\ rc_asked = 0 /\ rc_busy = 0 /\ rc_loose = 0

BlankSite ==
    /\ IF part = "framing" THEN TRUE ELSE BlankFraming
    /\ IF part = "machines" THEN TRUE ELSE BlankMachines
    /\ IF part = "progress" THEN TRUE ELSE BlankProgress
    /\ IF part = "locks" THEN TRUE ELSE BlankLocks
    /\ IF part = "limits" THEN TRUE ELSE BlankLimits
    /\ IF part = "plagiarism" THEN TRUE ELSE BlankMoss
    /\ IF part = "organizations" THEN TRUE ELSE BlankOrganizations
    /\ IF part = "courses" THEN TRUE ELSE BlankCourses
    /\ IF part = "accounts" THEN TRUE ELSE BlankAccounts
    /\ IF part = "sign-up" THEN TRUE ELSE BlankSignUp
    /\ IF part = "tokens" THEN TRUE ELSE BlankTokens
    /\ IF part = "downloads" THEN TRUE ELSE BlankDownloads
    /\ IF part = "clones" THEN TRUE ELSE BlankClones
    /\ IF part = "comments" THEN TRUE ELSE BlankComments
    /\ IF part = "votes" THEN TRUE ELSE BlankVotes
    /\ IF part = "tickets" THEN TRUE ELSE BlankTickets
    /\ IF part = "problem data" THEN TRUE ELSE BlankProblemData
    /\ IF part = "caches" THEN TRUE ELSE BlankCaches
    /\ IF part = "formulas" THEN TRUE ELSE BlankFormulas
    /\ IF part = "mails" THEN TRUE ELSE BlankMails
    /\ IF part = "marks" THEN TRUE ELSE BlankMarks
    /\ IF part = "delivery" THEN TRUE ELSE BlankDelivery
    /\ IF part = "recent" THEN TRUE ELSE BlankRecent

RestSite ==
    /\ IF part = "framing" THEN TRUE ELSE UNCHANGED frvars
    /\ IF part = "machines" THEN TRUE ELSE UNCHANGED jmvars
    /\ IF part = "progress" THEN TRUE ELSE UNCHANGED prvars
    /\ IF part = "locks" THEN TRUE ELSE UNCHANGED lkvars
    /\ IF part = "limits" THEN TRUE ELSE UNCHANGED livars
    /\ IF part = "plagiarism" THEN TRUE ELSE UNCHANGED msvars
    /\ IF part = "organizations" THEN TRUE ELSE UNCHANGED orgvars
    /\ IF part = "courses" THEN TRUE ELSE UNCHANGED csvars
    /\ IF part = "accounts" THEN TRUE ELSE UNCHANGED acvars
    /\ IF part = "sign-up" THEN TRUE ELSE UNCHANGED suvars
    /\ IF part = "tokens" THEN TRUE ELSE UNCHANGED tnvars
    /\ IF part = "downloads" THEN TRUE ELSE UNCHANGED ddvars
    /\ IF part = "clones" THEN TRUE ELSE UNCHANGED cnvars
    /\ IF part = "comments" THEN TRUE ELSE UNCHANGED dcvars
    /\ IF part = "votes" THEN TRUE ELSE UNCHANGED vtvars
    /\ IF part = "tickets" THEN TRUE ELSE UNCHANGED tkvars
    /\ IF part = "problem data" THEN TRUE ELSE UNCHANGED pdvars
    /\ IF part = "caches" THEN TRUE ELSE UNCHANGED cavars
    /\ IF part = "formulas" THEN TRUE ELSE UNCHANGED fovars
    /\ IF part = "mails" THEN TRUE ELSE UNCHANGED mlvars
    /\ IF part = "marks" THEN TRUE ELSE UNCHANGED mkvars
    /\ IF part = "delivery" THEN TRUE ELSE UNCHANGED dvvars
    /\ IF part = "recent" THEN TRUE ELSE UNCHANGED rcvars

SiteInit ==
    \/ /\ \/ part = "formats" /\ Fm!FmInit /\ Blank1
          \/ part = "scoreboards" /\ Sb!SbInit /\ Blank5
          \/ part = "ratings" /\ Rt!RtInit /\ Blank9
          \/ part = "standing" /\ St!StInit
          \/ part = "solutions" /\ So!SoInit /\ Blank5
          \/ part = "performance" /\ Pf!PfInit /\ Blank7
          \/ part = "pages" /\ Pg!PgInit /\ Blank3
          \/ part = "calendar" /\ Pg!ClInit /\ Blank3
          \/ part = "lists" /\ Pg!LsInit /\ Blank8
          \/ part = "API lists" /\ Pg!AlInit /\ Blank9
       /\ BlankSite
    \/ (JudgingInit \/ PeopleInit \/ ShownInit) /\ BlankSite /\ AllBlank

SiteNext ==
    \/ /\ RestSite
       /\ \/ part = "formats" /\ Fm!FmNext /\ Rest1
          \/ part = "scoreboards" /\ Sb!SbNext /\ Rest5
          \/ part = "ratings" /\ Rt!RtNext /\ Rest9
          \/ part = "standing" /\ St!StNext /\ UNCHANGED part
          \/ part = "solutions" /\ So!SoNext /\ Rest5
          \/ part = "performance" /\ Pf!PfNext /\ Rest7
          \/ part = "pages" /\ Pg!PgNext /\ Rest3
          \/ part = "calendar" /\ Pg!ClNext /\ Rest3
          \/ part = "lists" /\ Pg!LsNext /\ Rest8
          \/ part = "API lists" /\ Pg!AlNext /\ Rest9
    \/ RestSite /\ UNCHANGED <<s1, s2, s3, s4, s5, s6, s7, s8, s9, s10, s11>> /\ (JudgingNext \/ PeopleNext \/ ShownNext)

SiteSpec == SiteInit /\ [][SiteNext]_siteVars

-----------------------------------------------------------------------------
(* Properties.                                                             *)

\* What is computed of the rows: the formats agree with their definition, ranks are fair,
\* ratings are those of a replay of the contests, the points of users and the tables made
\* of them are those of their submissions; links lead to pages, months to days, and pages of
\* lists and of the API miss nothing and repeat nothing.
ComputedHolds ==
    /\ part = "formats" => Fm!FormatsAgree
    /\ part = "scoreboards" => Sb!ScoreboardsHold
    /\ part = "ratings" => Rt!RatingsAreAReplay /\ Rt!ProfilesShowTheLast
    /\ part = "standing" => St!StandingHolds
    /\ part = "solutions" => So!SolutionsHold
    /\ part = "performance" => Pf!PerformanceHolds
    /\ part = "pages" => Pg!PagesHold
    /\ part = "calendar" => Pg!CalendarHolds
    /\ part = "lists" => Pg!ListingsHold
    /\ part = "API lists" => Pg!ApiListsHold

\* What is earned or shown stays so: a first success costs what it cost, however many tries
\* follow, and cases once shown of a submission under way remain.
ResultsStay == [][
    /\ part = "formats" => Fm!LaterTriesAreFree
    /\ part = "solutions" => So!ShownStays
    ]_siteVars
=============================================================================
