------------------------------ MODULE ProblemData ------------------------------
(***************************************************************************)
(* The test data of a problem: the row ProblemData, the rows               *)
(* ProblemTestCase, the directory with the archive and init.yml            *)
(* (judge/views/problem_data.py, judge/utils/problem_data.py,              *)
(* judge/models/problem_data.py).  A post goes through them one after the  *)
(* other, without a transaction; a change of the problem's code moves the  *)
(* directory.                                                              *)
(***************************************************************************)
EXTENDS Integers, Sequences

CONSTANTS
    Setters,        \* Posts in progress at the same time.
    Zips,           \* Names of archives.
    Contents,       \* Contents[z]: the files in archive z.
    PdForms,        \* Lists of cases that may be posted.
    Codes, FirstCode,
    MaxPosts,       \* Bound: posts and changes of the code.
    MaxDeaths       \* Bound: requests that die on the way.

\* What the constants are: names are no marks, and forms are lists of rows.
ProblemDataAssumption ==
    /\ {"nozip", "noinit", "keep"} \cap Zips = {}
    /\ FirstCode \in Codes
    /\ \A form \in PdForms :
          /\ form = [i \in 1 .. Len(form) |-> form[i]] /\ Len(form) \in Nat
          /\ \A i \in 1 .. Len(form) : form[i].type \in {"C", "S", "E"} /\ form[i].points \in BOOLEAN

NoZip == "nozip"
NoInit == [archive |-> "noinit", cases |-> <<>>]

VARIABLES
    pd_code,        \* Problem.code.
    pd_row,         \* ProblemData: code (directory of the archive), zip, feedback (an error).
    pd_cases,       \* ProblemTestCase, by order: type, points, file.
    pd_zips,        \* Archives on disk: <<directory, name>>.
    pd_inits,       \* init.yml of a directory.
    pd_posts,       \* Posts in progress.
    pd_started, pd_deaths,
    pd_gone,        \* History: the archive that the last post uploaded and lost.
    pd_torn         \* History: a request died, or saved what another one had changed since.

pdvars == <<pd_code, pd_row, pd_cases, pd_zips, pd_inits, pd_posts, pd_started, pd_deaths, pd_gone, pd_torn>>

NoDataPost == [at |-> "none"]

PdInit ==
    /\ pd_code = FirstCode
    /\ pd_row = [code |-> FirstCode, zip |-> NoZip, feedback |-> FALSE]
    /\ pd_cases = <<>>
    /\ pd_zips = {}
    /\ pd_inits = [c \in Codes |-> NoInit]
    /\ pd_posts = [s \in Setters |-> NoDataPost]
    /\ pd_started = 0 /\ pd_deaths = 0 /\ pd_gone = NoZip /\ pd_torn = FALSE

-----------------------------------------------------------------------------
(* ProblemDataCompiler.make_init: one pass over the cases.  A batch is the *)
(* sequence of its cases; a case outside of batches counts as one of those. *)

Closed(state) == IF state.batch = <<>> THEN [state EXCEPT !.error = TRUE]
                 ELSE [state EXCEPT !.done = Append(@, state.batch), !.open = FALSE, !.batch = <<>>]

\* Mutant: a batch that another batch follows is forgotten.
Reopened(state) == [state EXCEPT !.batch = <<>>]

\* What the start of a batch does to one that was not ended.
PostEnded(state) == Closed(state)

Failed(state) == [state EXCEPT !.error = TRUE]

\* Case i, after those before it.
Taken(state, case, i, files) ==
    IF state.error THEN state
    ELSE IF case.type = "C"
    THEN IF (~state.open /\ ~case.points) \/ case.file \notin files THEN Failed(state)
         ELSE IF state.open THEN [state EXCEPT !.batch = Append(@, i)]
         ELSE [state EXCEPT !.done = Append(@, <<i>>)]
    ELSE IF case.type = "S"
    THEN LET before == IF state.open THEN PostEnded(state) ELSE state IN
         IF before.error \/ ~case.points THEN Failed(before) ELSE [before EXCEPT !.open = TRUE]
    ELSE IF state.open THEN Closed(state) ELSE Failed(state)

Compiled(cases, files) ==
    LET pass[n \in 0 .. Len(cases)] ==
          IF n = 0 THEN [done |-> <<>>, open |-> FALSE, batch |-> <<>>, error |-> FALSE]
          ELSE Taken(pass[n - 1], cases[n], n, files)
        last == pass[Len(cases)]
    IN IF last.open /\ ~last.error THEN Closed(last) ELSE last

-----------------------------------------------------------------------------
(* ProblemDataView.post.                                                   *)

PdStep(s, post) == pd_posts' = [pd_posts EXCEPT ![s] = post]

FilesOf(zip) == IF zip = NoZip THEN {} ELSE Contents[zip]

\* The files that the cases of a post are held against: get_valid_files reads the upload, also
\* one that is then lost.
ValidFiles(row, lost) == FilesOf(IF lost # NoZip THEN lost ELSE row.zip)

\* get_data_form loads the row, get_valid_files the archive that was uploaded or is there.
Load(s, upload, form) ==
    /\ pd_posts[s] = NoDataPost /\ pd_started < MaxPosts
    /\ pd_started' = pd_started + 1
    /\ (upload = "keep" /\ pd_row.zip # NoZip) => <<pd_row.code, pd_row.zip>> \in pd_zips
    /\ LET zip == IF upload = "keep" THEN pd_row.zip ELSE upload IN
       PdStep(s, [at |-> IF upload # "keep" THEN "delete" ELSE "row", was |-> pd_row, code |-> pd_code,
                  upload |-> upload, lost |-> NoZip, form |-> form,
                  files |-> FilesOf(zip), compiled |-> NoInit,
                  row |-> IF upload = "keep" THEN pd_row
                          ELSE [pd_row EXCEPT !.code = pd_code, !.zip = upload]])
    /\ UNCHANGED <<pd_code, pd_row, pd_cases, pd_zips, pd_inits, pd_deaths, pd_gone, pd_torn>>

\* ProblemData.save deletes the archive it was loaded with when there is another one.  Deleting
\* the file of a field clears the field of the instance, and the upload is in that field.
Cleared(q) ==
    IF q.was.zip = NoZip THEN q
    ELSE [q EXCEPT !.lost = q.upload, !.upload = NoZip, !.row.zip = NoZip]

DeleteOld(s) ==
    LET q == pd_posts[s] IN
    /\ q.at = "delete"
    /\ pd_zips' = pd_zips \ {<<q.was.code, q.was.zip>>}
    /\ PdStep(s, [Cleared(q) EXCEPT !.at = "row"])
    /\ pd_torn' = (pd_torn \/ pd_row # q.was)
    /\ UNCHANGED <<pd_code, pd_row, pd_cases, pd_inits, pd_started, pd_deaths, pd_gone>>

\* Then it stores the upload that is left and every column of the row.
SaveRow(s) ==
    LET q == pd_posts[s] IN
    /\ q.at = "row"
    /\ pd_zips' = IF q.upload \in Zips THEN pd_zips \cup {<<q.code, q.upload>>} ELSE pd_zips
    /\ pd_row' = q.row
    /\ pd_gone' = q.lost
    /\ PdStep(s, [q EXCEPT !.at = "cases", !.was = q.row])
    /\ pd_torn' = (pd_torn \/ pd_row # q.was \/ (q.upload # "keep" /\ <<q.was.code, q.was.zip>> \in pd_zips))
    /\ UNCHANGED <<pd_code, pd_cases, pd_inits, pd_started, pd_deaths>>

SaveCases(s) ==
    LET q == pd_posts[s] IN
    /\ q.at = "cases"
    /\ pd_cases' = q.form
    /\ PdStep(s, [q EXCEPT !.at = "compile"])
    /\ UNCHANGED <<pd_code, pd_row, pd_zips, pd_inits, pd_started, pd_deaths, pd_gone, pd_torn>>

\* ProblemDataCompiler.compile reads the cases and saves the row with the feedback ...
Compile(s) ==
    LET q == pd_posts[s]
        result == Compiled(pd_cases, q.files) IN
    /\ q.at = "compile"
    /\ pd_row' = [q.row EXCEPT !.feedback = result.error]
    /\ PdStep(s, [q EXCEPT !.at = "init",
                           !.compiled = IF result.error \/ (result.done = <<>> /\ q.row.zip = NoZip) THEN NoInit
                                        ELSE [archive |-> q.row.zip, cases |-> result.done]])
    /\ pd_torn' = (pd_torn \/ pd_row # q.was \/ pd_cases # q.form \/ pd_gone # q.lost)
    /\ UNCHANGED <<pd_code, pd_cases, pd_zips, pd_inits, pd_started, pd_deaths, pd_gone>>

\* Mutant: an init.yml that should go stays.
KeptInit(q) == [pd_inits EXCEPT ![q.code] = IF q.compiled = NoInit THEN @ ELSE q.compiled]

\* ... then writes init.yml, or deletes it.
Written(q) == [pd_inits EXCEPT ![q.code] = q.compiled]

WriteInit(s) ==
    LET q == pd_posts[s] IN
    /\ q.at = "init"
    /\ pd_inits' = Written(q)
    /\ PdStep(s, NoDataPost)
    /\ pd_torn' = (pd_torn \/ pd_code # q.code \/ pd_row.zip # q.row.zip \/ pd_cases # q.form
                          \/ pd_gone # q.lost)
    /\ UNCHANGED <<pd_code, pd_row, pd_cases, pd_zips, pd_started, pd_deaths, pd_gone>>

\* The process of a request dies; a request that was refused has done nothing.
PdDies(s) ==
    /\ pd_posts[s] # NoDataPost /\ pd_deaths < MaxDeaths
    /\ pd_deaths' = pd_deaths + 1
    /\ PdStep(s, NoDataPost)
    /\ pd_torn' = TRUE
    /\ UNCHANGED <<pd_code, pd_row, pd_cases, pd_zips, pd_inits, pd_started, pd_gone>>

-----------------------------------------------------------------------------
(* Problem.save with another code.                                         *)

HasDirectory(c) == pd_inits[c] # NoInit \/ \E z \in Zips : <<c, z>> \in pd_zips

\* _update_code moves the directory, whatever is in it; a directory that is missing is none.
Moved(from, to) ==
    /\ ~HasDirectory(to)
    /\ pd_inits' = [pd_inits EXCEPT ![to] = pd_inits[from], ![from] = NoInit]
    /\ pd_zips' = {<<IF f[1] = from THEN to ELSE f[1], f[2]>> : f \in pd_zips}

\* The administration does this in a transaction, which the directory is not part of.
ChangeCode(c) ==
    /\ c # pd_code /\ pd_started < MaxPosts
    /\ pd_started' = pd_started + 1
    /\ Moved(pd_code, c)
    /\ \/ /\ pd_code' = c
          /\ pd_row' = IF pd_row.zip = NoZip THEN pd_row ELSE [pd_row EXCEPT !.code = c]
          /\ pd_torn' = (pd_torn \/ \E s \in Setters : pd_posts[s] # NoDataPost)
          /\ UNCHANGED pd_deaths
       \/ /\ pd_deaths < MaxDeaths /\ pd_deaths' = pd_deaths + 1
          /\ pd_torn' = TRUE
          /\ UNCHANGED <<pd_code, pd_row>>
    /\ UNCHANGED <<pd_cases, pd_posts, pd_gone>>

PdNext ==
    \/ \E s \in Setters :
          \/ \E upload \in Zips \cup {"keep", NoZip}, form \in PdForms : Load(s, upload, form)
          \/ DeleteOld(s) \/ SaveRow(s) \/ SaveCases(s) \/ Compile(s) \/ WriteInit(s)
          \/ PdDies(s)
    \/ \E c \in Codes : ChangeCode(c)

PdSpec == PdInit /\ [][PdNext]_pdvars

-----------------------------------------------------------------------------
(* Properties.                                                             *)

Undisturbed == ~pd_torn /\ \A s \in Setters : pd_posts[s] = NoDataPost

\* The archive a row names is on disk, in the directory of the problem, and no other one is;
\* init.yml names it, or none.  An upload that takes the place of an archive is lost with it
\* (Cleared): then the row, the directory and init.yml are without an archive.
ArchiveIsThere ==
    Undisturbed =>
        /\ pd_zips = IF pd_row.zip = NoZip THEN {} ELSE {<<pd_code, pd_row.zip>>}
        /\ \A c \in Codes : pd_inits[c] # NoInit => c = pd_code /\ pd_inits[c].archive = pd_row.zip
        /\ pd_gone # NoZip => pd_row.zip = NoZip

InBatch(cases, i) ==
    \E b \in 1 .. i - 1 : cases[b].type = "S" /\ \A j \in b + 1 .. i - 1 : cases[j].type = "C"

\* What make_init accepts, said without a pass.
IsCompilable(cases, files) ==
    \A i \in DOMAIN cases :
        CASE cases[i].type = "C" -> cases[i].file \in files /\ (cases[i].points \/ InBatch(cases, i))
          [] cases[i].type = "S" -> cases[i].points /\ i < Len(cases) /\ cases[i + 1].type = "C"
          [] cases[i].type = "E" -> InBatch(cases, i)

\* The batches are the cases of the list, each once, in their order; two that follow each other
\* share a batch when they are in one that was started.
AreBatches(cases, batches) ==
    /\ \A b \in DOMAIN batches : /\ batches[b] # <<>>
                                 /\ \A k \in DOMAIN batches[b] : /\ batches[b][k] \in DOMAIN cases
                                                                /\ cases[batches[b][k]].type = "C"
    /\ \A i \in DOMAIN cases : cases[i].type = "C" => \E b \in DOMAIN batches : \E k \in DOMAIN batches[b] : batches[b][k] = i
    /\ \A b, c \in DOMAIN batches : \A k \in DOMAIN batches[b], l \in DOMAIN batches[c] :
          b < c \/ (b = c /\ k < l) => batches[b][k] < batches[c][l]
    /\ \A i \in DOMAIN cases : i + 1 \in DOMAIN cases /\ cases[i].type = "C" /\ cases[i + 1].type = "C" =>
          (InBatch(cases, i) <=> \E b \in DOMAIN batches : \E k, l \in DOMAIN batches[b] : batches[b][k] = i /\ batches[b][l] = i + 1)

\* The judges are given the cases that are stored: all of them, in their order and their
\* batches, or none when the data has errors, which the page then shows.  The files are those of
\* the archive of the row, or of the upload that was lost.
InitIsCompiled ==
    Undisturbed =>
        LET init == pd_inits[pd_code]
            files == ValidFiles(pd_row, pd_gone) IN
        IF init # NoInit
        THEN /\ ~pd_row.feedback /\ IsCompilable(pd_cases, files)
             /\ AreBatches(pd_cases, init.cases)
        ELSE pd_row.feedback <=> ~IsCompilable(pd_cases, files)

ProblemDataHolds == ArchiveIsThere /\ InitIsCompiled
=============================================================================
