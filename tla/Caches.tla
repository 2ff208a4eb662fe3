--------------------------------- MODULE Caches ---------------------------------
(***************************************************************************)
(* What is rendered from rows and kept (judge/signals.py and those who     *)
(* fill what it empties): a page looks in the cache, reads the rows and    *)
(* stores what it made of them; a save empties the cache by a signal, in   *)
(* the views after the rows are stored and in the administration before    *)
(* its transaction ends.  The PDF of a problem is a file, that does not    *)
(* expire.  Below, rendered formulas, and the counter of mails.            *)
(***************************************************************************)
EXTENDS Integers, Sequences, FiniteSets

CONSTANTS
    CaRequests,     \* Requests that are under way at once.
    MaxSaves,       \* Bound: saves.
    MaxCaRequests   \* Bound: requests.

VARIABLES
    ca_row,         \* The rows, as the number of changes committed.
    ca_save,        \* The save under way: "none", "transaction" or "stored".
    ca_saves,
    ca_cached,      \* What the cache holds: a version, or NoEntry.
    ca_pdf,         \* The file: at ("absent", "empty" or "whole"), version, and which file it is.
    ca_requests,    \* Per request: at, the version it loaded, and the file it opened.
    ca_count,
    ca_stale,       \* History: of "cache" and "file", those that were filled with rows being changed.
    ca_failures     \* History: files whose rendering failed.

cavars == <<ca_row, ca_save, ca_saves, ca_cached, ca_pdf, ca_requests, ca_count, ca_stale, ca_failures>>

NoEntry == -1
NoVisit == [at |-> "none", version |-> 0, file |-> 0]

CaInit ==
    /\ ca_row = 0 /\ ca_save = "none" /\ ca_saves = 0
    /\ ca_cached = NoEntry
    /\ ca_pdf = [at |-> "absent", version |-> 0, file |-> 0]
    /\ ca_requests = [r \in CaRequests |-> NoVisit]
    /\ ca_count = 0
    /\ ca_stale = {} /\ ca_failures = {}

-----------------------------------------------------------------------------
(* Saves.                                                                  *)

\* Mutant: the receiver lets the file be.
EmptiedCache == ca_cached' = NoEntry /\ UNCHANGED ca_pdf /\ ca_stale' = ca_stale \ {"cache"}

\* The receiver of post_save: the keys are deleted and the file is unlinked.
Emptied ==
    /\ ca_cached' = NoEntry
    /\ ca_pdf' = [ca_pdf EXCEPT !.at = "absent"]
    /\ ca_stale' = {}

\* The administration, in a transaction: post_save is sent with the rows not yet committed.
SaveInTransaction ==
    /\ ca_save = "none" /\ ca_saves < MaxSaves /\ ca_saves' = ca_saves + 1
    /\ ca_save' = "transaction"
    /\ Emptied
    /\ UNCHANGED <<ca_row, ca_requests, ca_count, ca_failures>>

Present == (IF ca_cached # NoEntry THEN {"cache"} ELSE {}) \cup (IF ca_pdf.at # "absent" THEN {"file"} ELSE {})

Commit ==
    /\ ca_save = "transaction"
    /\ ca_save' = "none"
    /\ ca_row' = ca_row + 1
    /\ ca_stale' = ca_stale \cup Present
    /\ UNCHANGED <<ca_saves, ca_cached, ca_pdf, ca_requests, ca_count, ca_failures>>

Rollback ==
    /\ ca_save = "transaction"
    /\ ca_save' = "none"
    /\ UNCHANGED <<ca_row, ca_saves, ca_cached, ca_pdf, ca_requests, ca_count, ca_stale, ca_failures>>

\* A view outside a transaction.
StoreRow ==
    /\ ca_save = "none" /\ ca_saves < MaxSaves /\ ca_saves' = ca_saves + 1
    /\ ca_save' = "stored"
    /\ ca_row' = ca_row + 1
    /\ UNCHANGED <<ca_cached, ca_pdf, ca_requests, ca_count, ca_stale, ca_failures>>

SendSaved ==
    /\ ca_save = "stored"
    /\ ca_save' = "none"
    /\ Emptied
    /\ UNCHANGED <<ca_row, ca_saves, ca_requests, ca_count, ca_failures>>

-----------------------------------------------------------------------------
(* A page with a fragment that is kept.                                    *)

PageTo(r, state) == ca_requests' = [ca_requests EXCEPT ![r] = state]

\* The cache has nothing, and the rows are read; with something, it is shown.
MissAndRead(r) ==
    /\ ca_requests[r] = NoVisit /\ ca_cached = NoEntry
    /\ ca_count < MaxCaRequests /\ ca_count' = ca_count + 1
    /\ PageTo(r, [NoVisit EXCEPT !.at = "made", !.version = ca_row])
    /\ UNCHANGED <<ca_row, ca_save, ca_saves, ca_cached, ca_pdf, ca_stale, ca_failures>>

Keep(r) ==
    LET made == ca_requests[r].version IN
    /\ ca_requests[r].at = "made"
    /\ PageTo(r, NoVisit)
    /\ ca_cached' = made
    /\ ca_stale' = IF made < ca_row THEN ca_stale \cup {"cache"} ELSE ca_stale \ {"cache"}
    /\ UNCHANGED <<ca_row, ca_save, ca_saves, ca_pdf, ca_count, ca_failures>>

Expire ==
    /\ ca_cached # NoEntry
    /\ ca_cached' = NoEntry
    /\ ca_stale' = ca_stale \ {"cache"}
    /\ UNCHANGED <<ca_row, ca_save, ca_saves, ca_pdf, ca_requests, ca_count, ca_failures>>

-----------------------------------------------------------------------------
(* ProblemPdfView.                                                         *)

AskPdf(r) ==
    /\ ca_requests[r] = NoVisit
    /\ ca_count < MaxCaRequests /\ ca_count' = ca_count + 1
    /\ PageTo(r, [NoVisit EXCEPT !.at = "asked", !.version = ca_row])
    /\ UNCHANGED <<ca_row, ca_save, ca_saves, ca_cached, ca_pdf, ca_stale, ca_failures>>

\* The file exists and is sent as it is.
SendPdf(r) ==
    /\ ca_requests[r].at = "asked" /\ ca_pdf.at # "absent"
    /\ PageTo(r, NoVisit)
    /\ UNCHANGED <<ca_row, ca_save, ca_saves, ca_cached, ca_pdf, ca_count, ca_stale, ca_failures>>

\* The file is created before it is rendered.
OpenPdf(r) ==
    /\ ca_requests[r].at = "asked" /\ ca_pdf.at = "absent"
    /\ PageTo(r, [ca_requests[r] EXCEPT !.at = "renders", !.file = ca_pdf.file + 1])
    /\ ca_pdf' = [at |-> "empty", version |-> ca_requests[r].version, file |-> ca_pdf.file + 1]
    /\ ca_stale' = IF ca_requests[r].version < ca_row THEN ca_stale \cup {"file"} ELSE ca_stale
    /\ UNCHANGED <<ca_row, ca_save, ca_saves, ca_cached, ca_count, ca_failures>>

\* What is written to a file that was unlinked is lost.
WritePdf(r) ==
    /\ ca_requests[r].at = "renders"
    /\ PageTo(r, NoVisit)
    /\ ca_pdf' = IF ca_pdf.file = ca_requests[r].file /\ ca_pdf.at = "empty"
                 THEN [ca_pdf EXCEPT !.at = "whole"] ELSE ca_pdf
    /\ UNCHANGED <<ca_row, ca_save, ca_saves, ca_cached, ca_count, ca_stale, ca_failures>>

\* The renderer fails; the empty file stays until the problem is saved.
RenderFails(r) ==
    /\ ca_requests[r].at = "renders"
    /\ PageTo(r, NoVisit)
    /\ ca_failures' = ca_failures \cup {ca_requests[r].file}
    /\ UNCHANGED <<ca_row, ca_save, ca_saves, ca_cached, ca_pdf, ca_count, ca_stale>>

CaNext ==
    \/ SaveInTransaction \/ Commit \/ Rollback \/ StoreRow \/ SendSaved \/ Expire
    \/ \E r \in CaRequests : \/ MissAndRead(r) \/ Keep(r)
                             \/ AskPdf(r) \/ SendPdf(r) \/ OpenPdf(r) \/ WritePdf(r) \/ RenderFails(r)

CaSpec == CaInit /\ [][CaNext]_cavars

-----------------------------------------------------------------------------
(* Properties.                                                             *)

\* Between saves, what is kept was made of the rows as they are, unless it was stored by a request
\* that had read them before a save or while one was not yet committed.
KeptIsFresh ==
    ca_save # "stored" =>
      /\ ca_cached \in {NoEntry, ca_row} \/ "cache" \in ca_stale
      /\ ca_pdf.at # "absent" => ca_pdf.version = ca_row \/ "file" \in ca_stale

\* A file that is empty is being rendered, or its rendering failed.
EmptyIsRendering ==
    ca_pdf.at = "empty" =>
      ca_pdf.file \in ca_failures \cup {ca_requests[r].file : r \in {q \in CaRequests : ca_requests[q].at = "renders"}}

CachesHold == KeptIsFresh /\ EmptyIsRendering

-----------------------------------------------------------------------------
(***************************************************************************)
(* Rendered formulas and diagrams (judge/utils/mathoid.py, texoid.py,      *)
(* file_cache.py).  A page that needs one looks for the last of its files; *)
(* without it a service renders it, and the files are written one by one,  *)
(* each first emptied; with it the texts are taken from a cache, or read   *)
(* from the files and put there.                                           *)
(***************************************************************************)

CONSTANTS
    FoWorkers,      \* Requests that render the formula.
    MaxFoPages      \* Bound: pages rendered.

VARIABLES
    fo_kind,        \* "mathoid" or "texoid".
    fo_files,       \* Per file: "none", "empty" while it is written, "ok".
    fo_cache,       \* Per cached text: the same.
    fo_workers,     \* Per request: where it is, and which text it has read.
    fo_pages,
    fo_shown,       \* What the pages got: "image", "text" (the formula itself), "blank" or "error".
    fo_broken       \* History: files a request that died left empty.

fovars == <<fo_kind, fo_files, fo_cache, fo_workers, fo_pages, fo_shown, fo_broken>>

\* Mutant: the style first.
StyleFirst(kind) == IF kind = "mathoid" THEN <<"css", "svg", "mml">> ELSE <<"meta", "png", "svg">>

\* The order in which the files are stored.
FilesInOrder(kind) == IF kind = "mathoid" THEN <<"svg", "mml", "css">> ELSE <<"meta", "png", "svg">>

\* The file that has_file looks for.
Sought(kind) == IF kind = "mathoid" THEN "css" ELSE "svg"

\* The texts query_cache takes from the cache or the files.
Texts(kind) == IF kind = "mathoid" THEN <<"css", "mml">> ELSE <<"meta">>

FileNames == {"svg", "mml", "css", "png", "meta"}
FoIdle == [at |-> "none", n |-> 0, got |-> "image"]

FoInit ==
    /\ fo_kind \in {"mathoid", "texoid"}
    /\ fo_files = [f \in FileNames |-> "none"]
    /\ fo_cache = [f \in FileNames |-> "none"]
    /\ fo_workers = [w \in FoWorkers |-> FoIdle]
    /\ fo_pages = 0 /\ fo_shown = {} /\ fo_broken = {}

SetWorker(w, worker) == fo_workers' = [fo_workers EXCEPT ![w] = worker]

FoDone(w, what) == SetWorker(w, FoIdle) /\ fo_shown' = fo_shown \cup {what}

\* get_result.
GetResult(w) ==
    /\ fo_workers[w].at = "none" /\ fo_pages < MaxFoPages /\ fo_pages' = fo_pages + 1
    /\ SetWorker(w, [FoIdle EXCEPT !.at = IF fo_files[Sought(fo_kind)] # "none" THEN "cache" ELSE "service", !.n = 1])
    /\ UNCHANGED <<fo_kind, fo_files, fo_cache, fo_shown, fo_broken>>

\* The service fails, or answers without success: the page shows the text.
ServiceFails(w) ==
    /\ fo_workers[w].at = "service" /\ FoDone(w, "text")
    /\ UNCHANGED <<fo_kind, fo_files, fo_cache, fo_pages, fo_broken>>

ServiceAnswers(w) ==
    /\ fo_workers[w].at = "service" /\ SetWorker(w, [fo_workers[w] EXCEPT !.at = "open"])
    /\ UNCHANGED <<fo_kind, fo_files, fo_cache, fo_pages, fo_shown, fo_broken>>

\* cache_data: the file is opened, which empties it, and then written.
OpenFile(w) ==
    LET file == FilesInOrder(fo_kind)[fo_workers[w].n] IN
    /\ fo_workers[w].at = "open"
    /\ fo_files' = [fo_files EXCEPT ![file] = "empty"]
    /\ SetWorker(w, [fo_workers[w] EXCEPT !.at = "write"])
    /\ UNCHANGED <<fo_kind, fo_cache, fo_pages, fo_shown, fo_broken>>

WriteFile(w) ==
    LET n == fo_workers[w].n
        file == FilesInOrder(fo_kind)[n] IN
    /\ fo_workers[w].at = "write"
    /\ fo_files' = [fo_files EXCEPT ![file] = "ok"]
    /\ fo_broken' = fo_broken \ {file}
    /\ IF n = Len(FilesInOrder(fo_kind)) THEN FoDone(w, "image")
       ELSE SetWorker(w, [fo_workers[w] EXCEPT !.at = "open", !.n = n + 1]) /\ UNCHANGED fo_shown
    /\ UNCHANGED <<fo_kind, fo_cache, fo_pages>>

FoDies(w) ==
    /\ fo_workers[w].at \in {"open", "write"}
    /\ fo_broken' = IF fo_workers[w].at = "write" THEN fo_broken \cup {FilesInOrder(fo_kind)[fo_workers[w].n]} ELSE fo_broken
    /\ SetWorker(w, FoIdle)
    /\ UNCHANGED <<fo_kind, fo_files, fo_cache, fo_pages, fo_shown>>

\* query_cache, one text after the other; texoid's cannot be parsed when empty.
QueryCache(w) ==
    LET worker == fo_workers[w]
        text == Texts(fo_kind)[worker.n]
        read == IF fo_cache[text] # "none" THEN fo_cache[text] ELSE fo_files[text]
        got == IF read = "ok" THEN worker.got ELSE "blank"
        fails == read = "none" \/ (read = "empty" /\ fo_kind = "texoid") IN
    /\ worker.at = "cache"
    /\ IF fails THEN FoDone(w, "error") /\ UNCHANGED fo_cache
       ELSE /\ fo_cache' = [fo_cache EXCEPT ![text] = read]
            /\ IF worker.n = Len(Texts(fo_kind)) THEN FoDone(w, got)
               ELSE SetWorker(w, [worker EXCEPT !.n = @ + 1, !.got = got]) /\ UNCHANGED fo_shown
    /\ UNCHANGED <<fo_kind, fo_files, fo_pages, fo_broken>>

\* A text leaves the cache.
CacheExpires(text) ==
    /\ fo_cache[text] # "none" /\ fo_cache' = [fo_cache EXCEPT ![text] = "none"]
    /\ UNCHANGED <<fo_kind, fo_files, fo_workers, fo_pages, fo_shown, fo_broken>>

FoNext ==
    \/ \E text \in FileNames : CacheExpires(text)
    \/ \E w \in FoWorkers : GetResult(w) \/ ServiceFails(w) \/ ServiceAnswers(w) \/ OpenFile(w) \/ WriteFile(w)
                            \/ FoDies(w) \/ QueryCache(w)

FoSpec == FoInit /\ [][FoNext]_fovars

-----------------------------------------------------------------------------
(* Properties.                                                             *)

StoredFiles == {FilesInOrder(fo_kind)[i] : i \in DOMAIN FilesInOrder(fo_kind)}
BeingWritten == {FilesInOrder(fo_kind)[fo_workers[w].n] : w \in {v \in FoWorkers : fo_workers[v].at = "write"}}

\* A formula whose last file is there has all its files, each whole unless some request writes it
\* now or died while it did; so a page that finds one never fails for a file that is missing.
FilesComplete ==
    fo_files[Sought(fo_kind)] # "none" =>
        \A f \in StoredFiles : fo_files[f] = "ok" \/ (fo_files[f] = "empty" /\ f \in BeingWritten \cup fo_broken)

\* Mathoid's pages never fail.
NoPageFails == fo_kind = "mathoid" => "error" \notin fo_shown

FormulasHold == FilesComplete /\ NoPageFails

-----------------------------------------------------------------------------
(***************************************************************************)
(* Mails about errors (dmoj/throttle_mail.py): a counter in the cache that *)
(* lives for a while from the first error on; the first of its errors are  *)
(* mailed.                                                                 *)
(***************************************************************************)

CONSTANTS
    MlErrors,       \* The errors that are logged.
    Throttle,       \* DMOJ_EMAIL_THROTTLING[0].
    MaxPeriods      \* Bound: lives of the counter.

MailAssumption == Throttle \in Nat \ {0} /\ MaxPeriods \in Nat

VARIABLES
    ml_counter,     \* error_email_throttle, or NoEntry.
    ml_period,      \* Which life of the counter this is.
    ml_counts,      \* Errors counted in each life.
    ml_errors,      \* Per error: where its handler is, and the life it was counted in (0 for none).
    ml_lapses       \* History: errors whose counter expired before they were counted.

mlvars == <<ml_counter, ml_period, ml_counts, ml_errors, ml_lapses>>

MlInit ==
    /\ ml_counter = NoEntry /\ ml_period = 0
    /\ ml_counts = [n \in 1 .. MaxPeriods |-> 0]
    /\ ml_errors = [e \in MlErrors |-> [at |-> "none", in |-> 0]]
    /\ ml_lapses = {}

MlTo(e, at, in) == ml_errors' = [ml_errors EXCEPT ![e] = [at |-> at, in |-> in]]

\* new_email: cache.add sets the counter if there is none ...
AddCounter(e) ==
    /\ ml_errors[e].at = "none" /\ MlTo(e, "count", 0)
    /\ IF ml_counter # NoEntry THEN UNCHANGED <<ml_counter, ml_period>>
       ELSE ml_period < MaxPeriods /\ ml_period' = ml_period + 1 /\ ml_counter' = 0
    /\ UNCHANGED <<ml_counts, ml_lapses>>

\* Mutant: the one that reaches the limit is mailed as well.
DropsAbove(count) == count > Throttle

\* emit returns without a mail.
Drops(count) == count >= Throttle

\* ... and cache.incr counts.
CountError(e) ==
    /\ ml_errors[e].at = "count" /\ ml_counter # NoEntry
    /\ ml_counter' = ml_counter + 1
    /\ ml_counts' = [ml_counts EXCEPT ![ml_period] = @ + 1]
    /\ MlTo(e, IF Drops(ml_counter + 1) THEN "dropped" ELSE "mails", ml_period)
    /\ UNCHANGED <<ml_period, ml_lapses>>

\* incr raises when the key has expired; the exception is printed and the mail is sent.
CountFails(e) ==
    /\ ml_errors[e].at = "count" /\ ml_counter = NoEntry
    /\ MlTo(e, "mails", 0)
    /\ ml_lapses' = ml_lapses \cup {e}
    /\ UNCHANGED <<ml_counter, ml_period, ml_counts>>

SendMail(e) ==
    /\ ml_errors[e].at = "mails" /\ MlTo(e, "mailed", ml_errors[e].in)
    /\ UNCHANGED <<ml_counter, ml_period, ml_counts, ml_lapses>>

CounterExpires ==
    /\ ml_counter # NoEntry /\ ml_counter' = NoEntry
    /\ UNCHANGED <<ml_period, ml_counts, ml_errors, ml_lapses>>

MlNext == CounterExpires \/ \E e \in MlErrors : AddCounter(e) \/ CountError(e) \/ CountFails(e) \/ SendMail(e)

MlSpec == MlInit /\ [][MlNext]_mlvars

-----------------------------------------------------------------------------
(* Properties.                                                             *)

\* However the handlers overlap, of the errors counted in one life of the counter one less than
\* Throttle are mailed, or all when there are fewer; an error that no counter counted is mailed.
FirstErrorsMailed ==
    \A n \in 1 .. MaxPeriods :
        LET mailed == {e \in MlErrors : ml_errors[e].in = n /\ ml_errors[e].at \in {"mails", "mailed"}} IN
        Cardinality(mailed) = IF ml_counts[n] < Throttle THEN ml_counts[n] ELSE Throttle - 1

\* No error is lost but to the counter: one that was not counted is not dropped.
UncountedAreMailed == \A e \in MlErrors : ml_errors[e].at = "dropped" => ml_errors[e].in # 0 /\ e \notin ml_lapses

MailsHold == FirstErrorsMailed /\ UncountedAreMailed
=============================================================================
