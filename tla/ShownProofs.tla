------------------------------ MODULE ShownProofs ------------------------------
(***************************************************************************)
(* What Site says of each of the components that show rows that change     *)
(* holds for every value of their constants: what caches keep, rendered    *)
(* formulas, mails about errors, marks of problems, the page of a          *)
(* submission that is judged and the list of recent ones.  Each has its    *)
(* own inductive invariant; they meet in the last theorem.                 *)
(***************************************************************************)
EXTENDS Site, TLAPS, FiniteSetTheorems, WellFoundedInduction

-----------------------------------------------------------------------------
(* Numbers.                                                                *)

\* Of some numbers one is the smallest.
LEMMA SmallestNat ==
    ASSUME NEW Bad \in SUBSET Nat, Bad # {}
    PROVE  \E n \in Bad : \A m \in Bad : m >= n
<1>1. IsWellFoundedOn(OpToRel(<, Nat), Nat)
    BY NatLessThanWellFounded
<1>2. PICK n \in Bad : \A m \in Bad : ~(<<m, n>> \in OpToRel(<, Nat))
    BY <1>1, WFMin
<1>3. \A m \in Bad : ~(m < n)
    BY <1>2 DEF OpToRel
<1> QED BY <1>3

\* Numbers up to one have a last.
LEMMA LastNumber ==
    ASSUME NEW top \in Nat, NEW S \in SUBSET (0 .. top), S # {}
    PROVE  Max(S) \in S /\ \A x \in S : x <= Max(S)
<1> DEFINE Bounds == {b \in 0 .. top : \A x \in S : x <= b}
<1>1. top \in Bounds /\ Bounds \in SUBSET Nat
    OBVIOUS
<1>2. PICK b \in Bounds : \A c \in Bounds : c >= b
    <2> HIDE DEF Bounds
    <2> QED BY <1>1, SmallestNat
<1>3. b \in S
    <2> SUFFICES ASSUME b \notin S PROVE FALSE
        OBVIOUS
    <2>1. \A x \in S : x <= b /\ x # b /\ x \in Nat
        OBVIOUS
    <2>2. b # 0
        <3>1. PICK x \in S : TRUE
            OBVIOUS
        <3>2. x <= b /\ x # b /\ x \in Nat
            BY <2>1
        <3> QED BY <3>2
    <2>3. b - 1 \in 0 .. top /\ \A x \in S : x <= b - 1
        BY <2>1, <2>2
    <2>4. b - 1 \in Bounds
        BY <2>3
    <2> QED BY <1>2, <2>4
<1>4. \E x \in S : \A y \in S : x >= y
    BY <1>3
<1>5. Max(S) \in S /\ \A y \in S : Max(S) >= y
    BY <1>4 DEF Max
<1> QED BY <1>5

-----------------------------------------------------------------------------
(* Fragments and files that are kept.                                      *)

CaVisits == [at : {"none", "made", "asked", "renders"}, version : Nat, file : Nat]

CaTypes ==
    /\ ca_row \in Nat /\ ca_save \in {"none", "transaction", "stored"}
    /\ ca_cached \in Nat \cup {NoEntry}
    /\ ca_pdf \in [at : {"absent", "empty", "whole"}, version : Nat, file : Nat]
    /\ ca_requests \in [CaRequests -> CaVisits]
    /\ \A r \in CaRequests : ca_requests[r].version <= ca_row
    /\ ca_stale \subseteq {"cache", "file"}

CaInv == CaTypes /\ KeptIsFresh /\ EmptyIsRendering

\* Nothing is kept at first.
LEMMA CaInitInv == CaInit => CaInv
BY DEF CaInit, CaInv, CaTypes, CaVisits, NoVisit, NoEntry, KeptIsFresh, EmptyIsRendering

\* A step of a request replaces its own entry alone.
LEMMA CaMoves ==
    ASSUME CaTypes, NEW r \in CaRequests, NEW visit \in CaVisits, PageTo(r, visit), visit.version <= ca_row, UNCHANGED ca_row
    PROVE  /\ ca_requests' \in [CaRequests -> CaVisits]
           /\ ca_requests'[r] = visit
           /\ \A o \in CaRequests \ {r} : ca_requests'[o] = ca_requests[o]
           /\ \A o \in CaRequests : ca_requests'[o].version <= ca_row'
<1>1. ca_requests' \in [CaRequests -> CaVisits] /\ ca_requests'[r] = visit
      /\ \A o \in CaRequests \ {r} : ca_requests'[o] = ca_requests[o]
    BY DEF CaTypes, PageTo
<1> QED BY <1>1 DEF CaTypes

\* A request without a visit has no version to know of.
LEMMA NoVisitTyped == NoVisit \in CaVisits /\ NoVisit.version = 0 /\ NoVisit.at = "none"
BY DEF NoVisit, CaVisits

\* One that begins knows the rows as they are.
LEMMA VisitTyped ==
    ASSUME ca_row \in Nat, NEW at \in {"made", "asked"}
    PROVE  LET visit == [NoVisit EXCEPT !.at = at, !.version = ca_row] IN
           visit \in CaVisits /\ visit.version <= ca_row /\ visit.at = at /\ 0 <= ca_row
<1>1. ca_row <= ca_row /\ 0 <= ca_row
    OBVIOUS
<1>2. NoVisit \in CaVisits
    BY NoVisitTyped
<1> DEFINE visit == [NoVisit EXCEPT !.at = at, !.version = ca_row]
<1>3. visit \in CaVisits /\ visit.version = ca_row /\ visit.at = at
    BY <1>2 DEF CaVisits
<1> QED BY <1>1, <1>3

\* The steps of a save.
LEMMA CaSaves ==
    ASSUME CaInv, SaveInTransaction \/ Commit \/ Rollback \/ StoreRow \/ SendSaved \/ Expire
    PROVE  CaInv'
<1>1. CaTypes /\ KeptIsFresh /\ EmptyIsRendering
    BY DEF CaInv
<1>2. CASE SaveInTransaction \/ SendSaved
    <2>1. Emptied /\ UNCHANGED <<ca_row, ca_requests>> /\ ca_save' \in {"none", "transaction"}
        BY <1>2 DEF SaveInTransaction, SendSaved
    <2>2. ca_pdf' \in [at : {"absent", "empty", "whole"}, version : Nat, file : Nat] /\ ca_pdf'.at = "absent"
          /\ ca_cached' = NoEntry /\ ca_stale' = {}
        BY <1>1, <2>1 DEF Emptied, CaTypes
    <2> QED BY <1>1, <2>1, <2>2 DEF CaInv, CaTypes, KeptIsFresh, EmptyIsRendering
<1>3. CASE Commit
    <2>1. /\ ca_row' = ca_row + 1 /\ ca_save' = "none" /\ ca_stale' = ca_stale \cup Present
          /\ UNCHANGED <<ca_cached, ca_pdf, ca_requests, ca_failures>>
        BY <1>3 DEF Commit
    <2>2. /\ Present \subseteq {"cache", "file"} /\ (ca_cached # NoEntry => "cache" \in Present)
          /\ (ca_pdf.at # "absent" => "file" \in Present)
        BY DEF Present
    <2>3. CaTypes'
        <3>1. \A r \in CaRequests : ca_requests'[r].version <= ca_row'
            BY <1>1, <2>1 DEF CaTypes, CaVisits
        <3> QED BY <1>1, <2>1, <2>2, <3>1 DEF CaTypes
    <2>4. KeptIsFresh'
        BY <2>1, <2>2 DEF KeptIsFresh
    <2> QED BY <1>1, <2>1, <2>3, <2>4 DEF CaInv, EmptyIsRendering
<1>4. CASE Rollback
    BY <1>1, <1>4 DEF Rollback, CaInv, CaTypes, KeptIsFresh, EmptyIsRendering
<1>5. CASE StoreRow
    <2>1. ca_row' = ca_row + 1 /\ ca_save' = "stored" /\ UNCHANGED <<ca_cached, ca_pdf, ca_requests, ca_stale, ca_failures>>
        BY <1>5 DEF StoreRow
    <2>2. \A r \in CaRequests : ca_requests'[r].version <= ca_row'
        BY <1>1, <2>1 DEF CaTypes, CaVisits
    <2> QED BY <1>1, <2>1, <2>2 DEF CaInv, CaTypes, KeptIsFresh, EmptyIsRendering
<1>6. CASE Expire
    BY <1>1, <1>6 DEF Expire, CaInv, CaTypes, KeptIsFresh, EmptyIsRendering
<1> QED BY <1>2, <1>3, <1>4, <1>5, <1>6

\* The steps of a page.
LEMMA CaPages ==
    ASSUME CaInv, NEW r \in CaRequests, MissAndRead(r) \/ Keep(r)
    PROVE  CaInv'
<1> DEFINE visit == IF ca_requests[r].at = "made" THEN NoVisit ELSE [NoVisit EXCEPT !.at = "made", !.version = ca_row]
<1>1. CaTypes /\ KeptIsFresh /\ EmptyIsRendering
    BY DEF CaInv
<1>2. visit \in CaVisits /\ visit.version <= ca_row /\ visit.at \in {"none", "made"}
    BY <1>1, NoVisitTyped, VisitTyped DEF CaTypes
<1>3. PageTo(r, visit) /\ ca_requests[r].at \in {"none", "made"} /\ UNCHANGED <<ca_row, ca_save, ca_pdf, ca_failures>>
    BY DEF MissAndRead, Keep, NoVisit
<1> HIDE DEF visit
<1>4. /\ ca_requests' \in [CaRequests -> CaVisits] /\ ca_requests'[r] = visit
      /\ \A o \in CaRequests \ {r} : ca_requests'[o] = ca_requests[o]
      /\ \A o \in CaRequests : ca_requests'[o].version <= ca_row'
    BY <1>1, <1>2, <1>3, CaMoves
<1>5. EmptyIsRendering'
    <2>1. \A o \in CaRequests : ca_requests[o].at = "renders" => ca_requests'[o] = ca_requests[o]
        BY <1>3, <1>4
    <2> QED BY <1>1, <1>3, <2>1 DEF EmptyIsRendering
<1>6. /\ ca_cached' \in Nat \cup {NoEntry} /\ ca_stale' \subseteq {"cache", "file"}
      /\ ca_cached' \in {NoEntry, ca_row} \/ "cache" \in ca_stale' \/ (ca_cached' = ca_cached /\ ca_stale' = ca_stale)
      /\ "file" \in ca_stale' <=> "file" \in ca_stale
    <2>1. ca_requests[r].version \in Nat /\ ca_requests[r].version <= ca_row /\ ca_row \in Nat
        BY <1>1 DEF CaTypes, CaVisits
    <2> QED BY <1>1, <2>1 DEF MissAndRead, Keep, CaTypes
<1> QED BY <1>1, <1>3, <1>4, <1>5, <1>6 DEF CaInv, CaTypes, KeptIsFresh

\* The steps of the view of a PDF.
LEMMA CaPdfs ==
    ASSUME CaInv, NEW r \in CaRequests, AskPdf(r) \/ SendPdf(r) \/ OpenPdf(r) \/ WritePdf(r) \/ RenderFails(r)
    PROVE  CaInv'
<1>1. CaTypes /\ KeptIsFresh /\ EmptyIsRendering /\ ca_row \in Nat /\ ca_requests[r] \in CaVisits
    BY DEF CaInv, CaTypes
<1>2. CASE AskPdf(r) \/ SendPdf(r)
    <2> DEFINE visit == IF ca_requests[r].at = "asked" THEN NoVisit ELSE [NoVisit EXCEPT !.at = "asked", !.version = ca_row]
    <2>1. visit \in CaVisits /\ visit.version <= ca_row /\ visit.at # "renders"
        BY <1>1, NoVisitTyped, VisitTyped
    <2>2. /\ PageTo(r, visit) /\ ca_requests[r].at \in {"none", "asked"}
          /\ UNCHANGED <<ca_row, ca_save, ca_cached, ca_pdf, ca_stale, ca_failures>>
        BY <1>2 DEF AskPdf, SendPdf, NoVisit
    <2> HIDE DEF visit
    <2>3. /\ ca_requests' \in [CaRequests -> CaVisits] /\ ca_requests'[r] = visit
          /\ \A o \in CaRequests \ {r} : ca_requests'[o] = ca_requests[o]
          /\ \A o \in CaRequests : ca_requests'[o].version <= ca_row'
        BY <1>1, <2>1, <2>2, CaMoves
    <2>4. EmptyIsRendering'
        <3>1. \A o \in CaRequests : ca_requests[o].at = "renders" => ca_requests'[o] = ca_requests[o]
            BY <2>2, <2>3
        <3> QED BY <1>1, <2>2, <3>1 DEF EmptyIsRendering
    <2> QED BY <1>1, <2>2, <2>3, <2>4 DEF CaInv, CaTypes, KeptIsFresh
<1>3. CASE OpenPdf(r)
    <2> DEFINE file == ca_pdf.file + 1
               visit == [ca_requests[r] EXCEPT !.at = "renders", !.file = file]
               pdf == [at |-> "empty", version |-> ca_requests[r].version, file |-> file]
    <2>1. file \in Nat
        BY <1>1 DEF CaTypes
    <2>2. visit \in CaVisits /\ visit.version = ca_requests[r].version /\ visit.at = "renders" /\ visit.file = file
        BY <1>1, <2>1 DEF CaVisits
    <2>3. pdf \in [at : {"absent", "empty", "whole"}, version : Nat, file : Nat]
        BY <1>1, <2>1 DEF CaVisits
    <2>4. /\ PageTo(r, visit) /\ ca_pdf' = pdf /\ UNCHANGED <<ca_row, ca_save, ca_cached, ca_failures>>
          /\ ca_stale' = IF ca_requests[r].version < ca_row THEN ca_stale \cup {"file"} ELSE ca_stale
        BY <1>3 DEF OpenPdf
    <2>5. ca_requests[r].version <= ca_row /\ ca_requests[r].version \in Nat
        BY <1>1 DEF CaTypes, CaVisits
    <2>6. pdf.version = ca_requests[r].version /\ pdf.file = file
        OBVIOUS
    <2> HIDE DEF visit, pdf, file
    <2>7. /\ ca_requests' \in [CaRequests -> CaVisits] /\ ca_requests'[r] = visit
          /\ \A o \in CaRequests : ca_requests'[o].version <= ca_row'
        BY <1>1, <2>2, <2>4, <2>5, CaMoves
    <2>8. EmptyIsRendering'
        BY <2>2, <2>4, <2>6, <2>7 DEF EmptyIsRendering
    <2>9. KeptIsFresh'
        <3>1. pdf.version = ca_row \/ "file" \in ca_stale'
            BY <1>1, <2>4, <2>5, <2>6
        <3> QED BY <1>1, <2>4, <3>1 DEF KeptIsFresh
    <2>10. ca_stale' \subseteq {"cache", "file"}
        BY <1>1, <2>4 DEF CaTypes
    <2> QED BY <1>1, <2>3, <2>4, <2>7, <2>8, <2>9, <2>10 DEF CaInv, CaTypes
<1>4. CASE WritePdf(r) \/ RenderFails(r)
    <2>1. /\ ca_requests[r].at = "renders" /\ PageTo(r, NoVisit) /\ UNCHANGED <<ca_row, ca_save, ca_cached, ca_stale>>
          /\ ca_pdf' = ca_pdf \/ (ca_pdf' = [ca_pdf EXCEPT !.at = "whole"] /\ ca_pdf.at = "empty")
        BY <1>4 DEF WritePdf, RenderFails
    <2>2. /\ ca_requests' \in [CaRequests -> CaVisits] /\ ca_requests'[r] = NoVisit
          /\ \A o \in CaRequests \ {r} : ca_requests'[o] = ca_requests[o]
          /\ \A o \in CaRequests : ca_requests'[o].version <= ca_row'
        <3>1. NoVisit.version <= ca_row
            BY <1>1, NoVisitTyped
        <3> QED BY <1>1, <2>1, <3>1, CaMoves, NoVisitTyped
    <2>3. /\ ca_pdf' \in [at : {"absent", "empty", "whole"}, version : Nat, file : Nat]
          /\ ca_pdf'.version = ca_pdf.version /\ (ca_pdf'.at # "absent" => ca_pdf.at # "absent")
        BY <1>1, <2>1 DEF CaTypes
    <2>4. EmptyIsRendering'
        <3> SUFFICES ASSUME ca_pdf'.at = "empty"
                     PROVE  ca_pdf'.file \in ca_failures' \cup {ca_requests'[o].file : o \in {q \in CaRequests : ca_requests'[q].at = "renders"}}
            BY DEF EmptyIsRendering
        <3>1. ca_pdf.at = "empty" /\ ca_pdf' = ca_pdf
            BY <1>1, <2>1 DEF CaTypes
        <3>2. ca_failures \subseteq ca_failures' /\ (ca_pdf.file = ca_requests[r].file => ca_pdf.file \in ca_failures')
            <4>1. CASE WritePdf(r)
                <5>1. ca_pdf.file # ca_requests[r].file
                    <6>1. ASSUME ca_pdf.file = ca_requests[r].file PROVE FALSE
                        <7>1. ca_pdf' = [ca_pdf EXCEPT !.at = "whole"]
                            BY <4>1, <6>1, <3>1 DEF WritePdf
                        <7>2. ca_pdf'.at = "whole"
                            BY <1>1, <7>1 DEF CaTypes
                        <7> QED BY <7>2, <3>1
                    <6> QED BY <6>1
                <5> QED BY <4>1, <5>1 DEF WritePdf
            <4>2. CASE RenderFails(r)
                BY <4>2 DEF RenderFails
            <4> QED BY <1>4, <4>1, <4>2
        <3> QED BY <1>1, <2>2, <3>1, <3>2 DEF EmptyIsRendering
    <2>5. KeptIsFresh'
        BY <1>1, <2>1, <2>3 DEF KeptIsFresh
    <2> QED BY <1>1, <2>1, <2>2, <2>3, <2>4, <2>5 DEF CaInv, CaTypes
<1> QED BY <1>2, <1>3, <1>4

\* Whatever is saved, rendered or dropped in between.
LEMMA CaStepInv == CaInv /\ [CaNext]_cavars => CaInv'
<1>1. CaInv /\ UNCHANGED cavars => CaInv'
    BY DEF CaInv, CaTypes, KeptIsFresh, EmptyIsRendering, cavars
<1> QED BY <1>1, CaSaves, CaPages, CaPdfs DEF CaNext

-----------------------------------------------------------------------------
(* Formulas.                                                               *)

FoKinds == {"mathoid", "texoid"}
FileStates == {"none", "empty", "ok"}
FoWorks == [at : {"none", "cache", "service", "open", "write"}, n : 0 .. 3, got : {"image", "blank"}]

FoTypes ==
    /\ fo_kind \in FoKinds
    /\ fo_files \in [FileNames -> FileStates] /\ fo_cache \in [FileNames -> FileStates]
    /\ fo_workers \in [FoWorkers -> FoWorks]
    /\ fo_broken \subseteq FileNames

File(i) == FilesInOrder(fo_kind)[i]
Writes(w, f) == fo_workers[w].at = "write" /\ File(fo_workers[w].n) = f

\* A request has come to its file by those before it; a file that is empty is being written, or its writer died;
\* and who goes on from the files found the last of them.
FoInv ==
    /\ FoTypes
    /\ \A w \in FoWorkers :
          /\ fo_workers[w].at # "none" => fo_workers[w].n \in 1 .. 3
          /\ fo_workers[w].at \in {"service"} => fo_workers[w].n = 1
          /\ fo_workers[w].at \in {"open", "write"} => \A i \in 1 .. 3 : i < fo_workers[w].n => fo_files[File(i)] # "none"
          /\ fo_workers[w].at = "write" => fo_files[File(fo_workers[w].n)] # "none"
          /\ fo_workers[w].at = "cache" => fo_workers[w].n \in 1 .. Len(Texts(fo_kind)) /\ fo_files[File(3)] # "none"
    /\ fo_files[File(3)] # "none" => \A i \in 1 .. 3 : fo_files[File(i)] # "none"
    /\ \A i \in 1 .. 3 : fo_files[File(i)] = "empty" => File(i) \in fo_broken \/ \E w \in FoWorkers : Writes(w, File(i))
    /\ NoPageFails

\* Each kind has three files; the one that is looked for is the last, and the texts are among them.
LEMMA FilesAre ==
    ASSUME NEW kind \in FoKinds
    PROVE  /\ Len(FilesInOrder(kind)) = 3 /\ DOMAIN FilesInOrder(kind) = 1 .. 3
           /\ \A i \in 1 .. 3 : FilesInOrder(kind)[i] \in FileNames
           /\ \A i, j \in 1 .. 3 : i # j => FilesInOrder(kind)[i] # FilesInOrder(kind)[j]
           /\ Sought(kind) = FilesInOrder(kind)[3]
           /\ Len(Texts(kind)) \in 1 .. 3
           /\ \A n \in 1 .. Len(Texts(kind)) : Texts(kind)[n] \in FileNames /\ \E i \in 1 .. 3 : Texts(kind)[n] = FilesInOrder(kind)[i]
<1>1. 1 .. 3 = {1, 2, 3} /\ 1 .. 2 = {1, 2} /\ 1 .. 1 = {1}
    OBVIOUS
<1>2. CASE kind = "mathoid"
    <2>1. FilesInOrder(kind) = <<"svg", "mml", "css">> /\ Sought(kind) = "css" /\ Texts(kind) = <<"css", "mml">>
        BY <1>2 DEF FilesInOrder, Sought, Texts
    <2> QED BY <1>1, <2>1 DEF FileNames
<1>3. CASE kind = "texoid"
    <2>1. FilesInOrder(kind) = <<"meta", "png", "svg">> /\ Sought(kind) = "svg" /\ Texts(kind) = <<"meta">>
        BY <1>3 DEF FilesInOrder, Sought, Texts
    <2> QED BY <1>1, <2>1 DEF FileNames
<1> QED BY <1>2, <1>3 DEF FoKinds

\* There are no files at first.
LEMMA FoInitInv == FoInit => FoInv
<1> SUFFICES ASSUME FoInit PROVE FoInv
    OBVIOUS
<1>1. fo_kind \in FoKinds
    BY DEF FoInit, FoKinds
<1>2. FoIdle \in FoWorks /\ FoIdle.at = "none"
    BY DEF FoIdle, FoWorks
<1>3. FoTypes /\ \A w \in FoWorkers : fo_workers[w].at = "none"
    BY <1>1, <1>2 DEF FoInit, FoTypes, FileStates
<1>4. \A i \in 1 .. 3 : fo_files[File(i)] = "none"
    BY <1>1, FilesAre DEF FoInit, File
<1>5. NoPageFails
    BY DEF FoInit, NoPageFails
<1> QED BY <1>3, <1>4, <1>5 DEF FoInv

\* A step of a request replaces its own entry alone.
LEMMA FoMoves ==
    ASSUME FoTypes, NEW w \in FoWorkers, NEW work \in FoWorks, SetWorker(w, work)
    PROVE  /\ fo_workers' \in [FoWorkers -> FoWorks]
           /\ fo_workers'[w] = work
           /\ \A o \in FoWorkers \ {w} : fo_workers'[o] = fo_workers[o]
BY DEF FoTypes, SetWorker

\* A step that leaves the files as they are keeps what is said of them, and of the other requests.
LEMMA FilesStay ==
    ASSUME FoInv, NEW w \in FoWorkers, NEW work \in FoWorks, SetWorker(w, work), UNCHANGED <<fo_kind, fo_files>>,
           fo_cache' \in [FileNames -> FileStates], fo_broken' \subseteq FileNames, fo_broken \subseteq fo_broken',
           fo_workers[w].at = "write" => File(fo_workers[w].n) \in fo_broken',
           work.at # "none" => work.n \in 1 .. 3,
           work.at = "service" => work.n = 1,
           work.at = "open" => work.n = 1,
           work.at # "write",
           work.at = "cache" => work.n \in 1 .. Len(Texts(fo_kind)) /\ fo_files[File(3)] # "none",
           NoPageFails'
    PROVE  FoInv'
<1>1. /\ fo_workers' \in [FoWorkers -> FoWorks] /\ fo_workers'[w] = work
      /\ \A o \in FoWorkers \ {w} : fo_workers'[o] = fo_workers[o]
    BY FoMoves DEF FoInv
<1>2. \A i : File(i)' = File(i)
    BY DEF File
<1>3. FoTypes'
    BY <1>1 DEF FoInv, FoTypes
<1>4. ASSUME NEW o \in FoWorkers
      PROVE  /\ fo_workers'[o].at # "none" => fo_workers'[o].n \in 1 .. 3
             /\ fo_workers'[o].at \in {"service"} => fo_workers'[o].n = 1
             /\ fo_workers'[o].at \in {"open", "write"} => \A i \in 1 .. 3 : i < fo_workers'[o].n => fo_files[File(i)] # "none"
             /\ fo_workers'[o].at = "write" => fo_files[File(fo_workers'[o].n)] # "none"
             /\ fo_workers'[o].at = "cache" => fo_workers'[o].n \in 1 .. Len(Texts(fo_kind)) /\ fo_files[File(3)] # "none"
    <2>1. CASE o = w
        <3>1. \A i \in 1 .. 3 : ~(i < 1)
            OBVIOUS
        <3> QED BY <1>1, <2>1, <3>1
    <2>2. CASE o # w
        BY <1>1, <2>2 DEF FoInv
    <2> QED BY <2>1, <2>2
<1>5. ASSUME NEW i \in 1 .. 3, fo_files[File(i)] = "empty"
      PROVE  File(i) \in fo_broken' \/ \E o \in FoWorkers : fo_workers'[o].at = "write" /\ File(fo_workers'[o].n) = File(i)
    <2>1. File(i) \in fo_broken \/ \E o \in FoWorkers : Writes(o, File(i))
        BY <1>5 DEF FoInv
    <2>2. ASSUME NEW o \in FoWorkers, Writes(o, File(i)), File(i) \notin fo_broken'
          PROVE  fo_workers'[o].at = "write" /\ File(fo_workers'[o].n) = File(i)
        <3>1. o # w
            BY <2>2 DEF Writes
        <3> QED BY <1>1, <2>2, <3>1 DEF Writes
    <2> QED BY <2>1, <2>2
<1>6. fo_files[File(3)] # "none" => \A i \in 1 .. 3 : fo_files[File(i)] # "none"
    BY DEF FoInv
<1>7. /\ \A o \in FoWorkers :
            /\ fo_workers'[o].at # "none" => fo_workers'[o].n \in 1 .. 3
            /\ fo_workers'[o].at \in {"service"} => fo_workers'[o].n = 1
            /\ fo_workers'[o].at \in {"open", "write"} => \A i \in 1 .. 3 : i < fo_workers'[o].n => fo_files'[File(i)'] # "none"
            /\ fo_workers'[o].at = "write" => fo_files'[File(fo_workers[o].n)'] # "none"
            /\ fo_workers'[o].at = "cache" => fo_workers'[o].n \in 1 .. Len(Texts(fo_kind')) /\ fo_files'[File(3)'] # "none"
    BY <1>2, <1>4 DEF File
<1>8. \A i \in 1 .. 3 : fo_files'[File(i)'] = "empty" => File(i)' \in fo_broken' \/ \E o \in FoWorkers : Writes(o, File(i))'
    BY <1>2, <1>5 DEF Writes, File
<1>9. fo_files'[File(3)'] # "none" => \A i \in 1 .. 3 : fo_files'[File(i)'] # "none"
    BY <1>2, <1>6
<1> QED BY <1>3, <1>7, <1>8, <1>9 DEF FoInv

\* A step that writes one file: it is there from then on, and every other file and request stays.
LEMMA FileMoves ==
    ASSUME FoInv, NEW w \in FoWorkers, NEW work \in FoWorks, NEW n \in 1 .. 3, NEW state \in {"empty", "ok"},
           SetWorker(w, work), UNCHANGED <<fo_kind, fo_cache>>,
           fo_workers[w].n = n, fo_workers[w].at \in {"open", "write"},
           fo_files' = [fo_files EXCEPT ![File(n)] = state],
           fo_broken' \subseteq fo_broken, fo_broken \subseteq fo_broken' \cup {File(n)},
           state = "empty" => fo_broken' = fo_broken /\ work.at = "write" /\ work.n = n /\ fo_workers[w].at = "open",
           state = "ok" => \/ work.at = "none"
                           \/ work.at = "open" /\ work.n = n + 1 /\ n < 3,
           NoPageFails'
    PROVE  FoInv'
<1>1. /\ fo_workers' \in [FoWorkers -> FoWorks] /\ fo_workers'[w] = work
      /\ \A o \in FoWorkers \ {w} : fo_workers'[o] = fo_workers[o]
    BY FoMoves DEF FoInv
<1>2. \A i : File(i)' = File(i)
    BY DEF File
<1>3. FoTypes /\ fo_kind \in FoKinds
    BY DEF FoInv, FoTypes
<1>4. /\ \A i \in 1 .. 3 : File(i) \in FileNames
      /\ \A i, j \in 1 .. 3 : i # j => File(i) # File(j)
    BY <1>3, FilesAre DEF File
<1>5. /\ fo_files' \in [FileNames -> FileStates] /\ fo_files'[File(n)] = state
      /\ \A i \in 1 .. 3 : i # n => fo_files'[File(i)] = fo_files[File(i)]
      /\ \A i \in 1 .. 3 : fo_files[File(i)] # "none" => fo_files'[File(i)] # "none"
    BY <1>3, <1>4 DEF FoTypes, FileStates
<1>6. FoTypes'
    BY <1>1, <1>3, <1>5 DEF FoTypes
<1>7. ASSUME NEW o \in FoWorkers
      PROVE  /\ fo_workers'[o].at # "none" => fo_workers'[o].n \in 1 .. 3
             /\ fo_workers'[o].at \in {"service"} => fo_workers'[o].n = 1
             /\ fo_workers'[o].at \in {"open", "write"} => \A i \in 1 .. 3 : i < fo_workers'[o].n => fo_files'[File(i)] # "none"
             /\ fo_workers'[o].at = "write" => fo_files'[File(fo_workers'[o].n)] # "none"
             /\ fo_workers'[o].at = "cache" => fo_workers'[o].n \in 1 .. Len(Texts(fo_kind)) /\ fo_files'[File(3)] # "none"
    <2>1. CASE o = w
        <3>1. \A i \in 1 .. 3 : i < n => fo_files'[File(i)] # "none"
            BY <1>5 DEF FoInv
        <3>2. CASE state = "empty"
            BY <1>1, <1>5, <2>1, <3>1, <3>2
        <3>3. CASE state = "ok" /\ work.at = "none"
            BY <1>1, <2>1, <3>3
        <3>4. CASE state = "ok" /\ work.at = "open" /\ work.n = n + 1 /\ n < 3
            <4>1. n + 1 \in 1 .. 3 /\ \A i \in 1 .. 3 : i < n + 1 => i < n \/ i = n
                BY <3>4
            <4>2. \A i \in 1 .. 3 : i < n + 1 => fo_files'[File(i)] # "none"
                BY <1>5, <3>1, <3>4, <4>1
            <4> QED BY <1>1, <2>1, <3>4, <4>1, <4>2
        <3> QED BY <3>2, <3>3, <3>4
    <2>2. CASE o # w
        BY <1>1, <1>5, <2>2 DEF FoInv
    <2> QED BY <2>1, <2>2
<1>8. fo_files'[File(3)] # "none" => \A i \in 1 .. 3 : fo_files'[File(i)] # "none"
    <2>1. CASE fo_files[File(3)] # "none"
        BY <1>5, <2>1 DEF FoInv
    <2>2. CASE n = 3
        <3>1. \A i \in 1 .. 3 : i < 3 => fo_files[File(i)] # "none"
            BY <2>2 DEF FoInv
        <3>2. \A i \in 1 .. 3 : i < 3 \/ i = 3
            OBVIOUS
        <3> QED BY <1>5, <2>2, <3>1, <3>2
    <2>3. CASE n # 3 /\ fo_files[File(3)] = "none"
        BY <1>5, <2>3
    <2> QED BY <2>1, <2>2, <2>3
<1>9. ASSUME NEW i \in 1 .. 3, fo_files'[File(i)] = "empty"
      PROVE  File(i) \in fo_broken' \/ \E o \in FoWorkers : fo_workers'[o].at = "write" /\ File(fo_workers'[o].n) = File(i)
    <2>1. CASE i = n
        <3>1. fo_workers'[w].at = "write" /\ fo_workers'[w].n = i
            BY <1>1, <1>5, <1>9, <2>1
        <3> QED BY <3>1
    <2>2. CASE i # n
        <3>1. fo_files[File(i)] = "empty" /\ File(i) # File(n)
            BY <1>4, <1>5, <1>9, <2>2
        <3>2. File(i) \in fo_broken \/ \E o \in FoWorkers : Writes(o, File(i))
            BY <3>1 DEF FoInv
        <3>3. ASSUME NEW o \in FoWorkers, Writes(o, File(i))
              PROVE  fo_workers'[o].at = "write" /\ File(fo_workers'[o].n) = File(i)
            <4>1. o # w
                BY <3>1, <3>3 DEF Writes
            <4> QED BY <1>1, <3>3, <4>1 DEF Writes
        <3> QED BY <3>1, <3>2, <3>3
    <2> QED BY <2>1, <2>2
<1>10. \A o \in FoWorkers :
            /\ fo_workers'[o].at # "none" => fo_workers'[o].n \in 1 .. 3
            /\ fo_workers'[o].at \in {"service"} => fo_workers'[o].n = 1
            /\ fo_workers'[o].at \in {"open", "write"} => \A i \in 1 .. 3 : i < fo_workers'[o].n => fo_files'[File(i)'] # "none"
            /\ fo_workers'[o].at = "write" => fo_files'[File(fo_workers[o].n)'] # "none"
            /\ fo_workers'[o].at = "cache" => fo_workers'[o].n \in 1 .. Len(Texts(fo_kind')) /\ fo_files'[File(3)'] # "none"
    BY <1>2, <1>7 DEF File
<1>11. \A i \in 1 .. 3 : fo_files'[File(i)'] = "empty" => File(i)' \in fo_broken' \/ \E o \in FoWorkers : Writes(o, File(i))'
    BY <1>2, <1>9 DEF Writes, File
<1>12. fo_files'[File(3)'] # "none" => \A i \in 1 .. 3 : fo_files'[File(i)'] # "none"
    BY <1>2, <1>8
<1> QED BY <1>6, <1>10, <1>11, <1>12 DEF FoInv

\* Whatever pages are rendered, and whoever dies.
LEMMA FoStepInv == FoInv /\ [FoNext]_fovars => FoInv'
<1> SUFFICES ASSUME FoInv, [FoNext]_fovars PROVE FoInv'
    OBVIOUS
<1>1. FoTypes /\ fo_kind \in FoKinds /\ NoPageFails
    BY DEF FoInv, FoTypes
<1>2. FoIdle \in FoWorks /\ FoIdle.at = "none" /\ FoIdle.n = 0
    BY DEF FoIdle, FoWorks
<1>3. CASE UNCHANGED fovars
    BY <1>3 DEF FoInv, FoTypes, NoPageFails, Writes, File, fovars
<1>4. ASSUME NEW text \in FileNames, CacheExpires(text)
      PROVE  FoInv'
    <2>1. fo_cache' = [fo_cache EXCEPT ![text] = "none"] /\ UNCHANGED <<fo_kind, fo_files, fo_workers, fo_shown, fo_broken>>
        BY <1>4 DEF CacheExpires
    <2>2. fo_cache' \in [FileNames -> FileStates]
        BY <1>1, <2>1 DEF FoTypes, FileStates
    <2> QED BY <2>1, <2>2 DEF FoInv, FoTypes, NoPageFails, Writes, File
<1>5. ASSUME NEW w \in FoWorkers, GetResult(w)
      PROVE  FoInv'
    <2> DEFINE found == fo_files[Sought(fo_kind)] # "none"
               work == [FoIdle EXCEPT !.at = IF found THEN "cache" ELSE "service", !.n = 1]
    <2>1. fo_workers[w].at = "none" /\ SetWorker(w, work) /\ UNCHANGED <<fo_kind, fo_files, fo_cache, fo_shown, fo_broken>>
        BY <1>5 DEF GetResult
    <2>2. work \in FoWorks /\ work.n = 1 /\ work.at = (IF found THEN "cache" ELSE "service")
        <3>1. 1 \in 0 .. 3
            OBVIOUS
        <3>2. \A at \in {"cache", "service"} :
                 LET new == [FoIdle EXCEPT !.at = at, !.n = 1] IN new \in FoWorks /\ new.n = 1 /\ new.at = at
            BY <3>1 DEF FoWorks, FoIdle
        <3> QED BY <3>2
    <2>3. Sought(fo_kind) = File(3) /\ 1 \in 1 .. Len(Texts(fo_kind)) /\ 1 \in 1 .. 3
        <3>1. Sought(fo_kind) = File(3) /\ Len(Texts(fo_kind)) \in 1 .. 3
            BY <1>1, FilesAre DEF File
        <3> DEFINE length == Len(Texts(fo_kind))
        <3> HIDE DEF length
        <3>2. length \in 1 .. 3 => 1 \in 1 .. length /\ 1 \in 1 .. 3
            OBVIOUS
        <3> QED BY <3>1, <3>2 DEF length
    <2> HIDE DEF work
    <2>4. NoPageFails' /\ fo_cache' \in [FileNames -> FileStates] /\ fo_broken' \subseteq FileNames
        BY <1>1, <2>1 DEF NoPageFails, FoTypes
    <2> QED BY <2>1, <2>2, <2>3, <2>4, FilesStay
<1>6. ASSUME NEW w \in FoWorkers, ServiceFails(w)
      PROVE  FoInv'
    <2>1. /\ fo_workers[w].at = "service" /\ SetWorker(w, FoIdle) /\ fo_shown' = fo_shown \cup {"text"}
          /\ UNCHANGED <<fo_kind, fo_files, fo_cache, fo_broken>>
        BY <1>6 DEF ServiceFails, FoDone
    <2>2. NoPageFails' /\ fo_cache' \in [FileNames -> FileStates] /\ fo_broken' \subseteq FileNames
        BY <1>1, <2>1 DEF NoPageFails, FoTypes
    <2> QED BY <1>2, <2>1, <2>2, FilesStay
<1>7. ASSUME NEW w \in FoWorkers, ServiceAnswers(w)
      PROVE  FoInv'
    <2> DEFINE work == [fo_workers[w] EXCEPT !.at = "open"]
    <2>1. /\ fo_workers[w].at = "service" /\ SetWorker(w, work)
          /\ UNCHANGED <<fo_kind, fo_files, fo_cache, fo_shown, fo_broken>>
        BY <1>7 DEF ServiceAnswers
    <2>2. fo_workers[w] \in FoWorks /\ fo_workers[w].n = 1
        BY <1>1, <2>1 DEF FoInv, FoTypes
    <2>3. work \in FoWorks /\ work.n = 1 /\ work.at = "open" /\ 1 \in 1 .. 3
        BY <2>2 DEF FoWorks
    <2> HIDE DEF work
    <2>4. NoPageFails' /\ fo_cache' \in [FileNames -> FileStates] /\ fo_broken' \subseteq FileNames
        BY <1>1, <2>1 DEF NoPageFails, FoTypes
    <2> QED BY <2>1, <2>3, <2>4, FilesStay
<1>8. ASSUME NEW w \in FoWorkers, OpenFile(w)
      PROVE  FoInv'
    <2> DEFINE n == fo_workers[w].n
               work == [fo_workers[w] EXCEPT !.at = "write"]
    <2>1. /\ fo_workers[w].at = "open" /\ fo_files' = [fo_files EXCEPT ![File(n)] = "empty"] /\ SetWorker(w, work)
          /\ UNCHANGED <<fo_kind, fo_cache, fo_shown, fo_broken>>
        BY <1>8 DEF OpenFile, File
    <2>2. fo_workers[w] \in FoWorks /\ n \in 1 .. 3
        BY <1>1, <2>1 DEF FoInv, FoTypes
    <2>3. work \in FoWorks /\ work.n = n /\ work.at = "write"
        BY <2>2 DEF FoWorks
    <2>4. NoPageFails'
        BY <1>1, <2>1 DEF NoPageFails
    <2> HIDE DEF work
    <2>5. fo_workers[w].n = n
        OBVIOUS
    <2> HIDE DEF n
    <2> QED BY <2>1, <2>2, <2>3, <2>4, <2>5, FileMoves
<1>9. ASSUME NEW w \in FoWorkers, WriteFile(w)
      PROVE  FoInv'
    <2> DEFINE n == fo_workers[w].n
               work == IF n = 3 THEN FoIdle ELSE [fo_workers[w] EXCEPT !.at = "open", !.n = n + 1]
    <2>1. fo_workers[w].at = "write" /\ n \in 1 .. 3 /\ fo_workers[w] \in FoWorks /\ Len(FilesInOrder(fo_kind)) = 3
        BY <1>1, <1>9, FilesAre DEF WriteFile, FoInv, FoTypes
    <2>2. /\ fo_files' = [fo_files EXCEPT ![File(n)] = "ok"] /\ SetWorker(w, work)
          /\ UNCHANGED <<fo_kind, fo_cache>> /\ fo_shown' \subseteq fo_shown \cup {"image"}
          /\ fo_broken' = fo_broken \ {File(n)}
        BY <1>9, <2>1 DEF WriteFile, File, FoDone
    <2>3. work \in FoWorks /\ (work.at = "none" \/ (work.at = "open" /\ work.n = n + 1 /\ n < 3))
        <3>1. CASE n = 3
            BY <1>2, <3>1
        <3>2. CASE n # 3
            <4>1. n + 1 \in 1 .. 3 /\ n + 1 \in 0 .. 3 /\ n < 3
                BY <2>1, <3>2
            <4>2. [fo_workers[w] EXCEPT !.at = "open", !.n = n + 1] \in FoWorks
                BY <2>1, <4>1 DEF FoWorks
            <4> QED BY <2>1, <3>2, <4>1, <4>2 DEF FoWorks
        <3> QED BY <3>1, <3>2
    <2>4. NoPageFails'
        BY <1>1, <2>2 DEF NoPageFails
    <2>5. fo_workers[w].n = n
        OBVIOUS
    <2> HIDE DEF work, n
    <2>6. fo_broken' \subseteq fo_broken /\ fo_broken \subseteq fo_broken' \cup {File(n)}
        BY <2>2
    <2> QED BY <2>1, <2>2, <2>3, <2>4, <2>5, <2>6, FileMoves
<1>10. ASSUME NEW w \in FoWorkers, FoDies(w)
       PROVE  FoInv'
    <2>1. /\ fo_workers[w].at \in {"open", "write"} /\ SetWorker(w, FoIdle) /\ UNCHANGED <<fo_kind, fo_files, fo_cache, fo_shown>>
          /\ fo_broken' = IF fo_workers[w].at = "write" THEN fo_broken \cup {File(fo_workers[w].n)} ELSE fo_broken
        BY <1>10 DEF FoDies, File
    <2>2. fo_workers[w].n \in 1 .. 3 /\ File(fo_workers[w].n) \in FileNames
        BY <1>1, <2>1, FilesAre DEF FoInv, File
    <2>3. NoPageFails' /\ fo_cache' \in [FileNames -> FileStates] /\ fo_broken' \subseteq FileNames
        BY <1>1, <2>1, <2>2 DEF NoPageFails, FoTypes
    <2> QED BY <1>2, <2>1, <2>3, FilesStay
<1>11. ASSUME NEW w \in FoWorkers, QueryCache(w)
       PROVE  FoInv'
    <2> DEFINE worker == fo_workers[w]
               text == Texts(fo_kind)[worker.n]
               read == IF fo_cache[text] # "none" THEN fo_cache[text] ELSE fo_files[text]
               got == IF read = "ok" THEN worker.got ELSE "blank"
               fails == read = "none" \/ (read = "empty" /\ fo_kind = "texoid")
    <2>1. /\ worker.at = "cache" /\ UNCHANGED <<fo_kind, fo_files, fo_broken>>
          /\ IF fails THEN FoDone(w, "error") /\ UNCHANGED fo_cache
             ELSE /\ fo_cache' = [fo_cache EXCEPT ![text] = read]
                  /\ IF worker.n = Len(Texts(fo_kind)) THEN FoDone(w, got)
                     ELSE SetWorker(w, [worker EXCEPT !.n = @ + 1, !.got = got]) /\ UNCHANGED fo_shown
        BY <1>11 DEF QueryCache
    <2>2. worker \in FoWorks /\ worker.n \in 1 .. Len(Texts(fo_kind)) /\ fo_files[File(3)] # "none"
        BY <1>1, <2>1 DEF FoInv, FoTypes
    <2>3. text \in FileNames /\ \E i \in 1 .. 3 : text = File(i)
        BY <1>1, <2>2, FilesAre DEF File
    <2>4. fo_files[text] # "none"
        BY <2>2, <2>3 DEF FoInv
    <2>5. read \in FileStates /\ read # "none" /\ got \in {"image", "blank"}
        BY <1>1, <2>2, <2>3, <2>4 DEF FoTypes, FoWorks
    <2>6. fo_cache' \in [FileNames -> FileStates]
        BY <1>1, <2>1, <2>5 DEF FoTypes
    <2>7. fo_broken' \subseteq FileNames /\ fo_broken' = fo_broken /\ fo_workers[w].at # "write"
        BY <1>1, <2>1 DEF FoTypes
    <2>8. CASE fails
        <3>1. SetWorker(w, FoIdle) /\ fo_shown' = fo_shown \cup {"error"} /\ fo_kind = "texoid"
            BY <2>1, <2>5, <2>8 DEF FoDone
        <3>2. NoPageFails'
            BY <2>1, <3>1 DEF NoPageFails
        <3> QED BY <1>2, <2>1, <2>6, <2>7, <3>1, <3>2, FilesStay
    <2>9. CASE ~fails /\ worker.n = Len(Texts(fo_kind))
        <3>1. SetWorker(w, FoIdle) /\ fo_shown' = fo_shown \cup {got}
            BY <2>1, <2>9 DEF FoDone
        <3>2. NoPageFails'
            BY <1>1, <2>1, <2>5, <3>1 DEF NoPageFails
        <3> QED BY <1>2, <2>1, <2>6, <2>7, <3>1, <3>2, FilesStay
    <2>10. CASE ~fails /\ worker.n # Len(Texts(fo_kind))
        <3> DEFINE work == [worker EXCEPT !.n = @ + 1, !.got = got]
        <3>1. SetWorker(w, work) /\ UNCHANGED fo_shown
            BY <2>1, <2>10
        <3>2. worker.n + 1 \in 1 .. Len(Texts(fo_kind)) /\ worker.n + 1 \in 1 .. 3
            <4>1. Len(Texts(fo_kind)) \in 1 .. 3
                BY <1>1, FilesAre
            <4> DEFINE length == Len(Texts(fo_kind))
                       n == worker.n
            <4> HIDE DEF length, n
            <4>2. length \in 1 .. 3 /\ n \in 1 .. length /\ n # length => n + 1 \in 1 .. length /\ n + 1 \in 1 .. 3
                OBVIOUS
            <4> QED BY <2>2, <2>10, <4>1, <4>2 DEF length, n
        <3>3. work \in FoWorks /\ work.at = "cache" /\ work.n = worker.n + 1
            <4> HIDE DEF got
            <4>1. worker.n + 1 \in 0 .. 3
                BY <3>2
            <4> QED BY <2>1, <2>2, <2>5, <4>1 DEF FoWorks
        <3>4. NoPageFails'
            BY <1>1, <2>1, <3>1 DEF NoPageFails
        <3> HIDE DEF work, worker
        <3>5. fo_workers[w].at # "write"
            BY <2>7
        <3> QED BY <2>1, <2>2, <2>6, <2>7, <3>1, <3>2, <3>3, <3>4, <3>5, FilesStay
    <2> QED BY <2>8, <2>9, <2>10
<1> QED BY <1>3, <1>4, <1>5, <1>6, <1>7, <1>8, <1>9, <1>10, <1>11 DEF FoNext

\* A formula that is found has its files, and mathoid's pages do not fail.
LEMMA FoInvHolds == FoInv => FormulasHold
<1> SUFFICES ASSUME FoInv PROVE FormulasHold
    OBVIOUS
<1>1. fo_kind \in FoKinds /\ FoTypes
    BY DEF FoInv, FoTypes
<1>2. DOMAIN FilesInOrder(fo_kind) = 1 .. 3 /\ Sought(fo_kind) = File(3) /\ \A i \in 1 .. 3 : File(i) \in FileNames
    BY <1>1, FilesAre DEF File
<1>3. FilesComplete
    <2> SUFFICES ASSUME fo_files[Sought(fo_kind)] # "none", NEW i \in 1 .. 3
                 PROVE  fo_files[File(i)] = "ok" \/ (fo_files[File(i)] = "empty" /\ File(i) \in BeingWritten \cup fo_broken)
        BY <1>2 DEF FilesComplete, StoredFiles, File
    <2>1. fo_files[File(i)] \in {"empty", "ok"}
        BY <1>1, <1>2 DEF FoInv, FoTypes, FileStates
    <2>2. \A w \in FoWorkers : Writes(w, File(i)) => File(i) \in BeingWritten
        BY DEF Writes, BeingWritten, File
    <2> QED BY <2>1, <2>2 DEF FoInv
<1> QED BY <1>3 DEF FoInv, FormulasHold

-----------------------------------------------------------------------------
(* Mails.                                                                  *)

Mailed(n) == {e \in MlErrors : ml_errors[e].in = n /\ ml_errors[e].at \in {"mails", "mailed"}}
Logged == {e \in MlErrors : ml_errors[e].at # "none"}
Quota(n) == IF n < Throttle THEN n ELSE Throttle - 1

MlTypes ==
    /\ ml_counter \in Nat \cup {NoEntry} /\ ml_period \in 0 .. MaxPeriods
    /\ ml_counts \in [1 .. MaxPeriods -> Nat]
    /\ ml_errors \in [MlErrors -> [at : {"none", "count", "dropped", "mails", "mailed"}, in : 0 .. MaxPeriods]]
    /\ IsFiniteSet(Logged)

\* The counter has counted the errors of its life; none is counted in a life to come.
MlInv ==
    /\ MlTypes
    /\ ml_counter # NoEntry => ml_period \in 1 .. MaxPeriods /\ ml_counter = ml_counts[ml_period]
    /\ \A n \in 1 .. MaxPeriods : n > ml_period => ml_counts[n] = 0
    /\ \A e \in MlErrors : /\ ml_errors[e].at \in {"none", "count"} => ml_errors[e].in = 0 /\ e \notin ml_lapses
                           /\ ml_errors[e].at = "dropped" => ml_errors[e].in # 0 /\ e \notin ml_lapses
    /\ \A n \in 1 .. MaxPeriods : Cardinality(Mailed(n)) = Quota(ml_counts[n])

\* Before the first error nothing is counted.
LEMMA MlInitInv == MailAssumption /\ MlInit => MlInv
<1> SUFFICES ASSUME MailAssumption, MlInit PROVE MlInv
    OBVIOUS
<1>1. MaxPeriods \in Nat /\ Throttle \in Nat /\ Throttle > 0 /\ 0 \in 0 .. MaxPeriods
    BY DEF MailAssumption
<1>2. Logged = {} /\ \A n : Mailed(n) = {}
    BY DEF Logged, Mailed, MlInit
<1>3. Cardinality({}) = 0 /\ IsFiniteSet({})
    BY FS_EmptySet
<1>4. MlTypes
    BY <1>1, <1>2, <1>3 DEF MlInit, MlTypes, NoEntry
<1>5. \A n \in 1 .. MaxPeriods : Cardinality(Mailed(n)) = Quota(ml_counts[n])
    BY <1>1, <1>2, <1>3 DEF MlInit, Quota
<1> QED BY <1>4, <1>5 DEF MlInv, MlInit, NoEntry

\* A step of an error changes its own entry alone.
LEMMA MlMoves ==
    ASSUME MlTypes, NEW e \in MlErrors, NEW at \in {"none", "count", "dropped", "mails", "mailed"}, NEW in \in 0 .. MaxPeriods,
           MlTo(e, at, in), at # "none"
    PROVE  /\ ml_errors' \in [MlErrors -> [at : {"none", "count", "dropped", "mails", "mailed"}, in : 0 .. MaxPeriods]]
           /\ ml_errors'[e].at = at /\ ml_errors'[e].in = in
           /\ \A o \in MlErrors \ {e} : ml_errors'[o] = ml_errors[o]
           /\ IsFiniteSet(Logged)'
<1>1. ml_errors' \in [MlErrors -> [at : {"none", "count", "dropped", "mails", "mailed"}, in : 0 .. MaxPeriods]]
    BY DEF MlTypes, MlTo
<1>2. ml_errors'[e].at = at /\ ml_errors'[e].in = in
    BY DEF MlTypes, MlTo
<1>3. \A o \in MlErrors \ {e} : ml_errors'[o] = ml_errors[o]
    BY DEF MlTypes, MlTo
<1>4. Logged' = Logged \cup {e}
    BY <1>2, <1>3 DEF Logged
<1>5. IsFiniteSet(Logged')
    BY <1>4, FS_AddElement DEF MlTypes
<1> QED BY <1>1, <1>2, <1>3, <1>5

\* However the handlers overlap, a life of the counter mails the first of its errors.
LEMMA MlStepInv == MailAssumption /\ MlInv /\ [MlNext]_mlvars => MlInv'
<1> SUFFICES ASSUME MailAssumption, MlInv, [MlNext]_mlvars PROVE MlInv'
    OBVIOUS
<1>1. MlTypes /\ MaxPeriods \in Nat /\ Throttle \in Nat /\ Throttle > 0
    BY DEF MlInv, MailAssumption
<1>2. CASE UNCHANGED mlvars
    BY <1>2 DEF MlInv, MlTypes, mlvars, Mailed, Logged
<1>3. CASE CounterExpires
    BY <1>3, <1>1 DEF CounterExpires, MlInv, MlTypes, Mailed, Logged
<1>4. ASSUME NEW e \in MlErrors, AddCounter(e)
      PROVE  MlInv'
    <2>1. ml_errors[e].at = "none" /\ MlTo(e, "count", 0) /\ UNCHANGED <<ml_counts, ml_lapses>>
        BY <1>4 DEF AddCounter
    <2>2. 0 \in 0 .. MaxPeriods
        BY <1>1
    <2>3. /\ ml_errors' \in [MlErrors -> [at : {"none", "count", "dropped", "mails", "mailed"}, in : 0 .. MaxPeriods]]
          /\ ml_errors'[e].at = "count" /\ ml_errors'[e].in = 0
          /\ \A o \in MlErrors \ {e} : ml_errors'[o] = ml_errors[o]
          /\ IsFiniteSet(Logged)'
        BY <1>1, <2>1, <2>2, MlMoves
    <2>4. /\ ml_counter' \in Nat \cup {NoEntry} /\ ml_period' \in 0 .. MaxPeriods /\ ml_period' >= ml_period
          /\ ml_counter' # NoEntry => ml_period' \in 1 .. MaxPeriods /\ ml_counter' = ml_counts[ml_period']
        BY <1>1, <1>4 DEF AddCounter, MlInv, MlTypes, NoEntry
    <2>5. \A n : Mailed(n)' = Mailed(n)
        BY <2>1, <2>3 DEF Mailed
    <2>6. \A n \in 1 .. MaxPeriods : n > ml_period' => ml_counts[n] = 0
        BY <1>1, <2>4 DEF MlInv, MlTypes
    <2>7. MlTypes'
        BY <1>1, <2>1, <2>3, <2>4 DEF MlTypes
    <2>8. \A o \in MlErrors : /\ ml_errors'[o].at \in {"none", "count"} => ml_errors'[o].in = 0 /\ o \notin ml_lapses
                              /\ ml_errors'[o].at = "dropped" => ml_errors'[o].in # 0 /\ o \notin ml_lapses
        BY <2>1, <2>3 DEF MlInv
    <2> QED BY <2>1, <2>4, <2>5, <2>6, <2>7, <2>8 DEF MlInv
<1>5. ASSUME NEW e \in MlErrors, CountError(e)
      PROVE  MlInv'
    <2> DEFINE n == ml_period
               at == IF Drops(ml_counter + 1) THEN "dropped" ELSE "mails"
    <2>1. /\ ml_errors[e].at = "count" /\ ml_counter # NoEntry /\ ml_counter' = ml_counter + 1
          /\ ml_counts' = [ml_counts EXCEPT ![n] = @ + 1] /\ MlTo(e, at, n)
          /\ UNCHANGED <<ml_period, ml_lapses>>
        BY <1>5 DEF CountError
    <2>2. n \in 1 .. MaxPeriods /\ n \in 0 .. MaxPeriods /\ n # 0 /\ ml_counter = ml_counts[n] /\ ml_counter \in Nat
        BY <1>1, <2>1 DEF MlInv, MlTypes
    <2>3. /\ ml_errors' \in [MlErrors -> [at : {"none", "count", "dropped", "mails", "mailed"}, in : 0 .. MaxPeriods]]
          /\ ml_errors'[e].at = at /\ ml_errors'[e].in = n
          /\ \A o \in MlErrors \ {e} : ml_errors'[o] = ml_errors[o]
          /\ IsFiniteSet(Logged)'
        <3>1. at \in {"none", "count", "dropped", "mails", "mailed"} /\ at # "none"
            OBVIOUS
        <3> HIDE DEF at
        <3> QED BY <1>1, <2>1, <2>2, <3>1, MlMoves
    <2>4. /\ ml_counts' \in [1 .. MaxPeriods -> Nat] /\ ml_counts'[n] = ml_counts[n] + 1
          /\ \A m \in 1 .. MaxPeriods : m # n => ml_counts'[m] = ml_counts[m]
        BY <1>1, <2>1, <2>2 DEF MlTypes
    <2>5. MlTypes'
        BY <1>1, <2>1, <2>2, <2>3, <2>4 DEF MlTypes
    <2>6. /\ ml_counter' # NoEntry => ml_period' \in 1 .. MaxPeriods /\ ml_counter' = ml_counts'[ml_period']
          /\ \A m \in 1 .. MaxPeriods : m > ml_period' => ml_counts'[m] = 0
        BY <1>1, <2>1, <2>2, <2>4 DEF MlInv
    <2>7. \A o \in MlErrors : /\ ml_errors'[o].at \in {"none", "count"} => ml_errors'[o].in = 0 /\ o \notin ml_lapses'
                              /\ ml_errors'[o].at = "dropped" => ml_errors'[o].in # 0 /\ o \notin ml_lapses'
        BY <2>1, <2>2, <2>3 DEF MlInv
    <2>8. ASSUME NEW m \in 1 .. MaxPeriods
          PROVE  Cardinality(Mailed(m))' = Quota(ml_counts[m])'
        <3>1. Cardinality(Mailed(m)) = Quota(ml_counts[m])
            BY DEF MlInv
        <3>2. ml_errors[e].in = 0 /\ m # 0
            BY <1>1, <2>1 DEF MlInv
        <3>3. CASE m # n
            <4>1. Mailed(m)' = Mailed(m)
                BY <2>3, <3>2, <3>3 DEF Mailed
            <4> QED BY <3>1, <3>3, <4>1, <2>4 DEF Quota
        <3>4. CASE m = n /\ Drops(ml_counter + 1)
            <4>1. Mailed(m)' = Mailed(m)
                BY <2>3, <3>2, <3>4 DEF Mailed
            <4>2. ml_counts[n] + 1 >= Throttle /\ ml_counts[n] \in Nat
                BY <2>2, <3>4 DEF Drops
            <4> QED BY <1>1, <3>1, <3>4, <4>1, <4>2, <2>4 DEF Quota
        <3>5. CASE m = n /\ ~Drops(ml_counter + 1)
            <4>1. Mailed(m)' = Mailed(m) \cup {e} /\ e \notin Mailed(m)
                BY <2>3, <3>2, <3>5 DEF Mailed
            <4>2. ml_counts[n] + 1 < Throttle /\ ml_counts[n] < Throttle /\ ml_counts[n] \in Nat
                BY <1>1, <2>2, <3>5 DEF Drops
            <4>3. IsFiniteSet(Mailed(m))
                <5>1. Mailed(m) \subseteq Logged
                    BY DEF Mailed, Logged
                <5> QED BY <1>1, <5>1, FS_Subset DEF MlTypes
            <4>4. Cardinality(Mailed(m)') = Cardinality(Mailed(m)) + 1
                BY <4>1, <4>3, FS_AddElement
            <4> QED BY <3>1, <3>5, <4>2, <4>4, <2>4 DEF Quota
        <3> QED BY <3>3, <3>4, <3>5
    <2> QED BY <2>5, <2>6, <2>7, <2>8 DEF MlInv
<1>6. ASSUME NEW e \in MlErrors, CountFails(e) \/ SendMail(e)
      PROVE  MlInv'
    <2> DEFINE in == IF ml_errors[e].at = "count" THEN 0 ELSE ml_errors[e].in
               at == IF ml_errors[e].at = "count" THEN "mails" ELSE "mailed"
    <2>1. /\ ml_errors[e].at = "count" \/ ml_errors[e].at = "mails"
          /\ MlTo(e, at, in) /\ UNCHANGED <<ml_counter, ml_period, ml_counts>>
          /\ ml_lapses' \subseteq ml_lapses \cup {e}
        BY <1>6 DEF CountFails, SendMail
    <2>2. in \in 0 .. MaxPeriods /\ ml_errors[e].in = in
        BY <1>1, <2>1 DEF MlTypes, MlInv
    <2>3. /\ ml_errors' \in [MlErrors -> [at : {"none", "count", "dropped", "mails", "mailed"}, in : 0 .. MaxPeriods]]
          /\ ml_errors'[e].at = at /\ ml_errors'[e].in = in
          /\ \A o \in MlErrors \ {e} : ml_errors'[o] = ml_errors[o]
          /\ IsFiniteSet(Logged)'
        <3>1. at \in {"none", "count", "dropped", "mails", "mailed"} /\ at # "none"
            OBVIOUS
        <3> HIDE DEF at, in
        <3> QED BY <1>1, <2>1, <2>2, <3>1, MlMoves
    <2>4. MlTypes'
        BY <1>1, <2>1, <2>3 DEF MlTypes
    <2>5. ASSUME NEW n \in 1 .. MaxPeriods
          PROVE  Mailed(n)' = Mailed(n)
        <3>1. n # 0 /\ (ml_errors[e].at = "count" => ml_errors[e].in = 0)
            BY <1>1 DEF MlInv
        <3> QED BY <2>1, <2>2, <2>3, <3>1 DEF Mailed
    <2>6. \A o \in MlErrors : /\ ml_errors'[o].at \in {"none", "count"} => ml_errors'[o].in = 0 /\ o \notin ml_lapses'
                              /\ ml_errors'[o].at = "dropped" => ml_errors'[o].in # 0 /\ o \notin ml_lapses'
        BY <2>1, <2>3 DEF MlInv
    <2> QED BY <2>1, <2>4, <2>5, <2>6 DEF MlInv
<1> QED BY <1>2, <1>3, <1>4, <1>5, <1>6 DEF MlNext

\* What is mailed is what the counter lets through.
LEMMA MlInvHolds == MlInv => MailsHold
<1> SUFFICES ASSUME MlInv PROVE MailsHold
    OBVIOUS
<1>1. FirstErrorsMailed
    BY DEF MlInv, FirstErrorsMailed, Mailed, Quota
<1>2. UncountedAreMailed
    BY DEF MlInv, UncountedAreMailed
<1> QED BY <1>1, <1>2 DEF MailsHold

-----------------------------------------------------------------------------
(* Marks.                                                                  *)

MkSubs == [prob : MkProblems, result : {"none", "AC", "WA", "CE", "gone"}, in : BOOLEAN, points : MkWorths \cup {0}]
MkWorks == [at : {"free", "stored", "scored"}, sub : Nat, row : BOOLEAN, ok : BOOLEAN]

MkTypes ==
    /\ mk_subs \in Seq(MkSubs)
    /\ mk_worth \in [MkProblems -> MkWorths]
    /\ DOMAIN mk_keys = MkKeys
    /\ mk_judges \in [MkJudges -> MkWorks]
    /\ \A j \in MkJudges : mk_judges[j].at # "free" => mk_judges[j].sub \in DOMAIN mk_subs

\* Judge j finishes a submission to problem p and is going to delete the key k.
Covers(j, k, p) ==
    LET i == mk_judges[j].sub IN
    /\ mk_judges[j].at # "free" /\ mk_subs[i].prob = p
    /\ k \in ContestKeys => /\ mk_subs[i].in
                            /\ mk_judges[j].at = "stored" => mk_subs[i].result # "gone"
                            /\ mk_judges[j].at = "scored" => mk_judges[j].row

NowMarked(k) == Marked(k, mk_subs, mk_worth)

Covered ==
    \A k \in MkKeys : mk_keys[k] # NotKept =>
        \A p \in Differ(mk_keys[k], NowMarked(k)) :
            <<k, p>> \in mk_excused \/ \E j \in MkJudges : Covers(j, k, p)

\* What is kept, or about to be kept, of attempts is attempted.
Attempted ==
    ~mk_deleted => \A k \in MkKeys \ {"contest_complete"} :
        /\ mk_keys[k] # NotKept => mk_keys[k] \subseteq NowMarked(k)
        /\ mk_fill.key = k => mk_fill.problems \subseteq NowMarked(k)

MkInv == MkTypes /\ Covered /\ Attempted

\* Nothing is kept at first.
LEMMA MkInitInv ==
    ASSUME MarksAssumption, MkInit
    PROVE  MkInv
<1>1. MkTypes
    BY DEF MkInit, MkTypes, MarksAssumption, MkWorks, MkFree
<1>2. "none" \notin MkKeys
    BY DEF MkKeys, UserKeys, ContestKeys
<1>3. Covered
    BY DEF MkInit, Covered
<1>4. Attempted
    BY <1>2 DEF MkInit, Attempted, NoFill
<1> QED BY <1>1, <1>3, <1>4 DEF MkInv

\* A problem is marked because of a submission that counts.
LEMMA MarkedBy ==
    ASSUME NEW k, NEW subs, NEW worth, NEW p
    PROVE  p \in Marked(k, subs, worth) <=>
               \E i \in DOMAIN subs : subs[i].result # "gone" /\ Counts(k, subs[i], worth) /\ subs[i].prob = p
BY DEF Marked, MkRows

\* What a step changes of the marks is noted where it must be.
LEMMA TouchedIs ==
    ASSUME NEW k \in MkKeys, NEW p, ~(p \in NowMarked(k) <=> p \in NowMarked(k)')
    PROVE  <<k, p>> \in Touched
BY DEF Touched, NowMarked, Differ

\* What a step has to show of the keys that are kept.
LEMMA CoveredStep ==
    ASSUME Covered,
           \A k \in MkKeys : mk_keys'[k] # NotKept =>
               \/ /\ mk_keys'[k] = mk_keys[k]
                  /\ \A p : /\ <<k, p>> \in mk_excused => <<k, p>> \in mk_excused'
                            /\ ~(p \in NowMarked(k) <=> p \in NowMarked(k)') =>
                                   <<k, p>> \in mk_excused' \/ \E j \in MkJudges : Covers(j, k, p)'
                            /\ \A j \in MkJudges : Covers(j, k, p) =>
                                   <<k, p>> \in mk_excused' \/ \E o \in MkJudges : Covers(o, k, p)'
               \/ \A p \in Differ(mk_keys'[k], NowMarked(k)') : <<k, p>> \in mk_excused'
    PROVE  Covered'
<1> SUFFICES ASSUME NEW k \in MkKeys, mk_keys'[k] # NotKept, NEW p \in Differ(mk_keys'[k], NowMarked(k)')
             PROVE  <<k, p>> \in mk_excused' \/ \E j \in MkJudges : Covers(j, k, p)'
    BY DEF Covered
<1>1. CASE \A q \in Differ(mk_keys'[k], NowMarked(k)') : <<k, q>> \in mk_excused'
    BY <1>1
<1>2. CASE /\ mk_keys'[k] = mk_keys[k]
           /\ \A q : /\ <<k, q>> \in mk_excused => <<k, q>> \in mk_excused'
                     /\ ~(q \in NowMarked(k) <=> q \in NowMarked(k)') =>
                            <<k, q>> \in mk_excused' \/ \E j \in MkJudges : Covers(j, k, q)'
                     /\ \A j \in MkJudges : Covers(j, k, q) =>
                            <<k, q>> \in mk_excused' \/ \E o \in MkJudges : Covers(o, k, q)'
    <2>1. CASE p \in Differ(mk_keys[k], NowMarked(k))
        BY <1>2, <2>1 DEF Covered
    <2>2. CASE p \notin Differ(mk_keys[k], NowMarked(k))
        <3>1. ~(p \in NowMarked(k) <=> p \in NowMarked(k)')
            BY <1>2, <2>2 DEF Differ
        <3> QED BY <1>2, <3>1
    <2> QED BY <2>1, <2>2
<1> QED BY <1>1, <1>2

\* A submission that is made adds to the marks.
LEMMA SubmitInv ==
    ASSUME MkInv, NEW q \in MkProblems, NEW in \in BOOLEAN, MkSubmit(q, in)
    PROVE  MkInv'
<1> USE DEF MkInv, MkTypes
<1> DEFINE s == [prob |-> q, result |-> "none", in |-> in, points |-> 0]
<1>1. /\ s \in MkSubs /\ mk_subs' = Append(mk_subs, s) /\ mk_worth' = mk_worth
      /\ DOMAIN mk_subs \subseteq DOMAIN mk_subs'
      /\ \A i \in DOMAIN mk_subs : mk_subs'[i] = mk_subs[i]
    BY DEF MkSubmit, MkSubs
<1>2. MkTypes'
    <2>1. mk_subs' \in Seq(MkSubs)
        BY <1>1
    <2> QED BY <1>1, <2>1 DEF MkSubmit
<1>3. ASSUME NEW k \in MkKeys, NEW p \in NowMarked(k)
      PROVE  p \in NowMarked(k)'
    <2>1. PICK i \in DOMAIN mk_subs : mk_subs[i].result # "gone" /\ Counts(k, mk_subs[i], mk_worth) /\ mk_subs[i].prob = p
        BY <1>3, MarkedBy DEF NowMarked
    <2>2. i \in DOMAIN mk_subs' /\ mk_subs'[i].result # "gone" /\ Counts(k, mk_subs'[i], mk_worth') /\ mk_subs'[i].prob = p
        BY <1>1, <2>1
    <2>3. p \in Marked(k, mk_subs', mk_worth')
        BY <2>2, MarkedBy
    <2> QED BY <2>3 DEF NowMarked
<1>4. ASSUME NEW k, NEW p, NEW j \in MkJudges, Covers(j, k, p)
      PROVE  Covers(j, k, p)'
    BY <1>1, <1>4 DEF MkSubmit, Covers
<1>5. Covered'
    <2>1. mk_keys' = mk_keys /\ mk_excused' = mk_excused \cup Touched
        BY DEF MkSubmit
    <2> QED BY <1>4, <2>1, TouchedIs, CoveredStep
<1>6. Attempted'
    BY <1>3 DEF MkSubmit, Attempted
<1> QED BY <1>2, <1>5, <1>6

\* What a step changes of one submission, which is not deleted by it, leaves attempts as they are;
\* solved in the contest changes for the problem of that submission alone.
LEMMA OneChanged ==
    ASSUME MkTypes, NEW i \in DOMAIN mk_subs, mk_worth' = mk_worth,
           mk_subs' \in Seq(MkSubs), DOMAIN mk_subs' = DOMAIN mk_subs,
           \A o \in DOMAIN mk_subs : o # i => mk_subs'[o] = mk_subs[o],
           mk_subs'[i].prob = mk_subs[i].prob, mk_subs'[i].in = mk_subs[i].in,
           mk_subs[i].result # "gone" <=> mk_subs'[i].result # "gone"
    PROVE  /\ \A k \in MkKeys \ {"contest_complete"} : NowMarked(k)' = NowMarked(k)
           /\ \A p : ~(p \in NowMarked("contest_complete") <=> p \in NowMarked("contest_complete")') =>
                         p = mk_subs[i].prob /\ mk_subs[i].in
           /\ \A j \in MkJudges : \A k, p : Covers(j, k, p) /\ mk_judges'[j] = mk_judges[j] => Covers(j, k, p)'
<1>1. ASSUME NEW k \in MkKeys \ {"contest_complete"}, NEW o \in DOMAIN mk_subs
      PROVE  /\ mk_subs[o].prob = mk_subs'[o].prob /\ (mk_subs[o].result # "gone" <=> mk_subs'[o].result # "gone")
             /\ Counts(k, mk_subs[o], mk_worth) <=> Counts(k, mk_subs'[o], mk_worth')
    <2>1. mk_subs[o].prob = mk_subs'[o].prob /\ mk_subs[o].in = mk_subs'[o].in
          /\ (mk_subs[o].result # "gone" <=> mk_subs'[o].result # "gone")
        BY <1>1
    <2>2. k \in {"user_attempted", "contest_attempted"}
        BY DEF MkKeys, UserKeys, ContestKeys
    <2> QED BY <2>1, <2>2 DEF Counts
<1>2. ASSUME NEW k \in MkKeys \ {"contest_complete"}
      PROVE  NowMarked(k)' = NowMarked(k)
    <2>1. ASSUME NEW p PROVE p \in NowMarked(k)' <=> p \in NowMarked(k)
        BY <1>1, MarkedBy DEF NowMarked
    <2>2. NowMarked(k) = {p \in MkProblems \cup NowMarked(k) \cup NowMarked(k)' : p \in NowMarked(k)}
        OBVIOUS
    <2> QED BY <2>1
<1>3. ASSUME NEW p, ~(p \in NowMarked("contest_complete") <=> p \in NowMarked("contest_complete")')
      PROVE  p = mk_subs[i].prob /\ mk_subs[i].in
    <2> DEFINE Here(o) == mk_subs[o].result # "gone" /\ Counts("contest_complete", mk_subs[o], mk_worth) /\ mk_subs[o].prob = p
               Then(o) == mk_subs'[o].result # "gone" /\ Counts("contest_complete", mk_subs'[o], mk_worth) /\ mk_subs'[o].prob = p
    <2>1. \A o \in DOMAIN mk_subs : o # i => (Here(o) <=> Then(o))
        OBVIOUS
    <2>2. ~((\E o \in DOMAIN mk_subs : Here(o)) <=> (\E o \in DOMAIN mk_subs : Then(o)))
        BY <1>3, MarkedBy DEF NowMarked
    <2>3. Here(i) \/ Then(i)
        <3> HIDE DEF Here, Then
        <3> QED BY <2>1, <2>2
    <2> QED BY <2>3 DEF Counts
<1>4. ASSUME NEW j \in MkJudges, NEW k, NEW p, Covers(j, k, p), mk_judges'[j] = mk_judges[j]
      PROVE  Covers(j, k, p)'
    <2>1. mk_judges[j].sub \in DOMAIN mk_subs
        BY <1>4 DEF Covers, MkTypes
    <2>2. CASE mk_judges[j].sub = i
        BY <1>4, <2>1, <2>2 DEF Covers
    <2>3. CASE mk_judges[j].sub # i
        BY <1>4, <2>1, <2>3 DEF Covers
    <2> QED BY <2>2, <2>3
<1> QED BY <1>2, <1>3, <1>4

\* One field of a submission is changed.
LEMMA FieldChanged ==
    ASSUME MkTypes, NEW i \in DOMAIN mk_subs, NEW r \in {"none", "AC", "WA", "CE", "gone"}, NEW w \in MkWorths \cup {0}
    PROVE  /\ [mk_subs EXCEPT ![i].result = r] \in Seq(MkSubs) /\ [mk_subs EXCEPT ![i].points = w] \in Seq(MkSubs)
           /\ DOMAIN [mk_subs EXCEPT ![i].result = r] = DOMAIN mk_subs
           /\ DOMAIN [mk_subs EXCEPT ![i].points = w] = DOMAIN mk_subs
           /\ \A o \in DOMAIN mk_subs : /\ o # i => [mk_subs EXCEPT ![i].result = r][o] = mk_subs[o]
                                        /\ o # i => [mk_subs EXCEPT ![i].points = w][o] = mk_subs[o]
           /\ [mk_subs EXCEPT ![i].result = r][i] = [mk_subs[i] EXCEPT !.result = r]
           /\ [mk_subs EXCEPT ![i].points = w][i] = [mk_subs[i] EXCEPT !.points = w]
<1>1. mk_subs[i] \in MkSubs
    BY DEF MkTypes
<1>2. [mk_subs[i] EXCEPT !.result = r] \in MkSubs /\ [mk_subs[i] EXCEPT !.points = w] \in MkSubs
    BY <1>1 DEF MkSubs
<1> QED BY <1>2 DEF MkTypes

\* A compilation that fails changes no mark.
LEMMA FailInv ==
    ASSUME MkInv, NEW i \in DOMAIN mk_subs, MkFail(i)
    PROVE  MkInv'
<1> USE DEF MkInv
<1>1. /\ mk_subs[i].result = "none" /\ mk_subs' = [mk_subs EXCEPT ![i].result = "CE"]
      /\ UNCHANGED <<mk_worth, mk_keys, mk_fill, mk_judges, mk_excused, mk_deleted>>
    BY DEF MkFail
<1>2. /\ mk_subs' \in Seq(MkSubs) /\ DOMAIN mk_subs' = DOMAIN mk_subs
      /\ \A o \in DOMAIN mk_subs : o # i => mk_subs'[o] = mk_subs[o]
      /\ mk_subs'[i] = [mk_subs[i] EXCEPT !.result = "CE"] /\ mk_subs[i] \in MkSubs
    <2>1. mk_subs[i] \in MkSubs
        BY DEF MkTypes
    <2> QED BY <1>1, <2>1, FieldChanged
<1>3. /\ mk_subs'[i].prob = mk_subs[i].prob /\ mk_subs'[i].in = mk_subs[i].in /\ mk_subs'[i].result = "CE"
    BY <1>2 DEF MkSubs
<1>4. /\ \A k \in MkKeys \ {"contest_complete"} : NowMarked(k)' = NowMarked(k)
      /\ \A j \in MkJudges : \A k, p : Covers(j, k, p) /\ mk_judges'[j] = mk_judges[j] => Covers(j, k, p)'
    BY <1>1, <1>2, <1>3, OneChanged
<1>5. ASSUME NEW p
      PROVE  p \in NowMarked("contest_complete") <=> p \in NowMarked("contest_complete")'
    <2>1. ASSUME NEW o \in DOMAIN mk_subs
          PROVE  (mk_subs[o].result # "gone" /\ Counts("contest_complete", mk_subs[o], mk_worth) /\ mk_subs[o].prob = p)
              <=> (mk_subs'[o].result # "gone" /\ Counts("contest_complete", mk_subs'[o], mk_worth) /\ mk_subs'[o].prob = p)
        BY <1>1, <1>2, <1>3 DEF Counts
    <2>2. p \in Marked("contest_complete", mk_subs, mk_worth) <=> p \in Marked("contest_complete", mk_subs', mk_worth')
        <3>1. /\ p \in Marked("contest_complete", mk_subs, mk_worth) <=>
                     \E o \in DOMAIN mk_subs : mk_subs[o].result # "gone" /\ Counts("contest_complete", mk_subs[o], mk_worth) /\ mk_subs[o].prob = p
              /\ p \in Marked("contest_complete", mk_subs', mk_worth') <=>
                     \E o \in DOMAIN mk_subs' : mk_subs'[o].result # "gone" /\ Counts("contest_complete", mk_subs'[o], mk_worth') /\ mk_subs'[o].prob = p
            BY MarkedBy
        <3> QED BY <1>1, <1>2, <2>1, <3>1
    <2> QED BY <2>2 DEF NowMarked
<1>6. MkTypes'
    BY <1>1, <1>2 DEF MkTypes
<1>7. Covered'
    <2>1. \A k \in MkKeys : \A p : p \in NowMarked(k) <=> p \in NowMarked(k)'
        BY <1>4, <1>5
    <2> QED BY <1>1, <1>4, <2>1, CoveredStep
<1>8. Attempted'
    BY <1>1, <1>4 DEF Attempted
<1> QED BY <1>6, <1>7, <1>8

\* A result that is stored may solve the problem of its submission, which a judge finishes from now on.
LEMMA StoreInv ==
    ASSUME MkInv, NEW j \in MkJudges, NEW i \in DOMAIN mk_subs, StoreResult(j, i)
    PROVE  MkInv'
<1> USE DEF MkInv
<1>1. PICK r \in {"AC", "WA"} :
          /\ mk_subs' = [mk_subs EXCEPT ![i].result = r]
          /\ mk_judges' = [mk_judges EXCEPT ![j] = [at |-> "stored", sub |-> i, row |-> FALSE, ok |-> (r = "AC")]]
    BY DEF StoreResult
<1>2. /\ mk_judges[j].at = "free" /\ mk_subs[i].result = "none"
      /\ UNCHANGED <<mk_worth, mk_keys, mk_fill, mk_excused, mk_deleted>>
    BY DEF StoreResult, MkFree
<1>3. /\ mk_subs' \in Seq(MkSubs) /\ DOMAIN mk_subs' = DOMAIN mk_subs
      /\ \A o \in DOMAIN mk_subs : o # i => mk_subs'[o] = mk_subs[o]
      /\ mk_subs'[i] = [mk_subs[i] EXCEPT !.result = r] /\ mk_subs[i] \in MkSubs
    <2>1. mk_subs[i] \in MkSubs
        BY DEF MkTypes
    <2> QED BY <1>1, <2>1, FieldChanged
<1>4. mk_subs'[i].prob = mk_subs[i].prob /\ mk_subs'[i].in = mk_subs[i].in /\ mk_subs'[i].result = r
    BY <1>3 DEF MkSubs
<1>5. /\ \A k \in MkKeys \ {"contest_complete"} : NowMarked(k)' = NowMarked(k)
      /\ \A p : ~(p \in NowMarked("contest_complete") <=> p \in NowMarked("contest_complete")') =>
                    p = mk_subs[i].prob /\ mk_subs[i].in
      /\ \A o \in MkJudges : \A k, p : Covers(o, k, p) /\ mk_judges'[o] = mk_judges[o] => Covers(o, k, p)'
    BY <1>2, <1>3, <1>4, OneChanged
<1>6. /\ mk_judges'[j].at = "stored" /\ mk_judges'[j].sub = i
      /\ \A o \in MkJudges : o # j => mk_judges'[o] = mk_judges[o]
      /\ mk_judges' \in [MkJudges -> MkWorks]
    <2>1. [at |-> "stored", sub |-> i, row |-> FALSE, ok |-> (r = "AC")] \in MkWorks
        BY DEF MkTypes, MkWorks
    <2> QED BY <1>1, <2>1 DEF MkTypes
<1>7. MkTypes'
    BY <1>2, <1>3, <1>6 DEF MkTypes
<1>8. Covered'
    <2>1. ASSUME NEW k \in MkKeys, NEW p, ~(p \in NowMarked(k) <=> p \in NowMarked(k)')
          PROVE  Covers(j, k, p)'
        <3>1. p = mk_subs[i].prob /\ mk_subs[i].in
            BY <1>5, <2>1
        <3> QED BY <1>4, <1>6, <3>1 DEF Covers
    <2>2. ASSUME NEW k \in MkKeys, NEW p, NEW o \in MkJudges, Covers(o, k, p)
          PROVE  Covers(o, k, p)'
        <3>1. o # j
            BY <1>2, <2>2 DEF Covers
        <3> QED BY <1>5, <1>6, <2>2, <3>1
    <2> QED BY <1>2, <2>1, <2>2, CoveredStep
<1>9. Attempted'
    BY <1>2, <1>5 DEF Attempted
<1> QED BY <1>7, <1>8, <1>9

\* So may the points of the contest: a judge that finds the row is going to delete its keys.
LEMMA ScoreInv ==
    ASSUME MkInv, MarksAssumption, NEW j \in MkJudges, UpdateContest(j)
    PROVE  MkInv'
<1> USE DEF MkInv
<1> DEFINE i == mk_judges[j].sub
           found == mk_subs[i].in /\ mk_subs[i].result # "gone"
           earned == Earned(mk_subs[i], mk_judges[j].ok)
<1>1. /\ mk_judges[j].at = "stored" /\ i \in DOMAIN mk_subs /\ mk_subs[i] \in MkSubs
      /\ mk_subs' = IF found THEN [mk_subs EXCEPT ![i].points = earned] ELSE mk_subs
      /\ mk_judges' = [mk_judges EXCEPT ![j].at = "scored", ![j].row = found]
      /\ UNCHANGED <<mk_worth, mk_keys, mk_fill, mk_excused, mk_deleted>>
    <2>1. mk_judges[j].at = "stored" /\ i \in DOMAIN mk_subs
        BY DEF UpdateContest, MkTypes
    <2> QED BY <2>1 DEF UpdateContest, MkTypes
<1>2. mk_subs[i].prob \in MkProblems /\ found \in BOOLEAN /\ mk_judges[j] \in MkWorks
    BY <1>1 DEF MkSubs, MkTypes
<1>3. earned \in MkWorths \cup {0}
    BY <1>2 DEF Earned, MkTypes
<1>4. /\ mk_judges'[j].at = "scored" /\ mk_judges'[j].row = found /\ mk_judges'[j].sub = i
      /\ \A o \in MkJudges : o # j => mk_judges'[o] = mk_judges[o]
      /\ mk_judges' \in [MkJudges -> MkWorks]
    <2>1. [mk_judges[j] EXCEPT !.at = "scored", !.row = found] \in MkWorks
        BY <1>2 DEF MkWorks
    <2>2. mk_judges' = [mk_judges EXCEPT ![j] = [mk_judges[j] EXCEPT !.at = "scored", !.row = found]]
        BY <1>1
    <2>3. /\ [mk_judges[j] EXCEPT !.at = "scored", !.row = found].at = "scored"
          /\ [mk_judges[j] EXCEPT !.at = "scored", !.row = found].row = found
          /\ [mk_judges[j] EXCEPT !.at = "scored", !.row = found].sub = i
        BY <1>2 DEF MkWorks
    <2> HIDE DEF i, found
    <2> QED BY <2>1, <2>2, <2>3 DEF MkTypes
<1>5. /\ mk_subs' \in Seq(MkSubs) /\ DOMAIN mk_subs' = DOMAIN mk_subs
      /\ \A o \in DOMAIN mk_subs : o # i => mk_subs'[o] = mk_subs[o]
      /\ mk_subs'[i] = mk_subs[i] \/ mk_subs'[i] = [mk_subs[i] EXCEPT !.points = earned]
    <2>1. CASE found
        <3> HIDE DEF earned, found
        <3> QED BY <1>1, <1>3, <2>1, FieldChanged
    <2>2. CASE ~found
        BY <1>1, <2>2 DEF MkTypes
    <2> QED BY <2>1, <2>2
<1>6. mk_subs'[i].prob = mk_subs[i].prob /\ mk_subs'[i].in = mk_subs[i].in /\ mk_subs'[i].result = mk_subs[i].result
    BY <1>1, <1>5 DEF MkSubs
<1>7. /\ \A k \in MkKeys \ {"contest_complete"} : NowMarked(k)' = NowMarked(k)
      /\ \A p : ~(p \in NowMarked("contest_complete") <=> p \in NowMarked("contest_complete")') =>
                    p = mk_subs[i].prob /\ mk_subs[i].in
      /\ \A o \in MkJudges : \A k, p : Covers(o, k, p) /\ mk_judges'[o] = mk_judges[o] => Covers(o, k, p)'
    BY <1>1, <1>5, <1>6, OneChanged
<1>8. MkTypes'
    BY <1>1, <1>4, <1>5 DEF MkTypes
<1>9. Covered'
    <2>1. ASSUME NEW k \in MkKeys, NEW p, ~(p \in NowMarked(k) <=> p \in NowMarked(k)')
          PROVE  Covers(j, k, p)'
        <3>1. p = mk_subs[i].prob /\ found
            <4>1. CASE found
                BY <1>7, <2>1, <4>1
            <4>2. CASE ~found
                BY <1>1, <2>1, <4>2 DEF NowMarked
            <4> QED BY <4>1, <4>2
        <3> QED BY <1>4, <1>6, <3>1 DEF Covers
    <2>2. ASSUME NEW k \in MkKeys, NEW p, NEW o \in MkJudges, Covers(o, k, p)
          PROVE  Covers(o, k, p)'
        <3>1. CASE o = j
            <4>1. mk_subs[i].prob = p /\ (k \in ContestKeys => found)
                BY <1>1, <2>2, <3>1 DEF Covers
            <4> QED BY <1>4, <1>6, <3>1, <4>1 DEF Covers
        <3>2. CASE o # j
            BY <1>4, <1>7, <2>2, <3>2
        <3> QED BY <3>1, <3>2
    <2> QED BY <1>1, <2>1, <2>2, CoveredStep
<1>10. Attempted'
    BY <1>1, <1>7 DEF Attempted
<1> QED BY <1>8, <1>9, <1>10

\* The keys a judge covers are deleted when it ends.
LEMMA FinishedInv ==
    ASSUME MkInv, NEW j \in MkJudges, FinishedSubmission(j)
    PROVE  MkInv'
<1> USE DEF MkInv
<1> DEFINE keys == KeysDeleted(mk_judges[j].row)
<1>1. /\ mk_judges[j].at = "scored" /\ mk_keys' = Without(keys) /\ mk_excused' = ExcusedBut(keys)
      /\ mk_judges' = [mk_judges EXCEPT ![j] = MkFree]
      /\ UNCHANGED <<mk_subs, mk_worth, mk_fill, mk_deleted>>
    BY DEF FinishedSubmission
<1>2. mk_judges'[j] = MkFree /\ \A o \in MkJudges : o # j => mk_judges'[o] = mk_judges[o]
    BY <1>1 DEF MkTypes
<1>3. MkTypes'
    <2>1. MkFree \in MkWorks
        BY DEF MkFree, MkWorks
    <2> QED BY <1>1, <1>2, <2>1 DEF MkTypes, Without, MkFree
<1>4. \A k \in MkKeys : NowMarked(k)' = NowMarked(k)
    BY <1>1 DEF NowMarked
<1>5. ASSUME NEW k \in MkKeys, mk_keys'[k] # NotKept
      PROVE  k \notin keys /\ mk_keys'[k] = mk_keys[k] /\ \A p : <<k, p>> \in mk_excused => <<k, p>> \in mk_excused'
    BY <1>1, <1>5 DEF Without, ExcusedBut
<1>6. Covered'
    <2>1. ASSUME NEW k \in MkKeys, mk_keys'[k] # NotKept, NEW p, NEW o \in MkJudges, Covers(o, k, p)
          PROVE  Covers(o, k, p)'
        <3>1. k \notin keys
            BY <1>5, <2>1
        <3>2. k \in ContestKeys /\ ~mk_judges[j].row
            BY <3>1 DEF KeysDeleted, MkKeys
        <3>3. o # j
            BY <1>1, <2>1, <3>2 DEF Covers
        <3> QED BY <1>1, <1>2, <2>1, <3>3 DEF Covers
    <2> QED BY <1>4, <1>5, <2>1, CoveredStep
<1>7. Attempted'
    BY <1>1, <1>4, <1>5 DEF Attempted
<1> QED BY <1>3, <1>6, <1>7

\* A rejudge takes a result away, and notes what that changes.
LEMMA RejudgeInv ==
    ASSUME MkInv, NEW i \in DOMAIN mk_subs, MkRejudge(i)
    PROVE  MkInv'
<1> USE DEF MkInv
<1>1. /\ mk_subs[i].result \in {"AC", "WA", "CE"} /\ mk_subs' = [mk_subs EXCEPT ![i].result = "none"]
      /\ UNCHANGED <<mk_worth, mk_keys, mk_fill, mk_judges, mk_deleted>>
      /\ mk_excused' = mk_excused \cup Touched
    BY DEF MkRejudge
<1>2. /\ mk_subs' \in Seq(MkSubs) /\ DOMAIN mk_subs' = DOMAIN mk_subs
      /\ \A o \in DOMAIN mk_subs : o # i => mk_subs'[o] = mk_subs[o]
      /\ mk_subs'[i] = [mk_subs[i] EXCEPT !.result = "none"] /\ mk_subs[i] \in MkSubs
    <2>1. mk_subs[i] \in MkSubs
        BY DEF MkTypes
    <2> QED BY <1>1, <2>1, FieldChanged
<1>3. /\ mk_subs'[i].prob = mk_subs[i].prob /\ mk_subs'[i].in = mk_subs[i].in /\ mk_subs'[i].result = "none"
    BY <1>2 DEF MkSubs
<1>4. /\ \A k \in MkKeys \ {"contest_complete"} : NowMarked(k)' = NowMarked(k)
      /\ \A j \in MkJudges : \A k, p : Covers(j, k, p) /\ mk_judges'[j] = mk_judges[j] => Covers(j, k, p)'
    BY <1>1, <1>2, <1>3, OneChanged
<1>5. MkTypes'
    BY <1>1, <1>2 DEF MkTypes
<1>6. Covered'
    BY <1>1, <1>4, TouchedIs, CoveredStep
<1>7. Attempted'
    BY <1>1, <1>4 DEF Attempted
<1> QED BY <1>5, <1>6, <1>7

\* A problem that is worth something else is noted.
LEMMA EditInv ==
    ASSUME MkInv, NEW q \in MkProblems, NEW worth \in MkWorths, EditWorth(q, worth)
    PROVE  MkInv'
<1> USE DEF MkInv
<1>1. /\ mk_worth' = [mk_worth EXCEPT ![q] = worth] /\ mk_excused' = mk_excused \cup Touched
      /\ UNCHANGED <<mk_subs, mk_keys, mk_fill, mk_judges, mk_deleted>>
    BY DEF EditWorth
<1>2. MkTypes'
    BY <1>1 DEF MkTypes
<1>3. ASSUME NEW k \in MkKeys \ {"contest_complete"}
      PROVE  NowMarked(k)' = NowMarked(k)
    <2>1. k \in {"user_attempted", "contest_attempted"}
        BY DEF MkKeys, UserKeys, ContestKeys
    <2>2. \A s : Counts(k, s, mk_worth) <=> Counts(k, s, mk_worth')
        BY <2>1 DEF Counts
    <2> QED BY <1>1, <2>2 DEF NowMarked, Marked
<1>4. \A j \in MkJudges : \A k, p : Covers(j, k, p) => Covers(j, k, p)'
    BY <1>1 DEF Covers
<1>5. Covered'
    BY <1>1, <1>4, TouchedIs, CoveredStep
<1>6. Attempted'
    BY <1>1, <1>3 DEF Attempted
<1> QED BY <1>2, <1>5, <1>6

\* Rescoring deletes the keys of the user, and notes what it changes of those of the contest.
LEMMA RecalculateInv ==
    ASSUME MkInv, MarksAssumption, NEW i \in DOMAIN mk_subs, Recalculate(i)
    PROVE  MkInv'
<1> USE DEF MkInv
<1> DEFINE earned == Earned(mk_subs[i], mk_subs[i].result = "AC")
<1>1. /\ mk_subs' = IF mk_subs[i].in THEN [mk_subs EXCEPT ![i].points = earned] ELSE mk_subs
      /\ UNCHANGED <<mk_worth, mk_fill, mk_judges, mk_deleted>>
      /\ mk_keys' = Without(UserKeys) /\ mk_excused' = ExcusedBut(UserKeys) \cup Touched
    BY DEF Recalculate
<1>2. mk_subs[i] \in MkSubs /\ mk_subs[i].prob \in MkProblems
    <2>1. mk_subs[i] \in MkSubs
        BY DEF MkTypes
    <2> QED BY <2>1 DEF MkSubs
<1>3. earned \in MkWorths \cup {0}
    BY <1>2 DEF Earned, MkTypes
<1>4. /\ mk_subs' \in Seq(MkSubs) /\ DOMAIN mk_subs' = DOMAIN mk_subs
      /\ \A o \in DOMAIN mk_subs : o # i => mk_subs'[o] = mk_subs[o]
      /\ mk_subs'[i] = mk_subs[i] \/ mk_subs'[i] = [mk_subs[i] EXCEPT !.points = earned]
    <2>1. CASE mk_subs[i].in
        <3> HIDE DEF earned
        <3> QED BY <1>1, <1>3, <2>1, FieldChanged
    <2>2. CASE ~mk_subs[i].in
        BY <1>1, <2>2 DEF MkTypes
    <2> QED BY <2>1, <2>2
<1>5. mk_subs'[i].prob = mk_subs[i].prob /\ mk_subs'[i].in = mk_subs[i].in /\ mk_subs'[i].result = mk_subs[i].result
    BY <1>2, <1>4 DEF MkSubs
<1>6. /\ \A k \in MkKeys \ {"contest_complete"} : NowMarked(k)' = NowMarked(k)
      /\ \A j \in MkJudges : \A k, p : Covers(j, k, p) /\ mk_judges'[j] = mk_judges[j] => Covers(j, k, p)'
    BY <1>1, <1>4, <1>5, OneChanged
<1>7. MkTypes'
    BY <1>1, <1>4 DEF MkTypes, Without
<1>8. ASSUME NEW k \in MkKeys, mk_keys'[k] # NotKept
      PROVE  mk_keys'[k] = mk_keys[k] /\ \A p : <<k, p>> \in mk_excused => <<k, p>> \in mk_excused'
    BY <1>1, <1>8 DEF Without, ExcusedBut
<1>9. Covered'
    BY <1>1, <1>6, <1>8, TouchedIs, CoveredStep
<1>10. Attempted'
    BY <1>1, <1>6, <1>8 DEF Attempted
<1> QED BY <1>7, <1>9, <1>10

\* A deletion that has begun deletes keys and changes no mark.
LEMMA DeleteInv ==
    ASSUME MkInv, NEW i \in DOMAIN mk_subs, DeleteSubmission(i)
    PROVE  MkInv'
<1> USE DEF MkInv
<1> DEFINE keys == KeysDeleted(FALSE)
<1>1. /\ UNCHANGED <<mk_subs, mk_worth, mk_fill, mk_judges, mk_deleted>>
      /\ mk_keys' = Without(keys) /\ mk_excused' = ExcusedBut(keys)
    BY DEF DeleteSubmission
<1>2. /\ \A k \in MkKeys : NowMarked(k)' = NowMarked(k)
      /\ \A j \in MkJudges : \A k, p : Covers(j, k, p) => Covers(j, k, p)'
    BY <1>1 DEF NowMarked, Covers
<1>3. ASSUME NEW k \in MkKeys, mk_keys'[k] # NotKept
      PROVE  mk_keys'[k] = mk_keys[k] /\ \A p : <<k, p>> \in mk_excused => <<k, p>> \in mk_excused'
    BY <1>1, <1>3 DEF Without, ExcusedBut
<1>4. MkTypes'
    BY <1>1 DEF MkTypes, Without
<1>5. Covered'
    BY <1>2, <1>3, CoveredStep
<1>6. Attempted'
    BY <1>1, <1>2, <1>3 DEF Attempted
<1> QED BY <1>4, <1>5, <1>6

\* One that ends notes what it changes, and what a judge that finishes the submission leaves.
LEMMA DeletedInv ==
    ASSUME MkInv, NEW i \in DOMAIN mk_subs, NEW committed \in BOOLEAN, EndDelete(i, committed)
    PROVE  MkInv'
<1> USE DEF MkInv
<1>1. /\ mk_subs' = IF committed THEN [mk_subs EXCEPT ![i].result = "gone"] ELSE mk_subs
      /\ UNCHANGED <<mk_worth, mk_keys, mk_fill, mk_judges>>
      /\ mk_excused' = mk_excused \cup Touched \cup (IF committed THEN LeftBy(i) ELSE {})
      /\ mk_deleted' = (mk_deleted \/ committed)
    BY DEF EndDelete
<1>2. CASE ~committed
    <2>1. /\ UNCHANGED <<mk_subs, mk_worth, mk_keys, mk_fill, mk_judges>> /\ mk_deleted' = (mk_deleted \/ FALSE)
          /\ mk_excused \subseteq mk_excused'
        BY <1>1, <1>2
    <2>2. /\ \A k \in MkKeys : NowMarked(k)' = NowMarked(k)
          /\ \A j \in MkJudges : \A k, p : Covers(j, k, p) => Covers(j, k, p)'
        BY <2>1 DEF NowMarked, Covers
    <2>3. MkTypes'
        BY <2>1 DEF MkTypes
    <2>4. Covered'
        BY <2>1, <2>2, CoveredStep
    <2>5. Attempted'
        BY <2>1, <2>2 DEF Attempted
    <2> QED BY <2>3, <2>4, <2>5
<1>3. CASE committed
    <2>1. /\ mk_subs' = [mk_subs EXCEPT ![i].result = "gone"]
          /\ mk_excused' = mk_excused \cup Touched \cup LeftBy(i) /\ mk_deleted'
        BY <1>1, <1>3
    <2>2. /\ mk_subs' \in Seq(MkSubs) /\ DOMAIN mk_subs' = DOMAIN mk_subs
          /\ \A o \in DOMAIN mk_subs : o # i => mk_subs'[o] = mk_subs[o]
          /\ mk_subs'[i] = [mk_subs[i] EXCEPT !.result = "gone"] /\ mk_subs[i] \in MkSubs
        <3>1. mk_subs[i] \in MkSubs
            BY DEF MkTypes
        <3> QED BY <2>1, <3>1, FieldChanged
    <2>3. mk_subs'[i].prob = mk_subs[i].prob
        BY <2>2 DEF MkSubs
    <2>4. MkTypes'
        BY <1>1, <2>2 DEF MkTypes
    <2>5. ASSUME NEW j \in MkJudges, NEW k \in MkKeys, NEW p, Covers(j, k, p)
          PROVE  <<k, p>> \in mk_excused' \/ Covers(j, k, p)'
        <3>1. mk_judges[j].sub \in DOMAIN mk_subs
            BY <2>5 DEF Covers, MkTypes
        <3>2. CASE mk_judges[j].sub # i
            BY <1>1, <2>2, <2>5, <3>1, <3>2 DEF Covers
        <3>3. CASE mk_judges[j].sub = i /\ k \notin ContestKeys
            BY <1>1, <2>3, <2>5, <3>3 DEF Covers
        <3>4. CASE mk_judges[j].sub = i /\ k \in ContestKeys
            <4>1. mk_subs[i].prob = p /\ mk_judges[j].at # "free"
                BY <2>5, <3>4 DEF Covers
            <4>2. <<k, p>> \in LeftBy(i)
                BY <3>4, <4>1 DEF LeftBy
            <4> QED BY <2>1, <4>2
        <3> QED BY <3>2, <3>3, <3>4
    <2>6. Covered'
        BY <1>1, <2>1, <2>5, TouchedIs, CoveredStep
    <2>7. Attempted'
        BY <2>1 DEF Attempted
    <2> QED BY <2>4, <2>6, <2>7
<1> QED BY <1>2, <1>3

\* Each step keeps it.
LEMMA MkStepInv ==
    ASSUME MkInv, MarksAssumption, MkNext
    PROVE  MkInv'
<1> USE DEF MkInv
<1>1. ASSUME NEW k \in MkKeys, ReadMarks(k)
      PROVE  MkInv'
    <2>1. /\ UNCHANGED <<mk_subs, mk_worth, mk_keys, mk_judges, mk_excused, mk_deleted>>
          /\ mk_fill' = [key |-> k, problems |-> NowMarked(k)]
        BY <1>1 DEF ReadMarks, NowMarked
    <2>2. /\ \A l \in MkKeys : NowMarked(l)' = NowMarked(l)
          /\ \A j \in MkJudges : \A l, p : Covers(j, l, p) => Covers(j, l, p)'
        BY <2>1 DEF NowMarked, Covers
    <2>3. MkTypes'
        BY <2>1 DEF MkTypes
    <2>4. Covered'
        BY <2>1, <2>2, CoveredStep
    <2>5. Attempted'
        BY <2>1, <2>2 DEF Attempted
    <2> QED BY <2>3, <2>4, <2>5
<1>2. ASSUME NEW k \in MkKeys, KeepMarks(k)
      PROVE  MkInv'
    <2>1. /\ UNCHANGED <<mk_subs, mk_worth, mk_judges, mk_deleted>>
          /\ mk_fill.key = k /\ mk_fill' = NoFill /\ mk_keys' = [mk_keys EXCEPT ![k] = mk_fill.problems]
          /\ mk_excused' = ExcusedBut({k}) \cup {<<k, p>> : p \in Differ(mk_fill.problems, NowMarked(k))}
        BY <1>2 DEF KeepMarks, NowMarked
    <2>2. /\ \A l \in MkKeys : NowMarked(l)' = NowMarked(l)
          /\ \A j \in MkJudges : \A l, p : Covers(j, l, p) => Covers(j, l, p)'
        BY <2>1 DEF NowMarked, Covers
    <2>3. /\ mk_keys'[k] = mk_fill.problems
          /\ \A l \in MkKeys : l # k => mk_keys'[l] = mk_keys[l] /\ \A p : <<l, p>> \in mk_excused => <<l, p>> \in mk_excused'
        BY <2>1 DEF MkTypes, ExcusedBut
    <2>4. MkTypes'
        BY <2>1 DEF MkTypes
    <2>5. Covered'
        <3>1. \A p \in Differ(mk_keys'[k], NowMarked(k)') : <<k, p>> \in mk_excused'
            BY <2>1, <2>2, <2>3
        <3> QED BY <2>2, <2>3, <3>1, CoveredStep
    <2>6. Attempted'
        <3>1. \A l \in MkKeys : mk_fill'.key # l
            BY <2>1 DEF NoFill, MkKeys, UserKeys, ContestKeys
        <3> QED BY <2>1, <2>2, <2>3, <3>1 DEF Attempted
    <2> QED BY <2>4, <2>5, <2>6
<1>3. ASSUME NEW k \in MkKeys, DropMarks(k)
      PROVE  MkInv'
    <2>1. /\ UNCHANGED <<mk_subs, mk_worth, mk_fill, mk_judges, mk_deleted>>
          /\ mk_keys' = Without({k}) /\ mk_excused' = ExcusedBut({k})
        BY <1>3 DEF DropMarks
    <2>2. /\ \A l \in MkKeys : NowMarked(l)' = NowMarked(l)
          /\ \A j \in MkJudges : \A l, p : Covers(j, l, p) => Covers(j, l, p)'
        BY <2>1 DEF NowMarked, Covers
    <2>3. ASSUME NEW l \in MkKeys, mk_keys'[l] # NotKept
          PROVE  mk_keys'[l] = mk_keys[l] /\ \A p : <<l, p>> \in mk_excused => <<l, p>> \in mk_excused'
        BY <2>1, <2>3 DEF Without, ExcusedBut
    <2>4. MkTypes'
        BY <2>1 DEF MkTypes, Without
    <2>5. Covered'
        BY <2>2, <2>3, CoveredStep
    <2>6. Attempted'
        BY <2>1, <2>2, <2>3 DEF Attempted
    <2> QED BY <2>4, <2>5, <2>6
<1> QED BY <1>1, <1>2, <1>3, SubmitInv, FailInv, StoreInv, ScoreInv, FinishedInv, RejudgeInv, EditInv, RecalculateInv,
           DeleteInv, DeletedInv DEF MkNext

\* What is wrong is excused or has a judge that deletes it.
LEMMA MkInvHolds == MkInv => MarksHold
<1> SUFFICES ASSUME MkInv PROVE MarksHold
    OBVIOUS
<1>1. MarksAreCurrent
    BY DEF MkInv, MarksAreCurrent, Covered, Covers, NowMarked
<1>2. AttemptsAreReal
    BY DEF MkInv, AttemptsAreReal, Attempted, NowMarked
<1> QED BY <1>1, <1>2 DEF MarksHold

\* A step that changes nothing keeps what holds of the marks.
LEMMA MkStays == MkInv /\ UNCHANGED mkvars => MkInv'
BY DEF MkInv, MkTypes, Covered, Attempted, Covers, NowMarked, mkvars

\* Marks that are kept are those of the submissions, but for what a judge is about to delete and for the named
\* changes after which nothing deletes them; and nothing is marked as attempted that was not.
THEOREM MarksAreRight == ASSUME MarksAssumption PROVE MkSpec => []MarksHold
<1>1. MkInit => MkInv
    BY MkInitInv
<1>2. MkInv /\ [MkNext]_mkvars => MkInv'
    BY MkStepInv, MkStays
<1>3. MkInv => MarksHold
    BY MkInvHolds
<1> QED BY <1>1, <1>2, <1>3, PTL DEF MkSpec

-----------------------------------------------------------------------------
(* Delivery.                                                               *)

DvMessages == [id : Nat, own : BOOLEAN]
DvAts == {"none", "loaded", "connects", "polls", "waiting", "answered", "following", "closed"}
DvPageStates == [at : DvAts, shown : Nat, last : Nat, inbox : Seq(Nat), blocked : BOOLEAN, again : BOOLEAN]

DvTypes ==
    /\ dv_version \in Nat /\ dv_posted \in Nat /\ dv_id \in Nat /\ dv_dropped \in Nat
    /\ dv_writer \in {"idle", "post", "store"}
    /\ dv_queue \in Seq(DvMessages)
    /\ dv_pages \in [DvPages -> DvPageStates]

\* What the daemon holds: in order, after what it dropped, and no later than its last number.
DvHeld ==
    /\ \A i, j \in DOMAIN dv_queue : i < j => dv_queue[i].id < dv_queue[j].id
    /\ \A i \in DOMAIN dv_queue : dv_dropped < dv_queue[i].id /\ dv_queue[i].id <= dv_id
    /\ dv_dropped <= dv_id

DvAnnounced == dv_posted <= dv_version /\ (dv_writer # "post" => dv_posted = dv_version)

\* What a page has to receive is after what it saw.
ToReceive(q, top) ==
    /\ q.last <= top
    /\ \A i \in DOMAIN q.inbox : q.last < q.inbox[i] /\ q.inbox[i] <= top
    /\ \A i, j \in DOMAIN q.inbox : i < j => q.inbox[i] < q.inbox[j]
    /\ q.at \in {"none", "loaded", "connects", "polls", "waiting"} => q.inbox = <<>>
    /\ q.at = "answered" => Len(q.inbox) = 1

\* It is going to ask, and there is a message for it or was one.
Asks(q) ==
    /\ q.at \in {"connects", "polls"}
    /\ dv_dropped > q.last \/ \E i \in DOMAIN dv_queue : Newer(dv_queue[i], q.last)

Listens(q) == q.at \notin {"none", "loaded", "closed"}

PageRight(p) ==
    LET q == dv_pages[p] IN
    /\ ToReceive(q, dv_id) /\ q.shown <= dv_version
    /\ Listens(q) => p \in dv_excused \/ q.shown = dv_version \/ dv_writer = "post" \/ q.blocked \/ q.inbox # <<>> \/ Asks(q)

DvInv == DvTypes /\ DvHeld /\ DvAnnounced /\ \A p \in DvPages : PageRight(p)

\* There are no messages at first, and no page is open.
LEMMA DvInitInv == DvInit => DvInv
<1> SUFFICES ASSUME DvInit PROVE DvInv
    OBVIOUS
<1>1. DvTypes
    BY DEF DvInit, DvTypes, DvPageStates, DvAts, DvMessages
<1>2. DvHeld /\ DvAnnounced
    BY DEF DvInit, DvHeld, DvAnnounced
<1>3. ASSUME NEW p \in DvPages
      PROVE  PageRight(p)
    BY DEF DvInit, PageRight, ToReceive, Listens
<1> QED BY <1>1, <1>2, <1>3 DEF DvInv

-----------------------------------------------------------------------------
(* The messages after a number.                                            *)

UpTo(last, n, up) ==
    up = [m \in 0 .. n |-> IF m = 0 THEN <<>>
                           ELSE IF Newer(dv_queue[m], last) THEN Append(up[m - 1], dv_queue[m].id) ELSE up[m - 1]]

\* The pass over the messages is a function: there is one for any number of them.
LEMMA UpToExists ==
    ASSUME NEW last
    PROVE  \A n \in Nat : \E up : UpTo(last, n, up)
<1> DEFINE Bad == {n \in Nat : ~ \E up : UpTo(last, n, up)}
           Next(before, m) == IF Newer(dv_queue[m], last) THEN Append(before, dv_queue[m].id) ELSE before
<1> SUFFICES ASSUME Bad # {} PROVE FALSE
    OBVIOUS
<1>1. PICK n \in Bad : \A m \in Bad : m >= n
    <2>1. Bad \in SUBSET Nat
        OBVIOUS
    <2> HIDE DEF Bad
    <2> QED BY <2>1, SmallestNat
<1>2. n # 0
    <2>1. UpTo(last, 0, [m \in 0 .. 0 |-> <<>>])
        BY DEF UpTo
    <2> QED BY <2>1
<1>3. n - 1 \in Nat /\ ~(n - 1 >= n) /\ n \in Nat
    BY <1>2
<1>4. PICK low : UpTo(last, n - 1, low)
    BY <1>1, <1>3
<1> DEFINE up == [m \in 0 .. n |-> IF m = n THEN Next(low[n - 1], n) ELSE low[m]]
<1>5. UpTo(last, n, up)
    <2>1. \A m \in 0 .. n : up[m] = IF m = 0 THEN <<>> ELSE Next(up[m - 1], m)
        <3> HIDE DEF Next
        <3> SUFFICES ASSUME NEW m \in 0 .. n PROVE up[m] = IF m = 0 THEN <<>> ELSE Next(up[m - 1], m)
            OBVIOUS
        <3>1. CASE m = 0
            BY <3>1, <1>2, <1>3, <1>4 DEF UpTo
        <3>2. CASE m # 0
            <4>1. m - 1 \in 0 .. n /\ m - 1 # n /\ m \in 1 .. n
                BY <3>2, <1>3
            <4>2. up[m - 1] = low[m - 1]
                BY <4>1
            <4>3. CASE m = n
                BY <4>2, <4>3, <3>2
            <4>4. CASE m # n
                <5>1. m \in 0 .. n - 1
                    BY <4>1, <4>4, <1>3
                <5>2. low[m] = Next(low[m - 1], m)
                    BY <5>1, <3>2, <1>4 DEF UpTo, Next
                <5> QED BY <5>2, <4>2, <4>4, <3>2
            <4> QED BY <4>3, <4>4
        <3> QED BY <3>1, <3>2
    <2> HIDE DEF up
    <2>2. up = [m \in 0 .. n |-> up[m]]
        BY DEF up
    <2> QED BY <2>1, <2>2 DEF UpTo
<1> HIDE DEF up
<1> QED BY <1>5, <1>3

\* It ends with the messages after the number.
LEMMA AfterUnfold ==
    ASSUME NEW last, DvTypes
    PROVE  \E up : /\ up[0] = <<>>
                   /\ \A m \in 1 .. Len(dv_queue) :
                          up[m] = IF Newer(dv_queue[m], last) THEN Append(up[m - 1], dv_queue[m].id) ELSE up[m - 1]
                   /\ After(last) = up[Len(dv_queue)]
<1> DEFINE up == CHOOSE up : UpTo(last, Len(dv_queue), up)
<1>1. Len(dv_queue) \in Nat
    BY DEF DvTypes
<1>2. UpTo(last, Len(dv_queue), up)
    BY <1>1, UpToExists
<1>3. After(last) = up[Len(dv_queue)]
    BY DEF After, UpTo
<1> HIDE DEF up
<1>4. up[0] = <<>>
    BY <1>1, <1>2 DEF UpTo
<1>5. ASSUME NEW m \in 1 .. Len(dv_queue)
      PROVE  up[m] = IF Newer(dv_queue[m], last) THEN Append(up[m - 1], dv_queue[m].id) ELSE up[m - 1]
    <2>1. m \in 0 .. Len(dv_queue) /\ m # 0
        BY <1>1
    <2> QED BY <2>1, <1>2 DEF UpTo
<1> QED BY <1>3, <1>4, <1>5

\* What is appended comes last.
LEMMA NumberAppended ==
    ASSUME NEW s \in Seq(Nat), NEW x \in Nat, NEW t, t = Append(s, x)
    PROVE  /\ t \in Seq(Nat) /\ t # <<>> /\ t[Len(s) + 1] = x
           /\ Len(s) \in Nat /\ DOMAIN s = 1 .. Len(s) /\ DOMAIN t = 1 .. Len(s) + 1
           /\ \A k \in DOMAIN s : t[k] = s[k] /\ k < Len(s) + 1
           /\ \A k \in DOMAIN t : k \in DOMAIN s \/ k = Len(s) + 1
<1>1. Len(s) \in Nat /\ DOMAIN s = 1 .. Len(s) /\ t \in Seq(Nat) /\ Len(t) = Len(s) + 1
    OBVIOUS
<1>2. DOMAIN t = 1 .. Len(s) + 1
    BY <1>1
<1>3. t[Len(s) + 1] = x /\ \A k \in 1 .. Len(s) : t[k] = s[k]
    BY <1>1
<1>4. t # <<>>
    BY <1>1
<1>5. \A k \in DOMAIN s : t[k] = s[k] /\ k < Len(s) + 1
    BY <1>1, <1>3
<1>6. \A k \in DOMAIN t : k \in DOMAIN s \/ k = Len(s) + 1
    BY <1>1, <1>2
<1> QED BY <1>1, <1>2, <1>3, <1>4, <1>5, <1>6

\* They are numbers after it, in order, and there are some if a message held is of the submission and after it.
LEMMA AfterIs ==
    ASSUME DvTypes, DvHeld, NEW last \in Nat
    PROVE  /\ After(last) \in Seq(Nat)
           /\ \A k \in DOMAIN After(last) : last < After(last)[k] /\ After(last)[k] <= dv_id
           /\ \A k, l \in DOMAIN After(last) : k < l => After(last)[k] < After(last)[l]
           /\ (\E i \in DOMAIN dv_queue : Newer(dv_queue[i], last)) => After(last) # <<>>
<1> DEFINE N == Len(dv_queue)
<1>0. N \in Nat /\ DOMAIN dv_queue = 1 .. N /\ \A i \in 1 .. N : dv_queue[i].id \in Nat /\ dv_queue[i].own \in BOOLEAN
    <2>1. N \in Nat /\ DOMAIN dv_queue = 1 .. N /\ \A i \in 1 .. N : dv_queue[i] \in DvMessages
        BY DEF DvTypes
    <2> QED BY <2>1 DEF DvMessages
<1>1. PICK up : /\ up[0] = <<>>
                /\ \A m \in 1 .. N : up[m] = IF Newer(dv_queue[m], last) THEN Append(up[m - 1], dv_queue[m].id) ELSE up[m - 1]
                /\ After(last) = up[N]
    BY AfterUnfold
<1> DEFINE Good(n) == /\ up[n] \in Seq(Nat)
                      /\ \A k \in DOMAIN up[n] : last < up[n][k] /\ up[n][k] <= dv_id /\ (\A m \in 1 .. N : m > n => up[n][k] < dv_queue[m].id)
                      /\ \A k, l \in DOMAIN up[n] : k < l => up[n][k] < up[n][l]
                      /\ (\E i \in 1 .. n : Newer(dv_queue[i], last)) => up[n] # <<>>
           Bad == {n \in 0 .. N : ~Good(n)}
<1>2. Bad = {}
    <2> SUFFICES ASSUME Bad # {} PROVE FALSE
        OBVIOUS
    <2>1. PICK n \in Bad : \A m \in Bad : m >= n
        <3>1. Bad \in SUBSET Nat
            BY <1>0
        <3> HIDE DEF Bad
        <3> QED BY <3>1, SmallestNat
    <2>2. n # 0
        <3>1. Good(0)
            BY <1>1
        <3> QED BY <3>1
    <2>3. n \in 1 .. N /\ n - 1 \in 0 .. N /\ n - 1 < n
        BY <1>0, <2>2
    <2>4. Good(n - 1)
        <3>1. n - 1 \notin Bad
            <4> HIDE DEF Bad
            <4> QED BY <2>1, <2>3, <1>0
        <3> HIDE DEF Good
        <3> QED BY <2>3, <3>1
    <2>5. up[n] = IF Newer(dv_queue[n], last) THEN Append(up[n - 1], dv_queue[n].id) ELSE up[n - 1]
        BY <1>1, <2>3
    <2>6. \A m \in 1 .. N : m > n => dv_queue[n].id < dv_queue[m].id /\ m > n - 1
        BY <1>0, <2>3 DEF DvHeld
    <2>7. Good(n)
        <3>1. CASE Newer(dv_queue[n], last)
            <4>1. up[n] = Append(up[n - 1], dv_queue[n].id) /\ last < dv_queue[n].id /\ dv_queue[n].id <= dv_id
                BY <2>3, <2>5, <3>1, <1>0 DEF Newer, DvHeld
            <4>2. up[n - 1] \in Seq(Nat) /\ dv_queue[n].id \in Nat
                BY <1>0, <2>3, <2>4
            <4>3. /\ up[n] \in Seq(Nat) /\ up[n] # <<>> /\ up[n][Len(up[n - 1]) + 1] = dv_queue[n].id
                  /\ \A k \in DOMAIN up[n - 1] : up[n][k] = up[n - 1][k] /\ k < Len(up[n - 1]) + 1
                  /\ \A k \in DOMAIN up[n] : k \in DOMAIN up[n - 1] \/ k = Len(up[n - 1]) + 1
                  /\ DOMAIN up[n] = 1 .. Len(up[n - 1]) + 1 /\ DOMAIN up[n - 1] = 1 .. Len(up[n - 1]) /\ Len(up[n - 1]) \in Nat
                <5> DEFINE low == up[n - 1]
                           high == up[n]
                           x == dv_queue[n].id
                <5>1. low \in Seq(Nat) /\ x \in Nat /\ high = Append(low, x)
                    BY <4>1, <4>2
                <5> HIDE DEF low, high, x
                <5>2. high \in Seq(Nat) /\ high # <<>> /\ high[Len(low) + 1] = x
                    BY <5>1, NumberAppended
                <5>3. Len(low) \in Nat /\ DOMAIN low = 1 .. Len(low) /\ DOMAIN high = 1 .. Len(low) + 1
                    BY <5>1, NumberAppended
                <5>4. \A k \in DOMAIN low : high[k] = low[k] /\ k < Len(low) + 1
                    BY <5>1, NumberAppended
                <5>5. \A k \in DOMAIN high : k \in DOMAIN low \/ k = Len(low) + 1
                    BY <5>1, NumberAppended
                <5> QED BY <5>2, <5>3, <5>4, <5>5 DEF low, high, x
            <4>4. ASSUME NEW k \in DOMAIN up[n]
                  PROVE  last < up[n][k] /\ up[n][k] <= dv_id /\ (\A m \in 1 .. N : m > n => up[n][k] < dv_queue[m].id)
                <5>1. CASE k = Len(up[n - 1]) + 1
                    BY <2>6, <4>1, <4>3, <5>1
                <5>2. CASE k \in DOMAIN up[n - 1]
                    BY <2>4, <2>6, <4>3, <5>2
                <5> QED BY <4>3, <4>4, <5>1, <5>2
            <4>5. ASSUME NEW k \in DOMAIN up[n], NEW l \in DOMAIN up[n], k < l
                  PROVE  up[n][k] < up[n][l]
                <5>1. k \in DOMAIN up[n - 1]
                    <6> HIDE DEF Good
                    <6> QED BY <4>3, <4>5
                <5>2. CASE l = Len(up[n - 1]) + 1
                    <6>1. up[n - 1][k] < dv_queue[n].id
                        BY <2>3, <2>4, <5>1
                    <6> QED BY <4>3, <5>1, <5>2, <6>1
                <5>3. CASE l \in DOMAIN up[n - 1]
                    BY <2>4, <4>3, <4>5, <5>1, <5>3
                <5> QED BY <4>3, <5>2, <5>3
            <4> QED BY <4>3, <4>4, <4>5
        <3>2. CASE ~Newer(dv_queue[n], last)
            <4>1. up[n] = up[n - 1]
                BY <2>5, <3>2
            <4>2. \A i \in 1 .. n : Newer(dv_queue[i], last) => i \in 1 .. n - 1
                BY <2>3, <3>2, <1>0
            <4>3. \A m \in 1 .. N : m > n => m > n - 1
                BY <1>0, <2>3
            <4> QED BY <2>4, <4>1, <4>2, <4>3
        <3> QED BY <3>1, <3>2
    <2> QED BY <2>1, <2>7
<1>3. Good(N)
    <2> HIDE DEF Good
    <2> QED BY <1>0, <1>2
<1> QED BY <1>0, <1>1, <1>3

-----------------------------------------------------------------------------
(* A message is posted.                                                    *)

\* What is posted is held, and what the queue has no room for is noted if it was of the submission.
LEMMA PostedIs ==
    ASSUME DvInv, DeliveryAssumption, NEW own \in BOOLEAN, DvPost(own)
    PROVE  /\ dv_queue' \in Seq(DvMessages) /\ dv_id' = dv_id + 1 /\ dv_dropped' \in Nat /\ dv_dropped <= dv_dropped'
           /\ DvHeld'
           /\ \A i \in DOMAIN dv_queue : dv_queue[i].own =>
                  dv_dropped' >= dv_queue[i].id \/ \E k \in DOMAIN dv_queue' : dv_queue'[k] = dv_queue[i]
           /\ own => \E k \in DOMAIN dv_queue' : dv_queue'[k] = [id |-> dv_id + 1, own |-> TRUE]
<1> USE DEF DvInv
<1> DEFINE L == Len(dv_queue)
           new == [id |-> dv_id + 1, own |-> own]
           all == Append(dv_queue, new)
<1>1. /\ dv_queue' = IF Len(all) > MaxQueue THEN Tail(all) ELSE all
      /\ dv_id' = dv_id + 1 /\ dv_dropped' = IF Shifted(own) THEN Head(dv_queue).id ELSE dv_dropped
    BY DEF DvPost, Pushed
<1>2. /\ L \in Nat /\ DOMAIN dv_queue = 1 .. L /\ new \in DvMessages
      /\ \A i \in 1 .. L : dv_queue[i] \in DvMessages /\ dv_queue[i].id \in Nat /\ dv_queue[i].own \in BOOLEAN
    <2>1. L \in Nat /\ DOMAIN dv_queue = 1 .. L /\ \A i \in 1 .. L : dv_queue[i] \in DvMessages
        BY DEF DvTypes
    <2> QED BY <2>1 DEF DvMessages, DvTypes
<1>3. /\ all \in Seq(DvMessages) /\ Len(all) = L + 1 /\ DOMAIN all = 1 .. L + 1 /\ all[L + 1] = new
      /\ \A i \in 1 .. L : all[i] = dv_queue[i]
    <2> HIDE DEF new
    <2> QED BY <1>2 DEF DvTypes
<1>4. /\ \A i, j \in 1 .. L + 1 : i < j => all[i].id < all[j].id
      /\ \A i \in 1 .. L + 1 : dv_dropped < all[i].id /\ all[i].id <= dv_id + 1
    <2>1. new.id = dv_id + 1 /\ dv_id \in Nat /\ dv_dropped <= dv_id /\ dv_dropped \in Nat
        BY DEF DvTypes, DvHeld
    <2>2. /\ \A i, j \in 1 .. L : i < j => dv_queue[i].id < dv_queue[j].id
          /\ \A i \in 1 .. L : dv_dropped < dv_queue[i].id /\ dv_queue[i].id <= dv_id
        BY <1>2 DEF DvHeld
    <2> HIDE DEF new, all
    <2>3. ASSUME NEW i \in 1 .. L + 1, NEW j \in 1 .. L + 1, i < j
          PROVE  all[i].id < all[j].id
        <3>1. i \in 1 .. L
            BY <1>2, <2>3
        <3>2. CASE j \in 1 .. L
            BY <1>3, <2>2, <2>3, <3>1, <3>2
        <3>3. CASE j = L + 1
            BY <1>2, <1>3, <2>1, <2>2, <3>1, <3>3
        <3> QED BY <1>2, <3>2, <3>3
    <2>4. ASSUME NEW i \in 1 .. L + 1
          PROVE  dv_dropped < all[i].id /\ all[i].id <= dv_id + 1
        <3>1. CASE i \in 1 .. L
            BY <1>2, <1>3, <2>1, <2>2, <3>1
        <3>2. CASE i = L + 1
            BY <1>3, <2>1, <3>2
        <3> QED BY <1>2, <3>1, <3>2
    <2> QED BY <2>3, <2>4
<1> HIDE DEF all, new
<1>5. Shifted(own) <=> L >= MaxQueue /\ dv_queue[1].own
    <2>1. CASE L >= MaxQueue
        <3>1. L >= 1
            BY <1>2, <2>1 DEF DeliveryAssumption
        <3>2. Append(dv_queue, [own |-> own])[1] = dv_queue[1]
            BY <1>2, <3>1 DEF DvTypes
        <3>3. Head(Append(dv_queue, [own |-> own])) = dv_queue[1]
            <4>1. Head(Append(dv_queue, [own |-> own])) = Append(dv_queue, [own |-> own])[1]
                BY <1>2, <3>1 DEF DvTypes
            <4> QED BY <3>2, <4>1
        <3> QED BY <3>3 DEF Shifted
    <2>2. CASE ~(L >= MaxQueue)
        BY <2>2 DEF Shifted
    <2> QED BY <2>1, <2>2
<1>6. CASE ~(L + 1 > MaxQueue)
    <2>1. dv_queue' = all /\ dv_dropped' = dv_dropped
        BY <1>1, <1>2, <1>3, <1>5, <1>6 DEF DeliveryAssumption
    <2>2. DvHeld'
        BY <1>1, <1>2, <1>3, <1>4, <2>1 DEF DvHeld, DvTypes
    <2>3. \A i \in 1 .. L : i \in DOMAIN dv_queue' /\ dv_queue'[i] = dv_queue[i]
        BY <1>2, <1>3, <2>1
    <2>4. L + 1 \in DOMAIN dv_queue' /\ dv_queue'[L + 1] = new
        BY <1>2, <1>3, <2>1
    <2>5. dv_queue' \in Seq(DvMessages) /\ dv_dropped' \in Nat /\ dv_dropped <= dv_dropped'
        BY <1>3, <2>1 DEF DvTypes
    <2>6. \A i \in DOMAIN dv_queue : \E k \in DOMAIN dv_queue' : dv_queue'[k] = dv_queue[i]
        BY <1>2, <2>3
    <2>7. own => \E k \in DOMAIN dv_queue' : dv_queue'[k] = [id |-> dv_id + 1, own |-> TRUE]
        BY <2>4 DEF new
    <2> QED BY <1>1, <2>2, <2>5, <2>6, <2>7
<1>7. CASE L + 1 > MaxQueue
    <2>1. /\ dv_queue' \in Seq(DvMessages) /\ Len(dv_queue') = L /\ DOMAIN dv_queue' = 1 .. L
          /\ \A i \in 1 .. L : dv_queue'[i] = all[i + 1]
        BY <1>1, <1>2, <1>3, <1>7
    <2>2. L >= MaxQueue /\ L >= 1 /\ Head(dv_queue) = dv_queue[1]
        BY <1>2, <1>7 DEF DeliveryAssumption, DvTypes
    <2>3. dv_dropped' = IF dv_queue[1].own THEN dv_queue[1].id ELSE dv_dropped
        BY <1>1, <1>5, <2>2
    <2>4. 1 \in 1 .. L /\ all[1] = dv_queue[1]
        BY <1>2, <1>3, <2>2
    <2>5. dv_dropped' \in Nat /\ dv_dropped <= dv_dropped' /\ dv_dropped' <= dv_id /\ (dv_dropped' = dv_dropped \/ dv_dropped' = all[1].id)
        BY <1>2, <2>3, <2>4 DEF DvHeld, DvTypes
    <2>6. DvHeld'
        <3>1. ASSUME NEW i \in 1 .. L, NEW j \in 1 .. L, i < j
              PROVE  dv_queue'[i].id < dv_queue'[j].id
            <4>1. i + 1 \in 1 .. L + 1 /\ j + 1 \in 1 .. L + 1 /\ i + 1 < j + 1
                BY <1>2, <3>1
            <4> QED BY <1>4, <2>1, <4>1
        <3>2. ASSUME NEW i \in 1 .. L
              PROVE  dv_dropped' < dv_queue'[i].id /\ dv_queue'[i].id <= dv_id + 1
            <4>1. i + 1 \in 1 .. L + 1 /\ 1 \in 1 .. L + 1 /\ 1 < i + 1
                BY <1>2, <3>2
            <4>2. dv_queue'[i] = all[i + 1]
                BY <2>1
            <4>3. all[1].id < all[i + 1].id /\ dv_dropped < all[i + 1].id /\ all[i + 1].id <= dv_id + 1
                BY <1>4, <4>1
            <4> QED BY <2>5, <4>2, <4>3
        <3>3. dv_dropped' <= dv_id + 1
            BY <2>5 DEF DvTypes
        <3> QED BY <1>1, <2>1, <3>1, <3>2, <3>3 DEF DvHeld
    <2>7. ASSUME NEW i \in 1 .. L, dv_queue[i].own
          PROVE  dv_dropped' >= dv_queue[i].id \/ \E k \in DOMAIN dv_queue' : dv_queue'[k] = dv_queue[i]
        <3>1. CASE i = 1
            BY <1>2, <2>3, <2>4, <2>7, <3>1
        <3>2. CASE i # 1
            <4>1. i - 1 \in 1 .. L /\ (i - 1) + 1 = i
                BY <1>2, <3>2
            <4>2. dv_queue'[i - 1] = all[i]
                BY <2>1, <4>1
            <4> QED BY <1>3, <2>1, <4>1, <4>2
        <3> QED BY <3>1, <3>2
    <2>8. L \in DOMAIN dv_queue' /\ dv_queue'[L] = new
        BY <1>2, <1>3, <2>1, <2>2
    <2> QED BY <1>1, <1>2, <2>1, <2>5, <2>6, <2>7, <2>8 DEF new
<1> QED BY <1>2, <1>6, <1>7

\* What is there for a page that is going to ask still is.
LEMMA StillAsks ==
    ASSUME DvTypes, NEW q \in DvPageStates, Asks(q), dv_dropped' \in Nat, dv_dropped <= dv_dropped',
           dv_queue' \in Seq(DvMessages),
           \A i \in DOMAIN dv_queue : dv_queue[i].own =>
               dv_dropped' >= dv_queue[i].id \/ \E k \in DOMAIN dv_queue' : dv_queue'[k] = dv_queue[i]
    PROVE  dv_dropped' > q.last \/ \E i \in DOMAIN dv_queue' : Newer(dv_queue'[i], q.last)
<1>1. q.last \in Nat /\ dv_dropped \in Nat
    BY DEF DvPageStates, DvTypes
<1>2. CASE dv_dropped > q.last
    BY <1>1, <1>2
<1>3. CASE \E i \in DOMAIN dv_queue : Newer(dv_queue[i], q.last)
    <2>1. PICK i \in DOMAIN dv_queue : Newer(dv_queue[i], q.last)
        BY <1>3
    <2>2. dv_queue[i].own /\ dv_queue[i].id > q.last /\ dv_queue[i].id \in Nat
        <3>1. dv_queue[i] \in DvMessages
            BY DEF DvTypes
        <3> QED BY <2>1, <3>1 DEF Newer, DvMessages
    <2>3. CASE dv_dropped' >= dv_queue[i].id
        BY <1>1, <2>2, <2>3
    <2>4. CASE \E k \in DOMAIN dv_queue' : dv_queue'[k] = dv_queue[i]
        BY <2>1, <2>4
    <2> QED BY <2>2, <2>3, <2>4
<1> QED BY <1>2, <1>3 DEF Asks

\* A message that is posted comes to those who listen, and awaits those who are going to ask.
LEMMA PostKeeps ==
    ASSUME DvInv, DeliveryAssumption, NEW own \in BOOLEAN, DvPost(own), dv_version' = dv_version, dv_excused' = dv_excused,
           dv_writer' \in {"idle", "post", "store"}, own \/ dv_writer' = dv_writer
    PROVE  dv_pages' \in [DvPages -> DvPageStates] /\ \A p \in DvPages : PageRight(p)'
<1> USE DEF DvInv
<1>1. /\ dv_queue' \in Seq(DvMessages) /\ dv_id' = dv_id + 1 /\ dv_dropped' \in Nat /\ dv_dropped <= dv_dropped'
      /\ \A i \in DOMAIN dv_queue : dv_queue[i].own =>
             dv_dropped' >= dv_queue[i].id \/ \E k \in DOMAIN dv_queue' : dv_queue'[k] = dv_queue[i]
      /\ own => \E k \in DOMAIN dv_queue' : dv_queue'[k] = [id |-> dv_id + 1, own |-> TRUE]
    BY PostedIs
<1>2. dv_pages' = Heard(own)
    BY DEF DvPost
<1> SUFFICES ASSUME NEW p \in DvPages
             PROVE  dv_pages'[p] \in DvPageStates /\ PageRight(p)' /\ DOMAIN dv_pages' = DvPages
                    /\ dv_pages' = [x \in DvPages |-> dv_pages'[x]]
    <2>1. dv_pages' = [x \in DvPages |-> dv_pages'[x]]
        BY <1>2 DEF Heard, DvTypes
    <2> QED BY <2>1
<1>3. DOMAIN dv_pages' = DvPages /\ dv_pages' = [x \in DvPages |-> dv_pages'[x]]
    BY <1>2 DEF Heard, DvTypes
<1> DEFINE q == dv_pages[p]
           n == dv_id + 1
<1>4. /\ q \in DvPageStates /\ q.last \in Nat /\ q.shown \in Nat /\ q.inbox \in Seq(Nat) /\ dv_id \in Nat /\ n \in Nat
      /\ ToReceive(q, dv_id) /\ q.shown <= dv_version
      /\ Listens(q) => p \in dv_excused \/ q.shown = dv_version \/ dv_writer = "post" \/ q.blocked \/ q.inbox # <<>> \/ Asks(q)
    <2>1. q \in DvPageStates /\ PageRight(p) /\ dv_id \in Nat
        BY DEF DvTypes
    <2> QED BY <2>1 DEF DvPageStates, PageRight
<1>5. CASE ~own \/ q.at \notin {"following", "waiting"}
    <2>1. dv_pages'[p] = q
        BY <1>2, <1>5 DEF Heard, DvTypes
    <2>2. ToReceive(q, dv_id + 1)
        BY <1>4 DEF ToReceive
    <2>3. CASE own /\ q.at \in {"connects", "polls"}
        <3>1. Asks(q)'
            <4>1. PICK k \in DOMAIN dv_queue' : dv_queue'[k] = [id |-> dv_id + 1, own |-> TRUE]
                BY <1>1, <2>3
            <4>2. Newer(dv_queue'[k], q.last)
                BY <1>4, <4>1 DEF Newer, ToReceive
            <4>3. \E i \in DOMAIN dv_queue' : Newer(dv_queue'[i], q.last)
                BY <4>1, <4>2
            <4> QED BY <2>1, <2>3, <4>3 DEF Asks
        <3> QED BY <1>1, <1>3, <1>4, <2>1, <2>2, <3>1 DEF PageRight
    <2>4. CASE own /\ q.at \notin {"connects", "polls"}
        <3>1. Listens(q) => q.inbox # <<>>
            <4>1. q.at \in DvAts
                BY <1>4 DEF DvPageStates
            <4>2. q.at = "answered" => Len(q.inbox) = 1
                BY <1>4 DEF ToReceive
            <4> QED BY <1>5, <2>4, <4>1, <4>2 DEF Listens, DvAts
        <3> QED BY <1>1, <1>3, <1>4, <2>1, <2>2, <3>1 DEF PageRight
    <2>5. CASE ~own
        <3>1. Asks(q) => Asks(q)'
            <4>1. SUFFICES ASSUME Asks(q) PROVE Asks(q)'
                OBVIOUS
            <4>2. dv_dropped' > q.last \/ \E i \in DOMAIN dv_queue' : Newer(dv_queue'[i], q.last)
                BY <1>1, <1>4, <4>1, StillAsks
            <4>3. q.at \in {"connects", "polls"}
                BY <4>1 DEF Asks
            <4> QED BY <2>1, <4>2, <4>3 DEF Asks
        <3> QED BY <1>1, <1>3, <1>4, <2>1, <2>2, <2>5, <3>1 DEF PageRight
    <2> QED BY <2>3, <2>4, <2>5
<1>6. CASE own /\ q.at \in {"following", "waiting"}
    <2> DEFINE r == dv_pages'[p]
               at == IF q.at = "waiting" THEN "answered" ELSE "following"
    <2>1. r = [q EXCEPT !.inbox = Append(q.inbox, n), !.at = at]
        <3>1. q.at = "following" => [q EXCEPT !.inbox = Append(q.inbox, n)] = [q EXCEPT !.inbox = Append(q.inbox, n), !.at = "following"]
            BY <1>4 DEF DvPageStates
        <3> QED BY <1>2, <1>6, <3>1 DEF Heard
    <2>2. Append(q.inbox, n) \in Seq(Nat) /\ at \in DvAts
        BY <1>4 DEF DvAts
    <2>3. /\ r \in DvPageStates /\ r.inbox = Append(q.inbox, n) /\ r.last = q.last /\ r.shown = q.shown /\ r.at = at
        <3> HIDE DEF q, n, at
        <3> QED BY <1>4, <2>1, <2>2 DEF DvPageStates
    <2> DEFINE L == Len(q.inbox)
    <2>4. /\ L \in Nat /\ DOMAIN q.inbox = 1 .. L /\ DOMAIN r.inbox = 1 .. L + 1 /\ r.inbox[L + 1] = n
          /\ \A i \in 1 .. L : r.inbox[i] = q.inbox[i] /\ q.inbox[i] \in Nat
          /\ Len(r.inbox) = L + 1 /\ r.inbox # <<>>
        <3> HIDE DEF q, n, r
        <3> QED BY <1>4, <2>3
    <2>5. ToReceive(r, n)
        <3> HIDE DEF q, r
        <3>1. r.last <= n
            BY <1>4, <2>3 DEF ToReceive
        <3>2. ASSUME NEW i \in DOMAIN r.inbox PROVE r.last < r.inbox[i] /\ r.inbox[i] <= n
            BY <1>4, <2>3, <2>4 DEF ToReceive
        <3>3. ASSUME NEW i \in DOMAIN r.inbox, NEW j \in DOMAIN r.inbox, i < j PROVE r.inbox[i] < r.inbox[j]
            <4>1. i \in 1 .. L
                BY <2>4, <3>3
            <4>2. q.inbox[i] <= dv_id /\ q.inbox[i] = r.inbox[i] /\ q.inbox[i] \in Nat
                BY <1>4, <2>4, <4>1 DEF ToReceive
            <4>3. CASE j = L + 1
                BY <1>4, <2>4, <4>2, <4>3
            <4>4. CASE j \in 1 .. L
                BY <1>4, <2>4, <3>3, <4>1, <4>4 DEF ToReceive
            <4> QED BY <2>4, <4>3, <4>4
        <3>4. r.at \notin {"none", "loaded", "connects", "polls", "waiting"}
            BY <2>3
        <3>5. r.at = "answered" => Len(r.inbox) = 1
            <4>1. r.at = "answered" => q.inbox = <<>>
                BY <1>4, <1>6, <2>3 DEF ToReceive
            <4> QED BY <2>4, <4>1
        <3> QED BY <3>1, <3>2, <3>3, <3>4, <3>5 DEF ToReceive
    <2>6. PageRight(p)'
        <3>1. r.shown <= dv_version /\ r.inbox # <<>>
            BY <1>4, <2>3, <2>4
        <3> QED BY <1>1, <2>5, <3>1 DEF PageRight
    <2> QED BY <1>3, <2>3, <2>6
<1> QED BY <1>5, <1>6

-----------------------------------------------------------------------------
(* The daemon restarts.                                                    *)

\* Nothing is held afterwards, and what was held of the submission is noted.
LEMMA RestartInv ==
    ASSUME DvInv, DaemonRestarts
    PROVE  DvInv'
<1> USE DEF DvInv
<1> DEFINE own == {dv_queue[i].id : i \in {j \in DOMAIN dv_queue : dv_queue[j].own}}
           all == {dv_dropped} \cup own
<1>1. /\ dv_queue' = <<>> /\ dv_id' = dv_id + 1 /\ dv_dropped' = Max(all)
      /\ dv_pages' = [p \in DvPages |-> IF dv_pages[p].at = "waiting" THEN [dv_pages[p] EXCEPT !.at = "polls"]
                                        ELSE IF dv_pages[p].at = "following" THEN [dv_pages[p] EXCEPT !.at = "closed"]
                                        ELSE dv_pages[p]]
      /\ UNCHANGED <<dv_version, dv_writer, dv_posted, dv_excused>>
    BY DEF DaemonRestarts
<1>2. dv_id \in Nat /\ all \in SUBSET (0 .. dv_id) /\ all # {}
    <2>1. \A i \in DOMAIN dv_queue : dv_queue[i].id \in 0 .. dv_id
        <3>1. \A i \in DOMAIN dv_queue : dv_queue[i] \in DvMessages /\ dv_queue[i].id <= dv_id
            BY DEF DvTypes, DvHeld
        <3> QED BY <3>1 DEF DvMessages, DvTypes
    <2>2. dv_dropped \in 0 .. dv_id
        BY DEF DvTypes, DvHeld
    <2> QED BY <2>1, <2>2 DEF DvTypes
<1>3. /\ dv_dropped' \in 0 .. dv_id /\ dv_dropped <= dv_dropped'
      /\ \A i \in DOMAIN dv_queue : dv_queue[i].own => dv_dropped' >= dv_queue[i].id
    <2>1. Max(all) \in all /\ \A x \in all : x <= Max(all)
        <3> HIDE DEF all
        <3> QED BY <1>2, LastNumber
    <2>2. ASSUME NEW i \in DOMAIN dv_queue, dv_queue[i].own
          PROVE  dv_dropped' >= dv_queue[i].id
        <3>1. dv_queue[i].id \in all
            BY <2>2
        <3>2. dv_queue[i].id <= Max(all) /\ dv_queue[i].id \in Nat /\ Max(all) \in Nat
            <4> HIDE DEF all
            <4>1. \A x \in all : x \in 0 .. dv_id /\ x <= Max(all)
                BY <1>2, <2>1
            <4>2. Max(all) \in 0 .. dv_id /\ dv_queue[i].id \in 0 .. dv_id /\ dv_queue[i].id <= Max(all)
                BY <2>1, <3>1, <4>1
            <4> QED BY <1>2, <4>2
        <3> HIDE DEF all
        <3> QED BY <1>1, <3>2
    <2>3. dv_dropped \in all
        OBVIOUS
    <2> HIDE DEF all
    <2> QED BY <1>1, <1>2, <2>1, <2>2, <2>3
<1> HIDE DEF all, own
<1>4. DvHeld' /\ DvAnnounced'
    BY <1>1, <1>2, <1>3 DEF DvHeld, DvAnnounced
<1>5. ASSUME NEW p \in DvPages
      PROVE  dv_pages'[p] \in DvPageStates /\ PageRight(p)'
    <2> DEFINE q == dv_pages[p]
               r == dv_pages'[p]
    <2>1. /\ q \in DvPageStates /\ q.last \in Nat /\ q.shown \in Nat /\ q.inbox \in Seq(Nat) /\ q.at \in DvAts
          /\ ToReceive(q, dv_id) /\ q.shown <= dv_version
          /\ Listens(q) => p \in dv_excused \/ q.shown = dv_version \/ dv_writer = "post" \/ q.blocked \/ q.inbox # <<>> \/ Asks(q)
        <3>1. q \in DvPageStates /\ PageRight(p)
            BY DEF DvTypes
        <3> QED BY <3>1 DEF DvPageStates, PageRight
    <2>2. /\ r \in DvPageStates /\ r.last = q.last /\ r.shown = q.shown /\ r.inbox = q.inbox /\ r.blocked = q.blocked
          /\ r.at = IF q.at = "waiting" THEN "polls" ELSE IF q.at = "following" THEN "closed" ELSE q.at
        <3>1. /\ q.at = "waiting" => r = [q EXCEPT !.at = "polls"]
              /\ q.at = "following" => r = [q EXCEPT !.at = "closed"]
              /\ q.at \notin {"waiting", "following"} => r = q
            BY <1>1
        <3>2. "polls" \in DvAts /\ "closed" \in DvAts
            BY DEF DvAts
        <3> HIDE DEF q, r
        <3>3. CASE q.at = "waiting"
            BY <2>1, <3>1, <3>2, <3>3 DEF DvPageStates
        <3>4. CASE q.at = "following"
            BY <2>1, <3>1, <3>2, <3>4 DEF DvPageStates
        <3>5. CASE q.at \notin {"waiting", "following"}
            BY <2>1, <3>1, <3>5
        <3> QED BY <3>3, <3>4, <3>5
    <2> HIDE DEF q, r
    <2>3. ToReceive(r, dv_id + 1)
        BY <1>2, <2>1, <2>2 DEF ToReceive
    <2>4. Listens(r) => p \in dv_excused' \/ r.shown = dv_version' \/ dv_writer' = "post" \/ r.blocked \/ r.inbox # <<>>
                        \/ (r.at \in {"connects", "polls"} /\ dv_dropped' > r.last)
        <3> SUFFICES ASSUME Listens(r), Asks(q)
                     PROVE  r.at \in {"connects", "polls"} /\ dv_dropped' > r.last
            BY <1>1, <2>1, <2>2 DEF Listens
        <3>1. q.at \in {"connects", "polls"}
            BY DEF Asks
        <3>2. CASE dv_dropped > q.last
            BY <1>2, <1>3, <2>1, <2>2, <3>1, <3>2 DEF DvTypes
        <3>3. CASE \E i \in DOMAIN dv_queue : Newer(dv_queue[i], q.last)
            <4>1. PICK i \in DOMAIN dv_queue : Newer(dv_queue[i], q.last)
                BY <3>3
            <4>2. dv_queue[i].own /\ dv_queue[i].id > q.last /\ dv_queue[i].id \in Nat
                <5>1. dv_queue[i] \in DvMessages
                    BY DEF DvTypes
                <5> QED BY <4>1, <5>1 DEF Newer, DvMessages
            <4> QED BY <1>2, <1>3, <2>1, <2>2, <3>1, <4>2
        <3> QED BY <3>2, <3>3 DEF Asks
    <2> QED BY <1>1, <2>1, <2>2, <2>3, <2>4 DEF PageRight, Asks, q, r
<1>6. DvTypes'
    <2>1. dv_pages' = [p \in DvPages |-> dv_pages'[p]]
        BY <1>1
    <2>2. dv_pages' \in [DvPages -> DvPageStates]
        BY <1>5, <2>1
    <2> QED BY <1>1, <1>2, <1>3, <2>2 DEF DvTypes
<1> QED BY <1>4, <1>5, <1>6

-----------------------------------------------------------------------------
(* The steps of the connection to the judge and of a page.                 *)

\* A step that leaves messages alone changes what it does of one page.
LEMMA OnePage ==
    ASSUME DvInv, NEW p \in DvPages, NEW state \in DvPageStates, SetPage(p, state),
           UNCHANGED <<dv_version, dv_writer, dv_queue, dv_id, dv_posted, dv_dropped>>,
           dv_excused \ {p} \subseteq dv_excused',
           ToReceive(state, dv_id), state.shown <= dv_version,
           Listens(state) => p \in dv_excused' \/ state.shown = dv_version \/ dv_writer = "post" \/ state.blocked
                             \/ state.inbox # <<>> \/ Asks(state)
    PROVE  DvInv'
<1> USE DEF DvInv
<1>1. dv_pages' = [dv_pages EXCEPT ![p] = state]
    BY DEF SetPage
<1>2. dv_pages' \in [DvPages -> DvPageStates] /\ dv_pages'[p] = state /\ \A o \in DvPages : o # p => dv_pages'[o] = dv_pages[o]
    BY <1>1 DEF DvTypes
<1>3. DvTypes' /\ DvHeld' /\ DvAnnounced'
    BY <1>2 DEF DvTypes, DvHeld, DvAnnounced
<1>4. ASSUME NEW o \in DvPages, o # p
      PROVE  PageRight(o)'
    <2>1. dv_pages'[o] = dv_pages[o] /\ (o \in dv_excused => o \in dv_excused') /\ PageRight(o)
        BY <1>2, <1>4
    <2> QED BY <2>1 DEF PageRight, Asks
<1>5. PageRight(p)'
    BY <1>2 DEF PageRight, Asks
<1> QED BY <1>3, <1>4, <1>5

\* What is known of a page.
LEMMA PageIs ==
    ASSUME DvInv, NEW p \in DvPages, NEW q, q = dv_pages[p]
    PROVE  /\ q \in DvPageStates /\ q.last \in Nat /\ q.shown \in Nat /\ q.inbox \in Seq(Nat) /\ q.at \in DvAts
           /\ q.blocked \in BOOLEAN /\ q.again \in BOOLEAN
           /\ ToReceive(q, dv_id) /\ q.shown <= dv_version
           /\ Listens(q) => p \in dv_excused \/ q.shown = dv_version \/ dv_writer = "post" \/ q.blocked \/ q.inbox # <<>> \/ Asks(q)
<1>1. q \in DvPageStates /\ PageRight(p)
    BY DEF DvTypes, DvInv
<1> QED BY <1>1 DEF DvPageStates, PageRight

\* Changes of the rows.
LEMMA WriterInv ==
    ASSUME DvInv, DeliveryAssumption,
           SaveChange \/ PostChange \/ PostFails \/ AnnounceCases \/ StoreCases \/ PostOther
    PROVE  DvInv'
<1> USE DEF DvInv
<1>0. dv_version \in Nat /\ dv_posted \in Nat
    BY DEF DvTypes
<1>1. CASE SaveChange
    <2>1. /\ dv_version' = dv_version + 1 /\ dv_writer' = "post" /\ dv_writer = "idle"
          /\ UNCHANGED <<dv_queue, dv_id, dv_pages, dv_posted, dv_dropped, dv_excused>>
        BY <1>1 DEF SaveChange
    <2>2. DvTypes' /\ DvHeld' /\ DvAnnounced'
        BY <1>0, <2>1 DEF DvTypes, DvHeld, DvAnnounced
    <2>3. ASSUME NEW p \in DvPages PROVE PageRight(p)'
        <3>1. ToReceive(dv_pages[p], dv_id) /\ dv_pages[p].shown <= dv_version /\ dv_pages[p].shown \in Nat
            BY PageIs
        <3> QED BY <1>0, <2>1, <3>1 DEF PageRight
    <2> QED BY <2>2, <2>3
<1>2. CASE PostChange \/ AnnounceCases \/ PostOther
    <2>1. PICK own \in BOOLEAN : /\ DvPost(own) /\ dv_version' = dv_version /\ dv_excused' = dv_excused
                                 /\ dv_writer' \in {"idle", "post", "store"} /\ (own \/ dv_writer' = dv_writer)
                                 /\ (dv_posted' = dv_posted /\ (dv_writer = "post" => dv_writer' = "post")) \/ dv_posted' = dv_version
        <3>1. CASE PostChange
            BY <3>1 DEF PostChange
        <3>2. CASE AnnounceCases
            BY <3>2 DEF AnnounceCases
        <3>3. CASE PostOther
            BY <3>3 DEF PostOther, DvTypes
        <3> QED BY <1>2, <3>1, <3>2, <3>3
    <2>2. dv_queue' \in Seq(DvMessages) /\ dv_id' = dv_id + 1 /\ dv_dropped' \in Nat /\ DvHeld'
        BY <2>1, PostedIs
    <2>3. dv_pages' \in [DvPages -> DvPageStates] /\ \A p \in DvPages : PageRight(p)'
        BY <2>1, PostKeeps
    <2>4. DvTypes'
        BY <1>0, <2>1, <2>2, <2>3 DEF DvTypes
    <2>5. DvAnnounced'
        BY <1>0, <2>1 DEF DvAnnounced
    <2> QED BY <2>2, <2>3, <2>4, <2>5
<1>3. CASE PostFails \/ StoreCases
    <2>1. /\ dv_writer' = "idle" /\ dv_posted' = dv_version' /\ dv_version' \in {dv_version, dv_version + 1}
          /\ dv_excused' = DvPages /\ UNCHANGED <<dv_queue, dv_id, dv_pages, dv_dropped>>
        <3>1. CASE PostFails
            BY <3>1 DEF PostFails
        <3>2. CASE StoreCases
            BY <3>2 DEF StoreCases
        <3> QED BY <1>3, <3>1, <3>2
    <2>2. DvTypes' /\ DvHeld' /\ DvAnnounced'
        BY <1>0, <2>1 DEF DvTypes, DvHeld, DvAnnounced
    <2>3. ASSUME NEW p \in DvPages PROVE PageRight(p)'
        <3>1. ToReceive(dv_pages[p], dv_id) /\ dv_pages[p].shown <= dv_version /\ dv_pages[p].shown \in Nat
            BY PageIs
        <3> QED BY <1>0, <2>1, <3>1 DEF PageRight
    <2> QED BY <2>2, <2>3
<1> QED BY <1>1, <1>2, <1>3

\* A page that is made shows the rows as they are.
LEMMA LoadInv ==
    ASSUME DvInv, NEW p \in DvPages, LoadPage(p) \/ TakeLast(p)
    PROVE  DvInv'
<1> DEFINE q == dv_pages[p]
<1>0. /\ q \in DvPageStates /\ q.last \in Nat /\ q.shown \in Nat /\ q.inbox \in Seq(Nat) /\ q.at \in DvAts
      /\ ToReceive(q, dv_id) /\ q.shown <= dv_version
    BY PageIs
<1>1. dv_version \in Nat /\ dv_id \in Nat /\ dv_posted \in Nat
    BY DEF DvInv, DvTypes
<1>2. CASE LoadPage(p)
    <2> DEFINE r == [q EXCEPT !.at = "loaded", !.shown = dv_version]
    <2>1. /\ q.at = "none" /\ SetPage(p, r)
          /\ UNCHANGED <<dv_version, dv_writer, dv_queue, dv_id, dv_posted, dv_dropped, dv_excused>>
        BY <1>2 DEF LoadPage
    <2>2. r \in DvPageStates /\ r.at = "loaded" /\ r.shown = dv_version /\ r.last = q.last /\ r.inbox = q.inbox
        <3>1. "loaded" \in DvAts
            BY DEF DvAts
        <3> HIDE DEF q
        <3> QED BY <1>0, <1>1, <3>1 DEF DvPageStates
    <2> HIDE DEF q, r
    <2>3. ToReceive(r, dv_id)
        BY <1>0, <2>1, <2>2 DEF ToReceive
    <2>4. ~Listens(r)
        BY <2>2 DEF Listens
    <2> QED BY <1>1, <2>1, <2>2, <2>3, <2>4, OnePage
<1>3. CASE TakeLast(p)
    <2> DEFINE r == [q EXCEPT !.at = "connects", !.last = dv_id]
    <2>1. /\ q.at = "loaded" /\ SetPage(p, r)
          /\ dv_excused' = IF q.shown < dv_posted THEN dv_excused \cup {p} ELSE dv_excused
          /\ UNCHANGED <<dv_version, dv_writer, dv_queue, dv_id, dv_posted, dv_dropped>>
        BY <1>3 DEF TakeLast
    <2>2. r \in DvPageStates /\ r.at = "connects" /\ r.shown = q.shown /\ r.last = dv_id /\ r.inbox = q.inbox
        <3>1. "connects" \in DvAts
            BY DEF DvAts
        <3> HIDE DEF q
        <3> QED BY <1>0, <1>1, <3>1 DEF DvPageStates
    <2> HIDE DEF q, r
    <2>3. ToReceive(r, dv_id)
        <3>1. q.inbox = <<>>
            BY <1>0, <2>1 DEF ToReceive
        <3> QED BY <1>1, <2>2, <3>1 DEF ToReceive
    <2>4. p \in dv_excused' \/ r.shown = dv_version \/ dv_writer = "post"
        <3>1. CASE q.shown < dv_posted
            BY <2>1, <3>1
        <3>2. CASE dv_writer # "post" /\ ~(q.shown < dv_posted)
            <4>1. dv_posted = dv_version
                BY <3>2 DEF DvInv, DvAnnounced
            <4> QED BY <1>0, <1>1, <2>2, <3>2, <4>1
        <3> QED BY <3>1, <3>2
    <2>5. dv_excused \ {p} \subseteq dv_excused'
        BY <2>1
    <2> QED BY <1>0, <2>1, <2>2, <2>3, <2>4, <2>5, OnePage
<1> QED BY <1>2, <1>3

\* A page that asks gets what is held, and is excused of what is not.
LEMMA AskInv ==
    ASSUME DvInv, NEW p \in DvPages, Subscribe(p) \/ Poll(p)
    PROVE  DvInv'
<1> DEFINE q == dv_pages[p]
           found == After(q.last)
<1>0. /\ q \in DvPageStates /\ q.last \in Nat /\ q.shown \in Nat /\ q.inbox \in Seq(Nat) /\ q.at \in DvAts
      /\ ToReceive(q, dv_id) /\ q.shown <= dv_version
      /\ Listens(q) => p \in dv_excused \/ q.shown = dv_version \/ dv_writer = "post" \/ q.blocked \/ q.inbox # <<>> \/ Asks(q)
    BY PageIs
<1>1. /\ found \in Seq(Nat) /\ \A k \in DOMAIN found : q.last < found[k] /\ found[k] <= dv_id
      /\ \A k, l \in DOMAIN found : k < l => found[k] < found[l]
      /\ (\E i \in DOMAIN dv_queue : Newer(dv_queue[i], q.last)) => found # <<>>
    <2> HIDE DEF q
    <2> QED BY <1>0, AfterIs DEF DvInv
<1>2. /\ q.at \in {"connects", "polls"} /\ dv_excused' = IF dv_dropped > q.last THEN dv_excused \cup {p} ELSE dv_excused
      /\ UNCHANGED <<dv_version, dv_writer, dv_queue, dv_id, dv_posted, dv_dropped>>
    BY DEF Subscribe, Poll, Missed
<1>3. p \in dv_excused' \/ q.shown = dv_version \/ dv_writer = "post" \/ q.blocked \/ found # <<>>
    <2>1. Listens(q) /\ q.inbox = <<>>
        BY <1>0, <1>2 DEF Listens, ToReceive
    <2>2. CASE Asks(q)
        BY <1>1, <1>2, <2>2 DEF Asks
    <2>3. CASE ~Asks(q)
        BY <1>0, <1>2, <2>1, <2>3
    <2> QED BY <2>2, <2>3
<1>4. dv_excused \ {p} \subseteq dv_excused'
    BY <1>2
<1>5. \A at \in DvAts, inbox \in Seq(Nat) :
          LET r == [q EXCEPT !.at = at, !.inbox = inbox] IN
          /\ r \in DvPageStates /\ r.at = at /\ r.inbox = inbox /\ r.last = q.last /\ r.shown = q.shown /\ r.blocked = q.blocked
    <2> HIDE DEF q
    <2> QED BY <1>0 DEF DvPageStates
<1>6. CASE Subscribe(p)
    <2> DEFINE r == [q EXCEPT !.at = "following", !.inbox = found]
    <2>1. SetPage(p, r)
        BY <1>6 DEF Subscribe
    <2>2. /\ r \in DvPageStates /\ r.at = "following" /\ r.inbox = found /\ r.last = q.last /\ r.shown = q.shown /\ r.blocked = q.blocked
        <3> HIDE DEF q, found
        <3> QED BY <1>1, <1>5 DEF DvAts
    <2> HIDE DEF r, found, q
    <2>3. ToReceive(r, dv_id)
        BY <1>0, <1>1, <2>2 DEF ToReceive
    <2> QED BY <1>0, <1>2, <1>3, <1>4, <2>1, <2>2, <2>3, OnePage
<1>7. CASE Poll(p) /\ found = <<>>
    <2> DEFINE r == [q EXCEPT !.at = "waiting"]
    <2>1. SetPage(p, r)
        BY <1>7 DEF Poll
    <2>2. /\ r \in DvPageStates /\ r.at = "waiting" /\ r.inbox = q.inbox /\ r.last = q.last /\ r.shown = q.shown /\ r.blocked = q.blocked
        <3>1. "waiting" \in DvAts
            BY DEF DvAts
        <3> HIDE DEF q
        <3> QED BY <1>0, <3>1 DEF DvPageStates
    <2> HIDE DEF r, found, q
    <2>3. ToReceive(r, dv_id)
        BY <1>0, <1>2, <2>2 DEF ToReceive
    <2> QED BY <1>0, <1>2, <1>3, <1>4, <1>7, <2>1, <2>2, <2>3, OnePage
<1>8. CASE Poll(p) /\ found # <<>>
    <2> DEFINE r == [q EXCEPT !.at = "answered", !.inbox = <<Head(found)>>]
    <2>1. SetPage(p, r)
        BY <1>8 DEF Poll
    <2>2. 1 \in DOMAIN found /\ Head(found) = found[1] /\ found[1] \in Nat
        <3> HIDE DEF found
        <3> QED BY <1>1, <1>8
    <2> DEFINE inbox == <<Head(found)>>
    <2>3. inbox \in Seq(Nat) /\ Len(inbox) = 1 /\ DOMAIN inbox = {1} /\ inbox[1] = found[1] /\ inbox # <<>>
        <3> HIDE DEF found
        <3> QED BY <2>2
    <2>4. /\ r \in DvPageStates /\ r.at = "answered" /\ r.inbox = inbox /\ r.last = q.last /\ r.shown = q.shown /\ r.blocked = q.blocked
        <3> HIDE DEF q, found
        <3> QED BY <1>5, <2>3 DEF DvAts
    <2> HIDE DEF r, found, q, inbox
    <2>5. ToReceive(r, dv_id)
        BY <1>0, <1>1, <2>2, <2>3, <2>4 DEF ToReceive
    <2> QED BY <1>0, <1>2, <1>3, <1>4, <2>1, <2>3, <2>4, <2>5, OnePage
<1> QED BY <1>6, <1>7, <1>8

\* What is received is fetched, and what is fetched are the rows.
LEMMA ReceiveInv ==
    ASSUME DvInv, NEW p \in DvPages, PollTimesOut(p) \/ Receive(p) \/ Refreshed(p)
    PROVE  DvInv'
<1> DEFINE q == dv_pages[p]
<1>0. /\ q \in DvPageStates /\ q.last \in Nat /\ q.shown \in Nat /\ q.inbox \in Seq(Nat) /\ q.at \in DvAts
      /\ q.blocked \in BOOLEAN /\ q.again \in BOOLEAN
      /\ ToReceive(q, dv_id) /\ q.shown <= dv_version
      /\ Listens(q) => p \in dv_excused \/ q.shown = dv_version \/ dv_writer = "post" \/ q.blocked \/ q.inbox # <<>> \/ Asks(q)
    BY PageIs
<1>1. dv_version \in Nat /\ dv_id \in Nat
    BY DEF DvInv, DvTypes
<1>2. CASE PollTimesOut(p)
    <2> DEFINE r == [q EXCEPT !.at = "polls"]
    <2>1. /\ q.at = "waiting" /\ SetPage(p, r)
          /\ UNCHANGED <<dv_version, dv_writer, dv_queue, dv_id, dv_posted, dv_dropped, dv_excused>>
        BY <1>2 DEF PollTimesOut
    <2>2. /\ r \in DvPageStates /\ r.at = "polls" /\ r.inbox = q.inbox /\ r.last = q.last /\ r.shown = q.shown /\ r.blocked = q.blocked
        <3>1. "polls" \in DvAts
            BY DEF DvAts
        <3> HIDE DEF q
        <3> QED BY <1>0, <3>1 DEF DvPageStates
    <2> HIDE DEF r, q
    <2>3. ToReceive(r, dv_id)
        BY <1>0, <2>1, <2>2 DEF ToReceive
    <2>4. Listens(q) /\ ~Asks(q)
        BY <2>1 DEF Listens, Asks
    <2> QED BY <1>0, <2>1, <2>2, <2>3, <2>4, OnePage
<1>3. CASE Receive(p)
    <2> DEFINE at == IF q.at = "answered" THEN "polls" ELSE q.at
               r == [q EXCEPT !.last = Head(q.inbox), !.inbox = Tail(q.inbox), !.at = at, !.again = q.blocked, !.blocked = TRUE]
    <2>1. /\ q.inbox # <<>> /\ SetPage(p, r)
          /\ UNCHANGED <<dv_version, dv_writer, dv_queue, dv_id, dv_posted, dv_dropped, dv_excused>>
        BY <1>3 DEF Receive
    <2> DEFINE L == Len(q.inbox)
               rest == Tail(q.inbox)
    <2>2. /\ L \in Nat \ {0} /\ DOMAIN q.inbox = 1 .. L /\ Head(q.inbox) = q.inbox[1] /\ q.inbox[1] \in Nat
          /\ rest \in Seq(Nat) /\ Len(rest) = L - 1 /\ DOMAIN rest = 1 .. L - 1 /\ \A i \in 1 .. L - 1 : rest[i] = q.inbox[i + 1]
        <3> HIDE DEF q
        <3> QED BY <1>0, <2>1
    <2>3. at \in DvAts
        BY <1>0 DEF DvAts
    <2>4. /\ r \in DvPageStates /\ r.at = at /\ r.inbox = rest /\ r.last = q.inbox[1] /\ r.shown = q.shown /\ r.blocked = TRUE
        <3> HIDE DEF q, at
        <3> QED BY <1>0, <2>2, <2>3 DEF DvPageStates
    <2>5. ToReceive(r, dv_id)
        <3> HIDE DEF r, q, rest, at, L
        <3>1. /\ q.inbox[1] <= dv_id /\ \A i \in 1 .. L : q.inbox[i] <= dv_id
              /\ \A i, j \in 1 .. L : i < j => q.inbox[i] < q.inbox[j]
            <4>1. /\ \A i \in DOMAIN q.inbox : q.inbox[i] <= dv_id
                  /\ \A i, j \in DOMAIN q.inbox : i < j => q.inbox[i] < q.inbox[j]
                BY <1>0 DEF ToReceive
            <4>2. 1 \in 1 .. L /\ DOMAIN q.inbox = 1 .. L
                BY <2>2
            <4> QED BY <4>1, <4>2
        <3>2. ASSUME NEW i \in 1 .. L - 1 PROVE i + 1 \in 1 .. L /\ 1 \in 1 .. L /\ 1 < i + 1
            BY <2>2
        <3>3. ASSUME NEW i \in 1 .. L - 1 PROVE q.inbox[1] < rest[i] /\ rest[i] <= dv_id
            BY <2>2, <3>1, <3>2
        <3>4. ASSUME NEW i \in 1 .. L - 1, NEW j \in 1 .. L - 1, i < j PROVE rest[i] < rest[j]
            <4>1. i + 1 < j + 1
                BY <2>2, <3>4
            <4> QED BY <2>2, <3>1, <3>2, <4>1
        <3>5. /\ at # "answered"
              /\ at \in {"none", "loaded", "connects", "polls", "waiting"} => rest = <<>>
            <4>1. q.at \notin {"none", "loaded", "connects", "polls", "waiting"}
                BY <1>0, <2>1 DEF ToReceive
            <4>2. q.at = "answered" => L = 1
                BY <1>0 DEF ToReceive, L
            <4>3. L = 1 => rest = <<>>
                BY <2>2
            <4> QED BY <4>1, <4>2, <4>3 DEF at
        <3> QED BY <2>2, <2>4, <3>1, <3>3, <3>4, <3>5 DEF ToReceive
    <2> HIDE DEF r, q, rest, at, L
    <2> QED BY <1>0, <2>1, <2>4, <2>5, OnePage
<1>4. CASE Refreshed(p)
    <2> DEFINE r == [q EXCEPT !.shown = dv_version, !.blocked = q.again, !.again = FALSE]
    <2>1. /\ SetPage(p, r) /\ dv_excused' = dv_excused \ {p}
          /\ UNCHANGED <<dv_version, dv_writer, dv_queue, dv_id, dv_posted, dv_dropped>>
        BY <1>4 DEF Refreshed
    <2>2. /\ r \in DvPageStates /\ r.at = q.at /\ r.inbox = q.inbox /\ r.last = q.last /\ r.shown = dv_version
        <3> HIDE DEF q
        <3> QED BY <1>0, <1>1 DEF DvPageStates
    <2> HIDE DEF r, q
    <2>3. ToReceive(r, dv_id)
        BY <1>0, <2>2 DEF ToReceive
    <2> QED BY <1>1, <2>1, <2>2, <2>3, OnePage
<1> QED BY <1>2, <1>3, <1>4

\* Each step keeps it.
LEMMA DvStepInv ==
    ASSUME DvInv, DeliveryAssumption, DvNext
    PROVE  DvInv'
BY WriterInv, RestartInv, LoadInv, AskInv, ReceiveInv DEF DvNext

\* A page that listens and has nothing to receive has what was announced.
LEMMA DvInvHolds == DvInv => DeliveryHolds
<1> SUFFICES ASSUME DvInv PROVE DeliveryHolds
    OBVIOUS
<1>1. PagesCatchUp
    <2> SUFFICES ASSUME NEW p \in DvPages, Follows(p), dv_pages[p].inbox = <<>>, ~dv_pages[p].blocked, p \notin dv_excused
                 PROVE  dv_pages[p].shown = dv_version \/ dv_writer = "post"
        BY DEF PagesCatchUp
    <2>1. Listens(dv_pages[p]) /\ ~Asks(dv_pages[p])
        BY DEF Follows, Listens, Asks
    <2> QED BY <2>1, PageIs
<1>2. EachOnce
    <2> SUFFICES ASSUME NEW p \in DvPages,
                        NEW i \in 1 .. Len(<<dv_pages[p].last>> \o dv_pages[p].inbox) - 1
                 PROVE  (<<dv_pages[p].last>> \o dv_pages[p].inbox)[i] < (<<dv_pages[p].last>> \o dv_pages[p].inbox)[i + 1]
        BY DEF EachOnce
    <2> DEFINE last == dv_pages[p].last
               inbox == dv_pages[p].inbox
               L == Len(inbox)
               seen == <<last>> \o inbox
    <2>1. last \in Nat /\ inbox \in Seq(Nat) /\ ToReceive(dv_pages[p], dv_id)
        BY PageIs
    <2>2. /\ \A k \in DOMAIN inbox : last < inbox[k]
          /\ \A k, l \in DOMAIN inbox : k < l => inbox[k] < inbox[l]
        BY <2>1 DEF ToReceive
    <2> HIDE DEF last, inbox
    <2>3. L \in Nat /\ DOMAIN inbox = 1 .. L /\ Len(seen) = L + 1 /\ seen[1] = last /\ \A k \in 1 .. L : seen[k + 1] = inbox[k]
        BY <2>1
    <2>4. i \in 1 .. L
        BY <2>3 DEF last, inbox
    <2>5. CASE i = 1
        BY <2>2, <2>3, <2>4, <2>5 DEF last, inbox
    <2>6. CASE i # 1
        <3>1. i - 1 \in 1 .. L /\ i - 1 < i /\ (i - 1) + 1 = i
            BY <2>3, <2>4, <2>6
        <3>2. seen[i] = inbox[i - 1] /\ seen[i + 1] = inbox[i] /\ inbox[i - 1] < inbox[i]
            BY <2>2, <2>3, <2>4, <3>1
        <3> QED BY <3>2 DEF last, inbox
    <2> QED BY <2>5, <2>6
<1> QED BY <1>1, <1>2 DEF DeliveryHolds

\* A step that changes nothing keeps what holds of the pages and the daemon.
LEMMA DvStays == DvInv /\ UNCHANGED dvvars => DvInv'
BY DEF DvInv, DvTypes, DvHeld, DvAnnounced, PageRight, ToReceive, Asks, Listens, dvvars

\* A page that listens and has nothing left to receive shows the rows as they are, but for changes missed in one
\* of the known ways; and it receives messages in order, none twice: for any number of pages, of messages that the
\* daemon holds and of its restarts.
THEOREM SubmissionPagesCatchUp == ASSUME DeliveryAssumption PROVE DvSpec => []DeliveryHolds
<1>1. DvInit => DvInv
    BY DvInitInv
<1>2. DvInv /\ [DvNext]_dvvars => DvInv'
    BY DvStepInv, DvStays
<1>3. DvInv => DeliveryHolds
    BY DvInvHolds
<1> QED BY <1>1, <1>2, <1>3, PTL DEF DvSpec

-----------------------------------------------------------------------------
(* The list of recent submissions.                                         *)

RcStates == {"none", "QU", "G", "D"}
RcEvents == [id : RecentIds, done : BOOLEAN]
RcAsks == [id : RecentIds, force : BOOLEAN, read : RcStates]

RcTypes ==
    /\ rc_status \in [RecentIds -> RcStates] /\ rc_shown \in [RecentIds -> RcStates]
    /\ rc_made \in {"none", "rows", "open"}
    /\ rc_rows \in Seq(RecentIds) /\ rc_first \in 0 .. MaxRecent
    /\ rc_events \in Seq(RcEvents) /\ rc_asked \subseteq RcAsks
    /\ rc_made # "open" => rc_events = <<>> /\ rc_asked = {}

\* The end of grading is announced, and after its steps.
EventsTell ==
    \A n \in DOMAIN rc_events : rc_status[rc_events[n].id] = "D" =>
        rc_events[n].done \/ \E m \in DOMAIN rc_events : n < m /\ rc_events[m] = [id |-> rc_events[n].id, done |-> TRUE]
DoneIsDone == \A n \in DOMAIN rc_events : rc_events[n].done => rc_status[rc_events[n].id] = "D"
ForcedAreDone == \A ask \in rc_asked : ask.force => rc_status[ask.id] = "D" /\ ask.read \in {"none", "D"}

\* The page is going to see that a submission is done, or shows it.
Shows(i) ==
    \/ \E n \in DOMAIN rc_events : rc_events[n] = [id |-> i, done |-> TRUE]
    \/ \E ask \in rc_asked : ask.id = i /\ ask.force
    \/ i \notin Range(rc_rows)
    \/ rc_shown[i] = "D"

RcInv ==
    /\ RcTypes /\ RowsInOrder
    /\ EventsTell /\ DoneIsDone /\ ForcedAreDone
    /\ rc_made = "rows" => \A i \in RecentIds \ rc_loose : rc_shown[i] = rc_status[i]
    /\ rc_made = "open" => \A i \in RecentIds \ rc_loose : rc_status[i] = "D" => Shows(i)

\* There are no submissions and no page at first.
LEMMA RcInitInv ==
    ASSUME RecentAssumption, RcInit
    PROVE  RcInv
<1>1. RcTypes
    BY DEF RecentAssumption, RcInit, RcTypes, RcStates, RecentIds
<1>2. RowsInOrder
    BY DEF RecentAssumption, RcInit, RowsInOrder
<1>3. EventsTell /\ DoneIsDone /\ ForcedAreDone
    BY DEF RcInit, EventsTell, DoneIsDone, ForcedAreDone
<1> QED BY <1>1, <1>2, <1>3 DEF RcInit, RcInv

\* A submission that is done stays so.
LEMMA DoneStays ==
    ASSUME RcTypes, NEW i \in RecentIds, NEW status \in {"QU", "G", "D"}, SubmissionMoves(i, status)
    PROVE  /\ rc_status' \in [RecentIds -> RcStates] /\ rc_status[i] # "D" /\ rc_status'[i] = status
           /\ \A o \in RecentIds : o # i => rc_status'[o] = rc_status[o]
           /\ \A o \in RecentIds : rc_status[o] = "D" => rc_status'[o] = "D"
<1>1. Stage[status] = Stage[rc_status[i]] + 1 /\ rc_status' = [rc_status EXCEPT ![i] = status]
    BY DEF SubmissionMoves
<1>2. rc_status[i] # "D"
    BY <1>1 DEF Stage
<1> QED BY <1>1, <1>2 DEF RcTypes, RcStates

\* A submission that moves on is announced.
LEMMA MovesInv ==
    ASSUME RcInv, NEW i \in RecentIds, NEW status \in {"QU", "G", "D"}, SubmissionMoves(i, status)
    PROVE  RcInv'
<1> USE DEF RcInv
<1>1. /\ rc_status' \in [RecentIds -> RcStates] /\ rc_status[i] # "D" /\ rc_status'[i] = status
      /\ \A o \in RecentIds : o # i => rc_status'[o] = rc_status[o]
      /\ \A o \in RecentIds : rc_status[o] = "D" => rc_status'[o] = "D"
    BY DoneStays
<1>2. /\ rc_events' = IF rc_made = "open" THEN Append(rc_events, [id |-> i, done |-> status = "D"]) ELSE rc_events
      /\ rc_loose' = IF rc_made = "rows" THEN rc_loose \cup {i} ELSE rc_loose
      /\ UNCHANGED <<rc_made, rc_rows, rc_shown, rc_first, rc_asked>>
    BY DEF SubmissionMoves
<1>3. RowsInOrder' /\ ForcedAreDone'
    <2>1. \A ask \in rc_asked : ask.id \in RecentIds
        BY DEF RcTypes, RcAsks
    <2> QED BY <1>1, <1>2, <2>1 DEF RowsInOrder, ForcedAreDone
<1>4. CASE rc_made # "open"
    <2>1. rc_events' = <<>> /\ rc_asked' = {}
        BY <1>2, <1>4 DEF RcTypes
    <2>2. RcTypes'
        BY <1>1, <1>2, <2>1 DEF RcTypes
    <2>3. EventsTell' /\ DoneIsDone'
        BY <2>1 DEF EventsTell, DoneIsDone
    <2>4. rc_made = "rows" => \A o \in RecentIds \ rc_loose' : rc_shown[o] = rc_status'[o]
        BY <1>1, <1>2
    <2> QED BY <1>2, <1>3, <1>4, <2>2, <2>3, <2>4
<1>5. CASE rc_made = "open"
    <2> DEFINE done == (status = "D")
               new == [id |-> i, done |-> done]
               L == Len(rc_events)
    <2>0. rc_events' = Append(rc_events, new) /\ done \in BOOLEAN /\ (done <=> status = "D")
        BY <1>2, <1>5
    <2> HIDE DEF done
    <2>1. new \in RcEvents /\ new.id = i /\ (new.done <=> status = "D") /\ (status = "D" => new = [id |-> i, done |-> TRUE])
        <3>1. new \in RcEvents /\ new.id = i /\ new.done = done
            BY <2>0 DEF RcEvents
        <3>2. done => new = [id |-> i, done |-> TRUE]
            <4>1. done => done = TRUE
                BY <2>0
            <4> QED BY <4>1
        <3> QED BY <2>0, <3>1, <3>2
    <2> HIDE DEF new
    <2>2. /\ L \in Nat /\ DOMAIN rc_events = 1 .. L /\ (\A n \in 1 .. L : rc_events[n] \in RcEvents)
          /\ rc_events' \in Seq(RcEvents) /\ DOMAIN rc_events' = 1 .. L + 1 /\ rc_events'[L + 1] = new
          /\ \A n \in 1 .. L : rc_events'[n] = rc_events[n]
        <3>1. rc_events \in Seq(RcEvents)
            BY DEF RcTypes
        <3> QED BY <2>0, <2>1, <3>1
    <2>3. RcTypes'
        BY <1>1, <1>2, <1>5, <2>2 DEF RcTypes
    <2>4. \A n \in 1 .. L : n \in 1 .. L + 1 /\ n < L + 1 /\ rc_events[n].id \in RecentIds
        BY <2>2 DEF RcEvents
    <2>5. L + 1 \in 1 .. L + 1 /\ \A n \in 1 .. L + 1 : n \in 1 .. L \/ n = L + 1
        BY <2>2
    <2>6. EventsTell'
        <3> SUFFICES ASSUME NEW n \in 1 .. L + 1, rc_status'[rc_events'[n].id] = "D", ~rc_events'[n].done
                     PROVE  \E m \in 1 .. L + 1 : n < m /\ rc_events'[m] = [id |-> rc_events'[n].id, done |-> TRUE]
            BY <2>2 DEF EventsTell
        <3>1. n \in 1 .. L
            <4>1. n = L + 1 => status # "D" /\ rc_status'[i] = "D"
                BY <2>1, <2>2
            <4> QED BY <1>1, <2>5, <4>1
        <3>2. CASE rc_events[n].id = i
            <4>1. status = "D"
                BY <1>1, <2>2, <3>1, <3>2
            <4>2. rc_events'[L + 1] = [id |-> i, done |-> TRUE]
                BY <2>1, <2>2, <4>1
            <4> QED BY <2>2, <2>4, <2>5, <3>1, <3>2, <4>2
        <3>3. CASE rc_events[n].id # i
            <4>1. rc_status[rc_events[n].id] = "D" /\ ~rc_events[n].done
                BY <1>1, <2>2, <2>4, <3>1, <3>3
            <4>2. PICK m \in 1 .. L : n < m /\ rc_events[m] = [id |-> rc_events[n].id, done |-> TRUE]
                BY <2>2, <3>1, <4>1 DEF EventsTell
            <4> QED BY <2>2, <2>4, <3>1, <4>2
        <3> QED BY <3>2, <3>3
    <2>7. DoneIsDone'
        <3> SUFFICES ASSUME NEW n \in 1 .. L + 1, rc_events'[n].done PROVE rc_status'[rc_events'[n].id] = "D"
            BY <2>2 DEF DoneIsDone
        <3>1. CASE n = L + 1
            BY <1>1, <2>1, <2>2, <3>1
        <3>2. CASE n \in 1 .. L
            BY <1>1, <2>2, <2>4, <3>2 DEF DoneIsDone
        <3> QED BY <2>5, <3>1, <3>2
    <2>8. ASSUME NEW o \in RecentIds \ rc_loose', rc_status'[o] = "D"
          PROVE  Shows(o)'
        <3>1. CASE o = i
            <4>1. rc_events'[L + 1] = [id |-> o, done |-> TRUE]
                BY <1>1, <2>1, <2>2, <2>8, <3>1
            <4> QED BY <2>2, <2>5, <4>1 DEF Shows
        <3>2. CASE o # i
            <4>1. Shows(o)
                BY <1>1, <1>2, <1>5, <2>8, <3>2
            <4>2. (\E n \in DOMAIN rc_events : rc_events[n] = [id |-> o, done |-> TRUE])
                  => \E n \in DOMAIN rc_events' : rc_events'[n] = [id |-> o, done |-> TRUE]
                BY <2>2, <2>4
            <4> QED BY <1>2, <4>1, <4>2 DEF Shows
        <3> QED BY <3>1, <3>2
    <2> QED BY <1>2, <1>3, <1>5, <2>3, <2>6, <2>7, <2>8
<1> QED BY <1>4, <1>5

\* The newest rows come one after the other, and fit on the page.
LEMMA NewestIs ==
    ASSUME RcTypes, RecentAssumption
    PROVE  /\ NewestRows \in Seq(RecentIds) /\ Len(NewestRows) <= RowsPerPage
           /\ \A a, b \in DOMAIN NewestRows : a < b => NewestRows[a] > NewestRows[b]
<1> DEFINE made == {i \in RecentIds : rc_status[i] # "none"}
           top == MaxOf(made)
           n == IF top < RowsPerPage THEN top ELSE RowsPerPage
<1>1. top \in 0 .. MaxRecent
    <2>1. CASE made = {}
        BY <2>1 DEF MaxOf, RecentAssumption
    <2>2. CASE made # {}
        <3>1. made \in SUBSET (0 .. MaxRecent) /\ MaxRecent \in Nat
            BY DEF RecentIds, RecentAssumption
        <3> HIDE DEF made
        <3>2. Max(made) \in made
            BY <2>2, <3>1, LastNumber
        <3> QED BY <2>2, <3>1, <3>2 DEF MaxOf
    <2> QED BY <2>1, <2>2
<1>2. NewestRows = [k \in 1 .. n |-> (top - k) + 1]
    BY DEF NewestRows
<1> HIDE DEF top, made
<1>3. n \in Nat /\ n <= RowsPerPage /\ n <= top /\ \A k \in 1 .. n : (top - k) + 1 \in RecentIds
    BY <1>1 DEF RecentAssumption, RecentIds
<1> HIDE DEF n
<1>4. NewestRows \in Seq(RecentIds) /\ Len(NewestRows) = n /\ DOMAIN NewestRows = 1 .. n
    <2>1. NewestRows \in [1 .. n -> RecentIds]
        BY <1>2, <1>3
    <2>2. NewestRows \in Seq(RecentIds)
        BY <1>3, <2>1
    <2> QED BY <1>2, <1>3, <2>2
<1>5. \A a, b \in 1 .. n : a < b => (top - a) + 1 > (top - b) + 1
    BY <1>1, <1>3 DEF RecentAssumption
<1> QED BY <1>2, <1>3, <1>4, <1>5

\* A row that is newer than the others goes to the top.
LEMMA PrependedIs ==
    ASSUME RcTypes, RecentAssumption, RowsInOrder, rc_made = "open", NEW id \in RecentIds,
           id \notin Range(rc_rows), ~(id < rc_first)
    PROVE  /\ Prepended(id) \in Seq(RecentIds) /\ Len(Prepended(id)) <= RowsPerPage
           /\ \A a, b \in DOMAIN Prepended(id) : a < b => Prepended(id)[a] > Prepended(id)[b]
           /\ Prepended(id) # <<>> => Head(Prepended(id)) = id
           /\ Range(Prepended(id)) \subseteq Range(rc_rows) \cup {id}
<1> DEFINE L == Len(rc_rows)
           rows == <<id>> \o rc_rows
<1>1. /\ rc_rows \in Seq(RecentIds) /\ L \in Nat /\ DOMAIN rc_rows = 1 .. L /\ L <= RowsPerPage /\ RowsPerPage \in Nat \ {0}
      /\ \A a \in 1 .. L : rc_rows[a] \in RecentIds
    BY DEF RcTypes, RowsInOrder, RecentAssumption
<1>2. id \in Nat /\ \A a \in 1 .. L : rc_rows[a] < id
    <2>1. id \in Nat /\ \A a \in 1 .. L : rc_rows[a] \in Nat
        BY <1>1 DEF RecentIds, RecentAssumption
    <2>2. ASSUME NEW a \in 1 .. L
          PROVE  rc_rows[a] < id
        <3>1. 1 \in 1 .. L /\ rc_rows # <<>> /\ Head(rc_rows) = rc_rows[1]
            BY <1>1, <2>2
        <3>2. rc_rows[1] = rc_first
            BY <3>1 DEF RowsInOrder
        <3>3. rc_rows[1] # id
            BY <1>1, <3>1 DEF Range
        <3>4. rc_rows[1] < id
            BY <2>1, <3>1, <3>2, <3>3
        <3>5. a # 1 => rc_rows[1] > rc_rows[a]
            BY <1>1, <3>1 DEF RowsInOrder
        <3> QED BY <2>1, <3>1, <3>4, <3>5
    <2> QED BY <2>1, <2>2
<1>3. /\ rows \in Seq(RecentIds) /\ Len(rows) = L + 1 /\ rows[1] = id /\ \A k \in 1 .. L : rows[k + 1] = rc_rows[k]
    BY <1>1
<1> HIDE DEF rows
<1>4. /\ DOMAIN rows = 1 .. L + 1 /\ 1 \in 1 .. L + 1
      /\ \A k \in 1 .. L + 1 : k = 1 \/ (k - 1 \in 1 .. L /\ rows[k] = rc_rows[k - 1])
    <2>1. DOMAIN rows = 1 .. L + 1 /\ 1 \in 1 .. L + 1
        BY <1>1, <1>3
    <2>2. ASSUME NEW k \in 1 .. L + 1, k # 1 PROVE k - 1 \in 1 .. L /\ (k - 1) + 1 = k
        BY <1>1, <2>2
    <2> QED BY <1>3, <2>1, <2>2
<1>5. \A a, b \in 1 .. L + 1 : a < b => rows[a] > rows[b]
    <2> SUFFICES ASSUME NEW a \in 1 .. L + 1, NEW b \in 1 .. L + 1, a < b PROVE rows[a] > rows[b]
        OBVIOUS
    <2>1. b - 1 \in 1 .. L /\ rows[b] = rc_rows[b - 1]
        BY <1>1, <1>4
    <2>2. CASE a = 1
        <3>1. rc_rows[b - 1] < id /\ rc_rows[b - 1] \in RecentIds
            BY <1>1, <1>2, <2>1
        <3> QED BY <1>2, <1>3, <2>1, <2>2, <3>1 DEF RecentIds
    <2>3. CASE a # 1
        <3>1. a - 1 \in 1 .. L /\ rows[a] = rc_rows[a - 1] /\ a - 1 < b - 1
            BY <1>1, <1>4, <2>3
        <3> QED BY <1>1, <2>1, <3>1 DEF RowsInOrder
    <2> QED BY <2>2, <2>3
<1>6. \A k \in 1 .. L + 1 : rows[k] \in Range(rc_rows) \cup {id}
    BY <1>1, <1>3, <1>4 DEF Range
<1>7. Prepended(id) = IF Len(rows) >= RowsPerPage THEN Front(rows) ELSE rows
    BY DEF Prepended, rows
<1>8. CASE Len(rows) >= RowsPerPage
    <2> DEFINE front == Prepended(id)
    <2>1. front = SubSeq(rows, 1, L)
        BY <1>1, <1>3, <1>7, <1>8 DEF Front
    <2>2. front \in Seq(RecentIds) /\ Len(front) = L /\ DOMAIN front = 1 .. L /\ \A k \in 1 .. L : front[k] = rows[k]
        <3> HIDE DEF front
        <3> QED BY <1>1, <1>3, <2>1
    <2>3. front # <<>> => Head(front) = id
        <3> HIDE DEF front
        <3>1. front # <<>> => 1 \in 1 .. L /\ Head(front) = front[1]
            BY <1>1, <2>2
        <3> QED BY <1>3, <2>2, <3>1
    <2>4. \A k \in 1 .. L : k \in 1 .. L + 1
        BY <1>1
    <2> HIDE DEF front
    <2>5. \A a, b \in DOMAIN front : a < b => front[a] > front[b]
        BY <1>5, <2>2, <2>4
    <2>6. Range(front) \subseteq Range(rc_rows) \cup {id}
        BY <1>6, <2>2, <2>4 DEF Range
    <2> QED BY <1>1, <2>2, <2>3, <2>5, <2>6 DEF front
<1>9. CASE ~(Len(rows) >= RowsPerPage)
    <2>1. Prepended(id) = rows /\ Len(rows) <= RowsPerPage /\ Head(rows) = id
        BY <1>1, <1>3, <1>4, <1>7, <1>9
    <2>2. Range(rows) \subseteq Range(rc_rows) \cup {id}
        <3>1. \A x \in Range(rows) : \E k \in DOMAIN rows : x = rows[k]
            BY DEF Range
        <3> QED BY <1>4, <1>6, <3>1
    <2> QED BY <1>3, <1>4, <1>5, <2>1, <2>2
<1> QED BY <1>8, <1>9

\* The page is made.
LEMMA MadeInv ==
    ASSUME RcInv, RecentAssumption, ReadRows \/ OpenRecent
    PROVE  RcInv'
<1> USE DEF RcInv
<1>1. CASE ReadRows
    <2>1. /\ rc_made = "none" /\ rc_made' = "rows" /\ rc_rows' = NewestRows /\ rc_shown' = rc_status
          /\ rc_events = <<>> /\ rc_asked = {}
          /\ UNCHANGED <<rc_status, rc_first, rc_events, rc_asked, rc_loose>>
        BY <1>1 DEF ReadRows, RcTypes
    <2>2. RcTypes' /\ RowsInOrder'
        BY <2>1, NewestIs DEF RcTypes, RowsInOrder
    <2>3. EventsTell' /\ DoneIsDone' /\ ForcedAreDone'
        BY <2>1 DEF EventsTell, DoneIsDone, ForcedAreDone
    <2> QED BY <2>1, <2>2, <2>3
<1>2. CASE OpenRecent
    <2>1. /\ rc_made = "rows" /\ rc_made' = "open" /\ rc_first' = IF rc_rows = <<>> THEN 0 ELSE Head(rc_rows)
          /\ rc_events = <<>> /\ rc_asked = {}
          /\ UNCHANGED <<rc_status, rc_rows, rc_shown, rc_events, rc_asked, rc_loose>>
        BY <1>2 DEF OpenRecent, RcTypes
    <2>2. rc_first' \in 0 .. MaxRecent
        <3>1. rc_rows # <<>> => Head(rc_rows) \in RecentIds
            BY DEF RcTypes
        <3> QED BY <2>1, <3>1 DEF RecentIds, RecentAssumption
    <2>3. RcTypes' /\ RowsInOrder'
        BY <2>1, <2>2 DEF RcTypes, RowsInOrder
    <2>4. EventsTell' /\ DoneIsDone' /\ ForcedAreDone'
        BY <2>1 DEF EventsTell, DoneIsDone, ForcedAreDone
    <2>5. \A i \in RecentIds \ rc_loose' : rc_status'[i] = "D" => Shows(i)'
        BY <2>1 DEF Shows
    <2> QED BY <2>1, <2>3, <2>4, <2>5
<1> QED BY <1>1, <1>2

\* An event that is seen has its row asked for, or one that comes later does.
LEMMA SeeInv ==
    ASSUME RcInv, RecentAssumption, SeeEvent
    PROVE  RcInv'
<1> USE DEF RcInv
<1> DEFINE event == Head(rc_events)
           there == event.id \in Range(rc_rows)
           passed == ~there /\ event.id < rc_first
           L == Len(rc_events)
<1>1. /\ rc_made = "open" /\ rc_events # <<>> /\ rc_events' = Tail(rc_events)
      /\ UNCHANGED <<rc_status, rc_made, rc_loose>>
      /\ passed => UNCHANGED <<rc_rows, rc_shown, rc_first, rc_asked>>
      /\ ~passed /\ there => UNCHANGED <<rc_rows, rc_shown, rc_first>>
      /\ ~passed /\ ~there => /\ rc_first' = event.id /\ rc_rows' = Prepended(event.id)
                              /\ rc_shown' = [rc_shown EXCEPT ![event.id] = "none"]
      /\ ~passed => \/ rc_asked' = rc_asked \cup {[id |-> event.id, force |-> event.done, read |-> "none"]}
                    \/ rc_asked' = rc_asked /\ ~event.done
    BY DEF SeeEvent, AskRow, Forced
<1>2. /\ L \in Nat \ {0} /\ DOMAIN rc_events = 1 .. L /\ event = rc_events[1] /\ event \in RcEvents
      /\ rc_events' \in Seq(RcEvents) /\ DOMAIN rc_events' = 1 .. L - 1
      /\ \A n \in 1 .. L - 1 : rc_events'[n] = rc_events[n + 1]
    <2>1. rc_events \in Seq(RcEvents)
        BY DEF RcTypes
    <2> QED BY <1>1, <2>1
<1>3. event.id \in RecentIds /\ event.done \in BOOLEAN
    BY <1>2 DEF RcEvents
<1> HIDE DEF event, L
<1>4. /\ \A n \in 1 .. L - 1 : n + 1 \in 1 .. L
      /\ \A n \in 1 .. L : n = 1 \/ (n - 1 \in 1 .. L - 1 /\ rc_events'[n - 1] = rc_events[n])
    <2>1. \A n \in 1 .. L - 1 : n + 1 \in 1 .. L
        BY <1>2
    <2>2. ASSUME NEW n \in 1 .. L, n # 1 PROVE n - 1 \in 1 .. L - 1 /\ (n - 1) + 1 = n
        BY <1>2, <2>2
    <2> QED BY <1>2, <2>1, <2>2
<1>5. /\ rc_asked' \subseteq RcAsks /\ rc_asked \subseteq rc_asked'
      /\ \A ask \in rc_asked' : ask.force => rc_status[ask.id] = "D" /\ ask.read \in {"none", "D"}
    <2> DEFINE new == [id |-> event.id, force |-> event.done, read |-> "none"]
    <2>1. new \in RcAsks
        BY <1>3 DEF RcAsks, RcStates
    <2>2. rc_asked \subseteq rc_asked' /\ rc_asked' \subseteq rc_asked \cup {new}
        BY <1>1
    <2>3. new.force => rc_status[new.id] = "D" /\ new.read \in {"none", "D"}
        <3>1. event.done => rc_status[event.id] = "D"
            <4>1. 1 \in DOMAIN rc_events /\ event = rc_events[1]
                BY <1>2
            <4> QED BY <4>1 DEF DoneIsDone
        <3> QED BY <3>1
    <2> HIDE DEF new
    <2> QED BY <2>1, <2>2, <2>3 DEF ForcedAreDone, RcTypes
<1>6. /\ RcTypes' /\ RowsInOrder' /\ Range(rc_rows') \subseteq Range(rc_rows) \cup {event.id}
      /\ rc_shown' \in [RecentIds -> RcStates] /\ \A i \in RecentIds : i # event.id => rc_shown'[i] = rc_shown[i]
      /\ there => rc_rows' = rc_rows /\ rc_shown' = rc_shown
    <2>1. CASE passed \/ there
        <3>1. UNCHANGED <<rc_rows, rc_shown, rc_first>>
            BY <1>1, <2>1
        <3> QED BY <1>1, <1>2, <1>5, <3>1 DEF RcTypes, RowsInOrder
    <2>2. CASE ~passed /\ ~there
        <3>1. /\ rc_first' = event.id /\ rc_rows' = Prepended(event.id) /\ rc_shown' = [rc_shown EXCEPT ![event.id] = "none"]
            BY <1>1, <2>2
        <3>2. /\ rc_rows' \in Seq(RecentIds) /\ Len(rc_rows') <= RowsPerPage
              /\ \A a, b \in DOMAIN rc_rows' : a < b => rc_rows'[a] > rc_rows'[b]
              /\ rc_rows' # <<>> => Head(rc_rows') = rc_first'
              /\ Range(rc_rows') \subseteq Range(rc_rows) \cup {event.id}
            BY <1>1, <1>3, <2>2, <3>1, PrependedIs
        <3>3. /\ rc_shown' \in [RecentIds -> RcStates] /\ \A i \in RecentIds : i # event.id => rc_shown'[i] = rc_shown[i]
            BY <3>1 DEF RcTypes, RcStates
        <3>4. rc_first' \in 0 .. MaxRecent
            BY <1>3, <3>1 DEF RecentIds, RecentAssumption
        <3> QED BY <1>1, <1>2, <1>5, <2>2, <3>2, <3>3, <3>4 DEF RcTypes, RowsInOrder
    <2> QED BY <2>1, <2>2
<1>7. EventsTell' /\ DoneIsDone'
    <2>1. ASSUME NEW n \in 1 .. L - 1, rc_status[rc_events'[n].id] = "D", ~rc_events'[n].done
          PROVE  \E m \in 1 .. L - 1 : n < m /\ rc_events'[m] = [id |-> rc_events'[n].id, done |-> TRUE]
        <3>1. n + 1 \in 1 .. L /\ rc_events'[n] = rc_events[n + 1]
            BY <1>2, <1>4
        <3>2. PICK m \in 1 .. L : n + 1 < m /\ rc_events[m] = [id |-> rc_events'[n].id, done |-> TRUE]
            BY <1>2, <2>1, <3>1 DEF EventsTell
        <3>3. m - 1 \in 1 .. L - 1 /\ n < m - 1 /\ m # 1
            BY <1>2, <3>2
        <3> QED BY <1>4, <3>2, <3>3
    <2>2. ASSUME NEW n \in 1 .. L - 1, rc_events'[n].done
          PROVE  rc_status[rc_events'[n].id] = "D"
        BY <1>2, <1>4, <2>2 DEF DoneIsDone
    <2> QED BY <1>1, <1>2, <2>1, <2>2 DEF EventsTell, DoneIsDone
<1>8. ForcedAreDone'
    BY <1>1, <1>5 DEF ForcedAreDone
<1>9. ASSUME NEW i \in RecentIds \ rc_loose, rc_status[i] = "D"
      PROVE  Shows(i)'
    <2>1. Shows(i)
        BY <1>1, <1>9
    <2>2. CASE \E n \in DOMAIN rc_events' : rc_events'[n] = [id |-> i, done |-> TRUE]
        BY <2>2 DEF Shows
    <2>3. CASE ~\E n \in DOMAIN rc_events' : rc_events'[n] = [id |-> i, done |-> TRUE]
        <3>1. \A n \in 1 .. L : rc_events[n] = [id |-> i, done |-> TRUE] => n = 1
            BY <1>2, <1>4, <2>3
        <3>2. CASE event.id = i /\ ~event.done
            <4>1. 1 \in DOMAIN rc_events /\ rc_events[1] = event
                BY <1>2
            <4>2. PICK m \in DOMAIN rc_events : 1 < m /\ rc_events[m] = [id |-> i, done |-> TRUE]
                BY <1>9, <3>2, <4>1 DEF EventsTell
            <4> QED BY <1>2, <3>1, <4>2
        <3>3. CASE event.id = i /\ event.done /\ passed
            BY <1>1, <3>3 DEF Shows
        <3>4. CASE event.id = i /\ event.done /\ ~passed
            <4> DEFINE new == [id |-> event.id, force |-> event.done, read |-> "none"]
            <4>1. new \in rc_asked' /\ new.id = i /\ new.force
                BY <1>1, <3>4
            <4> QED BY <4>1 DEF Shows
        <3>5. CASE event.id # i
            <4>1. ~\E n \in DOMAIN rc_events : rc_events[n] = [id |-> i, done |-> TRUE]
                <5>1. event # [id |-> i, done |-> TRUE]
                    BY <3>5
                <5> QED BY <1>2, <3>1, <5>1
            <4>2. i \notin Range(rc_rows) => i \notin Range(rc_rows')
                BY <1>6, <3>5
            <4> QED BY <1>5, <1>6, <2>1, <3>5, <4>1, <4>2 DEF Shows
        <3> QED BY <1>3, <3>2, <3>3, <3>4, <3>5
    <2> QED BY <2>2, <2>3
<1> QED BY <1>1, <1>6, <1>7, <1>8, <1>9

\* Rows are asked for, answered, or not.
LEMMA AnswersInv ==
    ASSUME RcInv, NEW ask \in rc_asked, SingleSubmission(ask) \/ RowAnswered(ask) \/ RowFails(ask)
    PROVE  RcInv'
<1> USE DEF RcInv
<1>1. /\ UNCHANGED <<rc_status, rc_made, rc_rows, rc_first, rc_events>>
      /\ rc_made = "open" /\ ask \in RcAsks /\ ask.id \in RecentIds /\ ask.read \in RcStates
    <2>1. rc_made = "open" /\ ask \in RcAsks
        BY DEF RcTypes
    <2> QED BY <2>1 DEF SingleSubmission, RowAnswered, RowFails, RcAsks
<1>2. RowsInOrder' /\ EventsTell' /\ DoneIsDone'
    BY <1>1 DEF RowsInOrder, EventsTell, DoneIsDone
<1>3. ask.force => rc_status[ask.id] = "D" /\ ask.read \in {"none", "D"}
    BY DEF ForcedAreDone
<1>4. CASE SingleSubmission(ask)
    <2> DEFINE new == [ask EXCEPT !.read = rc_status[ask.id]]
    <2>1. rc_asked' = (rc_asked \ {ask}) \cup {new} /\ UNCHANGED <<rc_shown, rc_loose>>
        BY <1>4 DEF SingleSubmission
    <2>2. new \in RcAsks /\ new.id = ask.id /\ new.force = ask.force /\ new.read = rc_status[ask.id]
        BY <1>1 DEF RcAsks, RcTypes
    <2> HIDE DEF new
    <2>3. RcTypes'
        BY <1>1, <2>1, <2>2 DEF RcTypes
    <2>4. ForcedAreDone'
        BY <1>1, <1>3, <2>1, <2>2 DEF ForcedAreDone
    <2>5. ASSUME NEW i \in RecentIds \ rc_loose, rc_status[i] = "D"
          PROVE  Shows(i)'
        <3>1. Shows(i)
            BY <1>1, <2>5
        <3>2. (\E o \in rc_asked : o.id = i /\ o.force) => \E o \in rc_asked' : o.id = i /\ o.force
            BY <2>1, <2>2
        <3> QED BY <1>1, <2>1, <3>1, <3>2 DEF Shows
    <2> QED BY <1>1, <1>2, <2>1, <2>3, <2>4, <2>5
<1>5. CASE RowAnswered(ask)
    <2>1. /\ ask.read # "none" /\ rc_asked' = rc_asked \ {ask}
          /\ rc_shown' = [rc_shown EXCEPT ![ask.id] = ask.read]
          /\ rc_loose' = IF Stage[ask.read] < Stage[rc_shown[ask.id]] THEN rc_loose \cup {ask.id} ELSE rc_loose
        BY <1>5 DEF RowAnswered
    <2>2. RcTypes' /\ rc_shown'[ask.id] = ask.read /\ \A i \in RecentIds : i # ask.id => rc_shown'[i] = rc_shown[i]
        BY <1>1, <2>1 DEF RcTypes
    <2>3. ForcedAreDone'
        BY <1>1, <2>1 DEF ForcedAreDone
    <2>4. ASSUME NEW i \in RecentIds \ rc_loose', rc_status[i] = "D"
          PROVE  Shows(i)'
        <3>1. Shows(i) /\ i \notin rc_loose
            BY <1>1, <2>1, <2>4
        <3>2. CASE i # ask.id
            <4>1. (\E o \in rc_asked : o.id = i /\ o.force) => \E o \in rc_asked' : o.id = i /\ o.force
                BY <2>1, <3>2
            <4> QED BY <1>1, <2>2, <3>1, <3>2, <4>1 DEF Shows
        <3>3. CASE i = ask.id /\ ask.force
            BY <1>3, <2>1, <2>2, <3>3 DEF Shows
        <3>4. CASE i = ask.id /\ ~ask.force
            <4>1. (\E o \in rc_asked : o.id = i /\ o.force) => \E o \in rc_asked' : o.id = i /\ o.force
                BY <2>1, <3>4
            <4>2. rc_shown[i] = "D" => ask.read = "D"
                <5>1. CASE rc_shown[i] = "D" /\ ask.read # "D"
                    <6>1. Stage[ask.read] < Stage["D"]
                        BY <1>1, <5>1 DEF Stage, RcStates
                    <6>2. i \in rc_loose'
                        BY <2>1, <3>4, <5>1, <6>1
                    <6> QED BY <2>4, <6>2
                <5> QED BY <5>1
            <4> QED BY <1>1, <2>2, <3>1, <3>4, <4>1, <4>2 DEF Shows
        <3> QED BY <3>2, <3>3, <3>4
    <2> QED BY <1>1, <1>2, <2>2, <2>3, <2>4
<1>6. CASE RowFails(ask)
    <2>1. /\ rc_asked' = rc_asked \ {ask} /\ rc_loose' = rc_loose \cup {ask.id} /\ rc_shown' = rc_shown
        BY <1>6 DEF RowFails
    <2>2. RcTypes'
        BY <1>1, <2>1 DEF RcTypes
    <2>3. ForcedAreDone'
        BY <1>1, <2>1 DEF ForcedAreDone
    <2>4. ASSUME NEW i \in RecentIds \ rc_loose', rc_status[i] = "D"
          PROVE  Shows(i)'
        <3>1. Shows(i) /\ i # ask.id
            BY <1>1, <2>1, <2>4
        <3>2. (\E o \in rc_asked : o.id = i /\ o.force) => \E o \in rc_asked' : o.id = i /\ o.force
            BY <2>1, <3>1
        <3> QED BY <1>1, <2>1, <3>1, <3>2 DEF Shows
    <2> QED BY <1>1, <1>2, <2>2, <2>3, <2>4
<1> QED BY <1>4, <1>5, <1>6

\* Each step keeps it.
LEMMA RcStepInv ==
    ASSUME RcInv, RecentAssumption, RcNext
    PROVE  RcInv'
<1>1. CASE BusyEnds
    <2>1. UNCHANGED <<rc_status, rc_made, rc_rows, rc_shown, rc_first, rc_events, rc_asked, rc_loose>>
        BY <1>1 DEF BusyEnds
    <2> QED BY <2>1 DEF RcInv, RcTypes, RowsInOrder, EventsTell, DoneIsDone, ForcedAreDone, Shows
<1> QED BY <1>1, MovesInv, MadeInv, SeeInv, AnswersInv DEF RcNext

\* When there is nothing to see and no answer to come, what is done is shown.
LEMMA RcInvHolds == RcInv => RecentHolds
<1> SUFFICES ASSUME RcInv PROVE RecentHolds
    OBVIOUS
<1>1. DoneRowsSayIt
    <2> SUFFICES ASSUME rc_made = "open", rc_events = <<>>, rc_asked = {}, NEW i \in Range(rc_rows) \ rc_loose, rc_status[i] = "D"
                 PROVE  rc_shown[i] = "D"
        BY DEF DoneRowsSayIt
    <2>1. i \in RecentIds
        <3>1. rc_rows \in Seq(RecentIds)
            BY DEF RcInv, RcTypes
        <3> QED BY <3>1 DEF Range
    <2> QED BY <2>1 DEF RcInv, Shows
<1> QED BY <1>1 DEF RcInv, RecentHolds

\* A step that changes nothing keeps what holds of the list.
LEMMA RcStays == RcInv /\ UNCHANGED rcvars => RcInv'
BY DEF RcInv, RcTypes, RowsInOrder, EventsTell, DoneIsDone, ForcedAreDone, Shows, rcvars

-----------------------------------------------------------------------------
(* Side by side.                                                           *)

\* What is invariant of the component a behaviour is of.
ShownInv ==
    /\ part = "caches" => CaInv
    /\ part = "formulas" => FoInv
    /\ part = "mails" => MlInv
    /\ part = "marks" => MkInv
    /\ part = "delivery" => DvInv
    /\ part = "recent" => RcInv

\* A step is of the component the behaviour is of, or of none.
LEMMA ShownStep == ShownAssumption /\ ShownInv /\ [ShownNext]_shvars => ShownInv'
<1> SUFFICES ASSUME ShownAssumption, ShownInv, [ShownNext]_shvars
             PROVE  ShownInv'
    OBVIOUS
<1>0. part' = part
    BY DEF ShownNext, shvars
<1>1. part = "caches" => [CaNext]_cavars
    BY DEF ShownNext, shvars
<1>2. part = "formulas" => [FoNext]_fovars
    BY DEF ShownNext, shvars
<1>3. part = "mails" => [MlNext]_mlvars
    BY DEF ShownNext, shvars
<1>4. part = "marks" => [MkNext]_mkvars
    BY DEF ShownNext, shvars
<1>5. part = "delivery" => [DvNext]_dvvars
    BY DEF ShownNext, shvars
<1>6. part = "recent" => [RcNext]_rcvars
    BY DEF ShownNext, shvars
<1>7. part = "caches" \/ part = "formulas" \/ part = "mails" => ShownInv'
    BY <1>0, <1>1, <1>2, <1>3, CaStepInv, FoStepInv, MlStepInv DEF ShownInv, ShownAssumption
<1>8. part = "marks" => ShownInv'
    BY <1>0, <1>4, MkStepInv, MkStays DEF ShownInv, ShownAssumption
<1>9. part = "delivery" => ShownInv'
    BY <1>0, <1>5, DvStepInv, DvStays DEF ShownInv, ShownAssumption
<1>10. part = "recent" => ShownInv'
    BY <1>0, <1>6, RcStepInv, RcStays DEF ShownInv, ShownAssumption
<1> QED BY <1>0, <1>7, <1>8, <1>9, <1>10 DEF ShownInv

\* Whichever component a behaviour is of, what is said of it holds: what caches keep, formulas, mails, marks
\* and pages that follow events, for any number of requests, workers, errors, submissions, judges and messages.
THEOREM ShownIsRight == ASSUME ShownAssumption PROVE ShownSpec => []ShownHolds
<1>1. ShownInit => ShownInv
    BY CaInitInv, FoInitInv, MlInitInv, MkInitInv, DvInitInv, RcInitInv DEF ShownInit, ShownInv, ShownAssumption
<1>2. ShownInv /\ [ShownNext]_shvars => ShownInv'
    BY ShownStep
<1>3. ShownInv => ShownHolds
    BY FoInvHolds, MlInvHolds, MkInvHolds, DvInvHolds, RcInvHolds DEF ShownInv, ShownHolds, CaInv, CachesHold
<1> QED BY <1>1, <1>2, <1>3, PTL DEF ShownSpec
=============================================================================
