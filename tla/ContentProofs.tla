----------------------------- MODULE ContentProofs -----------------------------
(***************************************************************************)
(* What Site says of what people write holds for every value of the        *)
(* constants: comments with their scores and threads, votes, tickets, test *)
(* data and clones.  Each has its own inductive invariant; they meet in    *)
(* the last theorem.                                                       *)
(***************************************************************************)
EXTENDS Site, TLAPS, FiniteSetTheorems, WellFoundedInduction

-----------------------------------------------------------------------------
(* Comments.                                                               *)
(* The least of a set of natural numbers.                                  *)

\* A set of natural numbers that is not empty has a least one: induction, without an operator as
\* parameter.
LEMMA SmallestNat ==
    ASSUME NEW Bad \in SUBSET Nat, Bad # {}
    PROVE  \E n \in Bad : \A m \in Bad : m >= n
<1>1. IsWellFoundedOn(OpToRel(<, Nat), Nat)
    BY NatLessThanWellFounded
<1>2. PICK n \in Bad : \A m \in Bad : ~(<<m, n>> \in OpToRel(<, Nat))
    BY <1>1, WFMin
<1>3. \A m \in Bad : ~(m < n)
    BY <1>2 DEF OpToRel
<1> QED BY <1>3

-----------------------------------------------------------------------------
(* Threads.                                                                *)

Parented(cs) == /\ cs \in Seq([parent : Nat, score : Int, hidden : BOOLEAN])
                /\ \A d \in 1 .. Len(cs) : cs[d].parent \in 0 .. d - 1

Climbs(cs, n, up) ==
    up = [d \in 0 .. n |-> IF d = 0 THEN {} ELSE {d} \cup up[cs[d].parent]]

\* The climb from a comment to its ancestors is a function: there is one for any number of steps.
LEMMA ClimbsExists ==
    ASSUME NEW cs, Parented(cs)
    PROVE  \A n \in 0 .. Len(cs) : \E up : Climbs(cs, n, up)
<1> DEFINE Bad == {n \in 0 .. Len(cs) : ~ \E up : Climbs(cs, n, up)}
<1> SUFFICES ASSUME Bad # {} PROVE FALSE
    OBVIOUS
<1>0. Len(cs) \in Nat
    BY DEF Parented
<1>1. Bad \in SUBSET Nat
    BY <1>0
<1>2. PICK n \in Bad : \A m \in Bad : m >= n
    <2> HIDE DEF Bad
    <2> QED BY <1>1, SmallestNat
<1>3. n # 0
    <2>1. Climbs(cs, 0, [d \in 0 .. 0 |-> {}])
        BY DEF Climbs
    <2> QED BY <2>1
<1>4. n \in 1 .. Len(cs) /\ n - 1 \in 0 .. Len(cs) /\ n - 1 < n
    BY <1>0, <1>3
<1>5. n - 1 \notin Bad
    BY <1>1, <1>2, <1>4
<1>6. PICK low : Climbs(cs, n - 1, low)
    BY <1>4, <1>5
<1> DEFINE up == [d \in 0 .. n |-> IF d = n THEN {n} \cup low[cs[n].parent] ELSE low[d]]
<1>7. Climbs(cs, n, up)
    <2>1. \A d \in 0 .. n : up[d] = IF d = 0 THEN {} ELSE {d} \cup up[cs[d].parent]
        <3> SUFFICES ASSUME NEW d \in 0 .. n PROVE up[d] = IF d = 0 THEN {} ELSE {d} \cup up[cs[d].parent]
            OBVIOUS
        <3>1. CASE d = 0
            BY <3>1, <1>4, <1>6 DEF Climbs
        <3>2. CASE d # 0
            <4>1. d \in 1 .. Len(cs) /\ cs[d].parent \in 0 .. d - 1
                <5>1. d \in 1 .. Len(cs)
                    BY <3>2, <1>0, <1>4
                <5> QED BY <5>1 DEF Parented
            <4>2. up[cs[d].parent] = low[cs[d].parent]
                <5>1. cs[d].parent \in 0 .. n /\ cs[d].parent # n
                    BY <4>1, <1>4
                <5> QED BY <5>1
            <4>3. CASE d = n
                BY <4>2, <4>3, <3>2
            <4>4. CASE d # n
                <5>1. d \in 0 .. n - 1
                    BY <4>4, <1>4
                <5>2. low[d] = {d} \cup low[cs[d].parent]
                    BY <5>1, <3>2, <1>6 DEF Climbs
                <5> QED BY <5>2, <4>2, <4>4, <3>2
            <4> QED BY <4>3, <4>4
        <3> QED BY <3>1, <3>2
    <2> HIDE DEF up
    <2>2. up = [d \in 0 .. n |-> up[d]]
        BY DEF up
    <2> QED BY <2>1, <2>2 DEF Climbs
<1> HIDE DEF up
<1> QED BY <1>7, <1>2

\* The ancestors of a comment: itself and those of the comment it replies to.
LEMMA AncestorsUnfold ==
    ASSUME NEW cs, Parented(cs)
    PROVE  /\ Ancestors(cs, 0) = {}
           /\ \A c \in 1 .. Len(cs) : Ancestors(cs, c) = {c} \cup Ancestors(cs, cs[c].parent)
<1> DEFINE up == CHOOSE up : Climbs(cs, Len(cs), up)
<1>1. Len(cs) \in Nat
    BY DEF Parented
<1>2. Climbs(cs, Len(cs), up)
    BY <1>1, ClimbsExists
<1>3. \A c : Ancestors(cs, c) = up[c]
    BY DEF Ancestors, Climbs
<1> HIDE DEF up
<1>4. up[0] = {}
    BY <1>1, <1>2 DEF Climbs
<1>5. ASSUME NEW c \in 1 .. Len(cs)
      PROVE  up[c] = {c} \cup up[cs[c].parent]
    BY <1>1, <1>2 DEF Climbs
<1> QED BY <1>3, <1>4, <1>5

\* Ancestors have smaller numbers: a reply is posted below a comment that is there.
LEMMA AncestorsBelow ==
    ASSUME NEW cs, Parented(cs)
    PROVE  \A c \in 1 .. Len(cs) : c \in Ancestors(cs, c) /\ Ancestors(cs, c) \subseteq 1 .. c
<1> DEFINE Bad == {c \in 1 .. Len(cs) : ~(Ancestors(cs, c) \subseteq 1 .. c)}
<1>1. \A c \in 1 .. Len(cs) : c \in Ancestors(cs, c)
    BY AncestorsUnfold
<1>2. ASSUME Bad # {} PROVE FALSE
    <2>0. Len(cs) \in Nat /\ Bad \in SUBSET Nat
        BY DEF Parented
    <2>1. PICK c \in Bad : \A d \in Bad : d >= c
        <3> HIDE DEF Bad
        <3> QED BY <1>2, <2>0, SmallestNat
    <2>2. c \in 1 .. Len(cs) /\ cs[c].parent \in 0 .. c - 1
        BY DEF Parented
    <2>3. Ancestors(cs, c) = {c} \cup Ancestors(cs, cs[c].parent)
        BY <2>2, AncestorsUnfold
    <2>4. cs[c].parent \notin Bad
        BY <2>0, <2>1, <2>2
    <2>5. Ancestors(cs, cs[c].parent) \subseteq 1 .. cs[c].parent
        BY <2>0, <2>2, <2>4, AncestorsUnfold
    <2> QED BY <2>0, <2>2, <2>3, <2>5
<1> QED BY <1>1, <1>2

\* The ancestors of an ancestor are ancestors.
LEMMA AncestorsTransitive ==
    ASSUME NEW cs, Parented(cs)
    PROVE  \A c \in 1 .. Len(cs) : \A d \in Ancestors(cs, c) : Ancestors(cs, d) \subseteq Ancestors(cs, c)
<1> DEFINE Bad == {c \in 1 .. Len(cs) : ~ \A d \in Ancestors(cs, c) : Ancestors(cs, d) \subseteq Ancestors(cs, c)}
<1>1. ASSUME Bad # {} PROVE FALSE
    <2>0. Len(cs) \in Nat /\ Bad \in SUBSET Nat
        BY DEF Parented
    <2>1. PICK c \in Bad : \A d \in Bad : d >= c
        <3> HIDE DEF Bad
        <3> QED BY <1>1, <2>0, SmallestNat
    <2>2. c \in 1 .. Len(cs) /\ cs[c].parent \in 0 .. c - 1
        BY DEF Parented
    <2>3. Ancestors(cs, c) = {c} \cup Ancestors(cs, cs[c].parent)
        BY <2>2, AncestorsUnfold
    <2>4. cs[c].parent \notin Bad
        BY <2>0, <2>1, <2>2
    <2>5. \A d \in Ancestors(cs, cs[c].parent) : Ancestors(cs, d) \subseteq Ancestors(cs, cs[c].parent)
        BY <2>0, <2>2, <2>4, AncestorsUnfold
    <2> QED BY <2>1, <2>3, <2>5
<1> QED BY <1>1

\* Ancestors are those of the parents alone, and a comment below has no part in them.
LEMMA AncestorsSame ==
    ASSUME NEW cs, NEW ds, Parented(cs), Parented(ds), Len(cs) <= Len(ds),
           \A c \in 1 .. Len(cs) : ds[c].parent = cs[c].parent
    PROVE  \A c \in 1 .. Len(cs) : Ancestors(ds, c) = Ancestors(cs, c)
<1> DEFINE Bad == {c \in 1 .. Len(cs) : Ancestors(ds, c) # Ancestors(cs, c)}
<1>1. ASSUME Bad # {} PROVE FALSE
    <2>0. Len(cs) \in Nat /\ Len(ds) \in Nat /\ Bad \in SUBSET Nat
        BY DEF Parented
    <2>1. PICK c \in Bad : \A d \in Bad : d >= c
        <3> HIDE DEF Bad
        <3> QED BY <1>1, <2>0, SmallestNat
    <2>2. c \in 1 .. Len(cs) /\ c \in 1 .. Len(ds) /\ cs[c].parent \in 0 .. c - 1
        BY <2>0 DEF Parented
    <2>3. Ancestors(cs, c) = {c} \cup Ancestors(cs, cs[c].parent)
        BY <2>2, AncestorsUnfold
    <2>4. Ancestors(ds, c) = {c} \cup Ancestors(ds, cs[c].parent)
        BY <2>2, AncestorsUnfold
    <2>5. cs[c].parent \notin Bad
        BY <2>0, <2>1, <2>2
    <2>6. Ancestors(ds, cs[c].parent) = Ancestors(cs, cs[c].parent)
        <3>1. CASE cs[c].parent = 0
            BY <3>1, AncestorsUnfold
        <3>2. CASE cs[c].parent # 0
            BY <3>2, <2>0, <2>2, <2>5
        <3> QED BY <3>1, <3>2
    <2> QED BY <2>1, <2>3, <2>4, <2>6
<1> QED BY <1>1

-----------------------------------------------------------------------------
(* Comments, votes and requests keep their types.                          *)

Comments == [parent : Nat, score : Int, hidden : BOOLEAN]

\* What a request may be, when there are n comments.
DcStates(n) ==
    {DcIdle}
    \cup [kind : {"vote"}, at : {"insert", "lock", "add"}, comment : 1 .. n, user : Voters, delta : {-1, 1}]
    \cup [kind : {"edit", "admin"}, comment : 1 .. n, row : Comments]
    \cup [kind : {"reply"}, parent : 1 .. n]

Busy == {r \in DcRequests : dc_requests[r] # DcIdle}

DcTypes ==
    /\ Parented(dc_comments)
    /\ DOMAIN dc_votes \in SUBSET (CommentIds \X Voters) /\ IsFiniteSet(DOMAIN dc_votes)
    /\ \A k \in DOMAIN dc_votes : dc_votes[k] \in {-1, 1}
    /\ dc_requests \in [DcRequests -> DcStates(Len(dc_comments))]
    /\ IsFiniteSet(Busy)
    /\ \A r \in DcRequests : dc_requests[r].kind \in {"edit", "admin"} =>
          dc_requests[r].row.parent = dc_comments[dc_requests[r].comment].parent

DcInv == DcTypes /\ ScoreIsTheVotes /\ NothingBelowHidden

\* A request is told by its kind.
LEMMA DcShape ==
    ASSUME NEW n \in Nat, NEW q \in DcStates(n)
    PROVE  /\ q.kind = "vote" => q \in [kind : {"vote"}, at : {"insert", "lock", "add"}, comment : 1 .. n,
                                         user : Voters, delta : {-1, 1}]
           /\ q.kind \in {"edit", "admin"} => q \in [kind : {"edit", "admin"}, comment : 1 .. n, row : Comments]
           /\ q.kind = "reply" => q \in [kind : {"reply"}, parent : 1 .. n]
           /\ q.kind \in {"vote", "edit", "admin", "reply"} => q # DcIdle
BY DEF DcStates, DcIdle

\* A request that fits a list of comments fits a longer one.
LEMMA DcStatesGrow ==
    ASSUME NEW n \in Nat, NEW m \in Nat, n <= m
    PROVE  DcStates(n) \subseteq DcStates(m)
<1>1. 1 .. n \subseteq 1 .. m
    OBVIOUS
<1> QED BY <1>1 DEF DcStates

\* A step of one request, which leaves the number of comments or adds to it.
LEMMA DcStepTypes ==
    ASSUME NEW n \in Nat, NEW m \in Nat, n <= m, NEW r \in DcRequests, NEW state \in DcStates(m),
           dc_requests \in [DcRequests -> DcStates(n)], IsFiniteSet(Busy),
           dc_requests' = [dc_requests EXCEPT ![r] = state]
    PROVE  /\ dc_requests' \in [DcRequests -> DcStates(m)]
           /\ IsFiniteSet(Busy')
           /\ dc_requests'[r] = state
           /\ \A o \in DcRequests \ {r} : dc_requests'[o] = dc_requests[o]
<1>1. DcStates(n) \subseteq DcStates(m)
    BY DcStatesGrow
<1>2. Busy' \subseteq Busy \cup {r}
    BY DEF Busy
<1>3. IsFiniteSet(Busy \cup {r})
    BY FS_AddElement
<1>4. IsFiniteSet(Busy')
    BY <1>2, <1>3, FS_Subset
<1> QED BY <1>1, <1>4

\* Rows saved over others with the same parents.
LEMMA ParentedSame ==
    ASSUME NEW cs, NEW ds, Parented(cs), DOMAIN ds = DOMAIN cs,
           ds = [d \in DOMAIN cs |-> ds[d]],
           \A d \in DOMAIN cs : ds[d] \in Comments /\ ds[d].parent = cs[d].parent
    PROVE  Parented(ds) /\ Len(ds) = Len(cs)
<1>1. Len(cs) \in Nat /\ DOMAIN cs = 1 .. Len(cs)
    BY DEF Parented
<1>2. ds \in [1 .. Len(cs) -> Comments]
    BY <1>1
<1>3. ds \in Seq(Comments) /\ Len(ds) = Len(cs)
    BY <1>1, <1>2
<1> QED BY <1>1, <1>3 DEF Parented, Comments

\* With no comment there is nothing that could be wrong.
THEOREM DcInitInv == DcInit => DcInv
<1> SUFFICES ASSUME DcInit PROVE DcInv
    OBVIOUS
<1>1. Len(dc_comments) = 1 /\ CommentIds = {1} /\ dc_comments[1] = [parent |-> 0, score |-> 0, hidden |-> FALSE]
    BY DEF DcInit, CommentIds
<1>2. Parented(dc_comments)
    BY <1>1 DEF DcInit, Parented
<1>3. DOMAIN dc_votes = {} /\ Busy = {} /\ \A r \in DcRequests : dc_requests[r] = DcIdle
    BY DEF DcInit, Busy
<1>4. DcTypes
    <2>1. dc_requests \in [DcRequests -> DcStates(Len(dc_comments))]
        BY DEF DcInit, DcStates
    <2>2. IsFiniteSet({})
        BY FS_EmptySet
    <2> QED BY <1>2, <1>3, <2>1, <2>2 DEF DcTypes, DcIdle
<1>5. ScoreIsTheVotes
    <2>1. \A c, d : Adding(c, d) = {} /\ VotesFor(c, d) = {}
        BY <1>3 DEF Adding, VotesFor, DcIdle
    <2>2. Cardinality({}) = 0
        BY FS_EmptySet
    <2>3. \A c \in CommentIds : dc_comments[c].score + (Cardinality({}) - Cardinality({})) = Cardinality({}) - Cardinality({})
        BY <1>1, <2>2
    <2>4. \A c, d : Cardinality(Adding(c, d)) = Cardinality({}) /\ Cardinality(VotesFor(c, d)) = Cardinality({})
        BY <2>1
    <2> QED BY <2>3, <2>4 DEF ScoreIsTheVotes
<1>6. NothingBelowHidden
    <2>1. Ancestors(dc_comments, 1) \subseteq 1 .. 1
        BY <1>1, <1>2, AncestorsBelow
    <2> QED BY <1>1, <2>1 DEF NothingBelowHidden, AncestorsOf
<1> QED BY <1>4, <1>5, <1>6 DEF DcInv

-----------------------------------------------------------------------------
(* Types.                                                                  *)

\* Steps that leave comments and votes alone.
LEMMA DcTypesRequest ==
    ASSUME DcTypes, NEW r \in DcRequests, NEW state \in DcStates(Len(dc_comments)),
           state.kind \in {"edit", "admin"} => state.row.parent = dc_comments[state.comment].parent,
           dc_requests' = [dc_requests EXCEPT ![r] = state],
           UNCHANGED dc_comments,
           \/ UNCHANGED dc_votes
           \/ /\ DOMAIN dc_votes' \in SUBSET (CommentIds \X Voters) /\ IsFiniteSet(DOMAIN dc_votes')
              /\ \A k \in DOMAIN dc_votes' : dc_votes'[k] \in {-1, 1}
    PROVE  DcTypes'
<1>1. Len(dc_comments) \in Nat
    BY DEF DcTypes, Parented
<1>2. /\ dc_requests' \in [DcRequests -> DcStates(Len(dc_comments))]
      /\ IsFiniteSet(Busy')
      /\ dc_requests'[r] = state
      /\ \A o \in DcRequests \ {r} : dc_requests'[o] = dc_requests[o]
    <2>1. dc_requests \in [DcRequests -> DcStates(Len(dc_comments))] /\ IsFiniteSet(Busy)
        BY DEF DcTypes
    <2>2. Len(dc_comments) <= Len(dc_comments)
        BY <1>1
    <2> QED BY <1>1, <2>1, <2>2, DcStepTypes
<1>3. \A o \in DcRequests : dc_requests'[o].kind \in {"edit", "admin"} =>
          dc_requests'[o].row.parent = dc_comments[dc_requests'[o].comment].parent
    BY <1>2 DEF DcTypes
<1> QED BY <1>2, <1>3 DEF DcTypes, CommentIds

\* Steps of requests and of people that change rows, but no parents.
LEMMA DcTypesRows ==
    ASSUME DcTypes,
           DOMAIN dc_comments' = DOMAIN dc_comments,
           dc_comments' = [d \in DOMAIN dc_comments |-> dc_comments'[d]],
           \A d \in DOMAIN dc_comments :
              dc_comments'[d] \in Comments /\ dc_comments'[d].parent = dc_comments[d].parent,
           UNCHANGED dc_votes,
           \/ UNCHANGED dc_requests
           \/ \E r \in DcRequests : dc_requests' = [dc_requests EXCEPT ![r] = DcIdle]
    PROVE  DcTypes' /\ Len(dc_comments') = Len(dc_comments)
<1>1. Parented(dc_comments') /\ Len(dc_comments') = Len(dc_comments)
    <2>1. Parented(dc_comments)
        BY DEF DcTypes
    <2> QED BY <2>1, ParentedSame
<1>2. Len(dc_comments) \in Nat /\ DOMAIN dc_comments = 1 .. Len(dc_comments)
    BY DEF DcTypes, Parented
<1>3. /\ dc_requests' \in [DcRequests -> DcStates(Len(dc_comments))]
      /\ IsFiniteSet(Busy')
      /\ \A o \in DcRequests : dc_requests'[o] \in {dc_requests[o], DcIdle}
    <2>1. CASE UNCHANGED dc_requests
        BY <2>1 DEF DcTypes, Busy
    <2>2. CASE \E r \in DcRequests : dc_requests' = [dc_requests EXCEPT ![r] = DcIdle]
        <3>1. PICK r \in DcRequests : dc_requests' = [dc_requests EXCEPT ![r] = DcIdle]
            BY <2>2
        <3>2. DcIdle \in DcStates(Len(dc_comments))
            BY DEF DcStates
        <3>3. /\ dc_requests' \in [DcRequests -> DcStates(Len(dc_comments))]
              /\ IsFiniteSet(Busy')
              /\ dc_requests'[r] = DcIdle
              /\ \A o \in DcRequests \ {r} : dc_requests'[o] = dc_requests[o]
            <4>1. dc_requests \in [DcRequests -> DcStates(Len(dc_comments))] /\ IsFiniteSet(Busy)
                BY DEF DcTypes
            <4>2. Len(dc_comments) <= Len(dc_comments)
                BY <1>2
            <4> QED BY <3>1, <3>2, <1>2, <4>1, <4>2, DcStepTypes
        <3> QED BY <3>3
    <2> QED BY <2>1, <2>2
<1>4. \A o \in DcRequests : dc_requests'[o].kind \in {"edit", "admin"} =>
          dc_requests'[o].row.parent = dc_comments'[dc_requests'[o].comment].parent
    <2> SUFFICES ASSUME NEW o \in DcRequests, dc_requests'[o].kind \in {"edit", "admin"}
                 PROVE  dc_requests'[o].row.parent = dc_comments'[dc_requests'[o].comment].parent
        OBVIOUS
    <2>1. dc_requests'[o] = dc_requests[o]
        BY <1>3 DEF DcIdle
    <2>2. dc_requests[o].comment \in DOMAIN dc_comments
        BY <2>1, <1>2, DcShape DEF DcTypes
    <2> QED BY <2>1, <2>2 DEF DcTypes
<1> QED BY <1>1, <1>3, <1>4 DEF DcTypes, CommentIds

\* Hiding a thread changes whether rows are hidden, and nothing else of them.
LEMMA HidingRows ==
    ASSUME NEW cs, NEW ds, NEW S, Parented(cs), DOMAIN ds = DOMAIN cs,
           \A d \in DOMAIN cs : ds[d] \in Comments /\ ds[d].parent = cs[d].parent
    PROVE  /\ DOMAIN Hiding(ds, S) = DOMAIN cs
           /\ Hiding(ds, S) = [d \in DOMAIN cs |-> Hiding(ds, S)[d]]
           /\ \A d \in DOMAIN cs : /\ Hiding(ds, S)[d] \in Comments
                                   /\ Hiding(ds, S)[d].parent = cs[d].parent
                                   /\ Hiding(ds, S)[d].score = ds[d].score
                                   /\ Hiding(ds, S)[d].hidden = (ds[d].hidden \/ d \in S)
<1>1. \A d \in DOMAIN cs : Hiding(ds, S)[d] = IF d \in S THEN [ds[d] EXCEPT !.hidden = TRUE] ELSE ds[d]
    BY DEF Hiding
<1>2. ASSUME NEW d \in DOMAIN cs
      PROVE  /\ Hiding(ds, S)[d] \in Comments
             /\ Hiding(ds, S)[d].parent = cs[d].parent
             /\ Hiding(ds, S)[d].score = ds[d].score
             /\ Hiding(ds, S)[d].hidden = (ds[d].hidden \/ d \in S)
    <2> DEFINE row == ds[d]
    <2>0. row \in Comments /\ row.parent = cs[d].parent /\ Hiding(ds, S)[d] = IF d \in S THEN [row EXCEPT !.hidden = TRUE] ELSE row
        BY <1>1
    <2> HIDE DEF row
    <2>1. row \in [parent : Nat, score : Int, hidden : BOOLEAN]
        BY <2>0 DEF Comments
    <2>2. [row EXCEPT !.hidden = TRUE] \in [parent : Nat, score : Int, hidden : BOOLEAN]
        BY <2>1
    <2>3. /\ [row EXCEPT !.hidden = TRUE].parent = row.parent /\ [row EXCEPT !.hidden = TRUE].score = row.score
          /\ [row EXCEPT !.hidden = TRUE].hidden = TRUE
        BY <2>1
    <2>4. CASE d \in S
        <3>1. Hiding(ds, S)[d] = [row EXCEPT !.hidden = TRUE]
            BY <2>0, <2>4
        <3> QED BY <3>1, <2>0, <2>2, <2>3, <2>4 DEF Comments, row
    <2>5. CASE d \notin S
        <3>1. Hiding(ds, S)[d] = row /\ row.hidden \in BOOLEAN
            BY <2>0, <2>1, <2>5
        <3> QED BY <3>1, <2>0, <2>5 DEF row
    <2> QED BY <2>4, <2>5
<1> QED BY <1>2 DEF Hiding

\* Comments whose rows may change, and that keep what threads are made of.
RowsKeep == /\ DOMAIN dc_comments' = DOMAIN dc_comments
            /\ dc_comments' = [d \in DOMAIN dc_comments |-> dc_comments'[d]]
            /\ \A d \in DOMAIN dc_comments :
                  dc_comments'[d] \in Comments /\ dc_comments'[d].parent = dc_comments[d].parent

\* What a row of a comment consists of.
LEMMA RowTypes ==
    ASSUME DcTypes
    PROVE  /\ Len(dc_comments) \in Nat /\ DOMAIN dc_comments = 1 .. Len(dc_comments)
           /\ CommentIds = DOMAIN dc_comments
           /\ dc_comments = [d \in DOMAIN dc_comments |-> dc_comments[d]]
           /\ \A d \in DOMAIN dc_comments :
                 /\ dc_comments[d] \in Comments /\ dc_comments[d].hidden \in BOOLEAN
                 /\ dc_comments[d].score \in Int
<1>1. dc_comments \in Seq(Comments)
    BY DEF DcTypes, Parented, Comments
<1>2. Len(dc_comments) \in Nat /\ DOMAIN dc_comments = 1 .. Len(dc_comments)
    BY <1>1
<1>3. dc_comments \in [1 .. Len(dc_comments) -> Comments]
    BY <1>1
<1>4. dc_comments = [d \in DOMAIN dc_comments |-> dc_comments[d]]
    BY <1>3
<1>5. \A d \in DOMAIN dc_comments : dc_comments[d] \in Comments
    BY <1>2, <1>3
<1> QED BY <1>2, <1>4, <1>5 DEF CommentIds, Comments

\* An edit saves its row; in the administration, a hidden row hides its thread.
LEMMA SavedRows ==
    ASSUME DcTypes, NEW r \in DcRequests, SaveEdit(r)
    PROVE  LET q == dc_requests[r]  c == q.comment IN
           /\ q.kind \in {"edit", "admin"} /\ c \in DOMAIN dc_comments /\ q.row.hidden \in BOOLEAN
           /\ RowsKeep
           /\ \A d \in DOMAIN dc_comments : dc_comments'[d].score = IF d = c THEN q.row.score ELSE dc_comments[d].score
           /\ \A d \in DOMAIN dc_comments :
                 dc_comments'[d].hidden = ((IF d = c THEN q.row.hidden ELSE dc_comments[d].hidden)
                                           \/ (q.kind = "admin" /\ q.row.hidden /\ d \in DescendantsOf(c)))
<1> DEFINE q == dc_requests[r]
           c == q.comment
           row == q.row
           saved == [dc_comments EXCEPT ![c] = row]
<1>1. q.kind \in {"edit", "admin"} /\ q \in DcStates(Len(dc_comments)) /\ Parented(dc_comments)
      /\ row.parent = dc_comments[c].parent
    BY DEF SaveEdit, DcTypes
<1>2. dc_comments' = IF q.kind = "admin" /\ row.hidden THEN Hiding(saved, DescendantsOf(c)) ELSE saved
    BY DEF SaveEdit
<1>3. c \in DOMAIN dc_comments /\ row \in Comments
    BY <1>1, RowTypes, DcShape
<1> HIDE DEF q, c, row
<1>4. row.hidden \in BOOLEAN
    BY <1>3 DEF Comments
<1>5. /\ DOMAIN saved = DOMAIN dc_comments /\ saved = [d \in DOMAIN dc_comments |-> saved[d]]
      /\ \A d \in DOMAIN dc_comments : /\ saved[d] = IF d = c THEN row ELSE dc_comments[d]
                                       /\ saved[d] \in Comments /\ saved[d].parent = dc_comments[d].parent
    BY <1>1, <1>3, RowTypes
<1>6. CASE q.kind = "admin" /\ row.hidden
    <2> DEFINE S == DescendantsOf(c)
    <2>1. dc_comments' = Hiding(saved, S)
        BY <1>2, <1>6
    <2> HIDE DEF S, saved
    <2>2. /\ DOMAIN Hiding(saved, S) = DOMAIN dc_comments
          /\ Hiding(saved, S) = [d \in DOMAIN dc_comments |-> Hiding(saved, S)[d]]
          /\ \A d \in DOMAIN dc_comments : /\ Hiding(saved, S)[d] \in Comments
                                           /\ Hiding(saved, S)[d].parent = dc_comments[d].parent
                                           /\ Hiding(saved, S)[d].score = saved[d].score
                                           /\ Hiding(saved, S)[d].hidden = (saved[d].hidden \/ d \in S)
        BY <1>1, <1>5, HidingRows
    <2>3. RowsKeep
        BY <2>1, <2>2 DEF RowsKeep
    <2>4. \A d \in DOMAIN dc_comments : dc_comments'[d].score = IF d = c THEN row.score ELSE dc_comments[d].score
        BY <2>1, <2>2, <1>5
    <2>5. \A d \in DOMAIN dc_comments : dc_comments'[d].hidden = ((IF d = c THEN row.hidden ELSE dc_comments[d].hidden) \/ d \in S)
        BY <2>1, <2>2, <1>5
    <2> QED BY <1>1, <1>3, <1>4, <1>6, <2>3, <2>4, <2>5 DEF q, c, row, S
<1>7. CASE ~(q.kind = "admin" /\ row.hidden)
    <2>1. dc_comments' = saved
        BY <1>2, <1>7
    <2> HIDE DEF saved
    <2>2. RowsKeep
        BY <2>1, <1>5 DEF RowsKeep
    <2>3. \A d \in DOMAIN dc_comments :
            /\ dc_comments'[d].score = IF d = c THEN row.score ELSE dc_comments[d].score
            /\ dc_comments'[d].hidden = IF d = c THEN row.hidden ELSE dc_comments[d].hidden
        BY <2>1, <1>5
    <2>4. \A d \in DOMAIN dc_comments : dc_comments'[d].hidden \in BOOLEAN
        BY <2>3, <1>4, RowTypes
    <2> QED BY <1>1, <1>3, <1>4, <1>7, <2>2, <2>3, <2>4 DEF q, c, row
<1> QED BY <1>6, <1>7

\* Hiding a set of comments.
LEMMA HiddenRows ==
    ASSUME DcTypes, NEW S, dc_comments' = Hiding(dc_comments, S)
    PROVE  /\ RowsKeep
           /\ \A d \in DOMAIN dc_comments : /\ dc_comments'[d].score = dc_comments[d].score
                                           /\ dc_comments'[d].hidden = (dc_comments[d].hidden \/ d \in S)
<1>1. Parented(dc_comments)
    BY DEF DcTypes
<1>2. \A d \in DOMAIN dc_comments : dc_comments[d] \in Comments
    BY RowTypes
<1>3. /\ DOMAIN Hiding(dc_comments, S) = DOMAIN dc_comments
      /\ Hiding(dc_comments, S) = [d \in DOMAIN dc_comments |-> Hiding(dc_comments, S)[d]]
      /\ \A d \in DOMAIN dc_comments : /\ Hiding(dc_comments, S)[d] \in Comments
                                       /\ Hiding(dc_comments, S)[d].parent = dc_comments[d].parent
                                       /\ Hiding(dc_comments, S)[d].score = dc_comments[d].score
                                       /\ Hiding(dc_comments, S)[d].hidden = (dc_comments[d].hidden \/ d \in S)
    BY <1>1, <1>2, HidingRows
<1> QED BY <1>3 DEF RowsKeep

\* A row that an edit shows or hides again is a row.
LEMMA ShownRow ==
    ASSUME DcTypes, NEW c \in DOMAIN dc_comments, dc_comments' = [dc_comments EXCEPT ![c].hidden = FALSE]
    PROVE  /\ RowsKeep
           /\ \A d \in DOMAIN dc_comments : /\ dc_comments'[d].score = dc_comments[d].score
                                           /\ dc_comments'[d].hidden = (dc_comments[d].hidden /\ d # c)
<1>1. \A d \in DOMAIN dc_comments : dc_comments[d] \in [parent : Nat, score : Int, hidden : BOOLEAN]
    BY RowTypes DEF Comments
<1>2. dc_comments'[c] = [dc_comments[c] EXCEPT !.hidden = FALSE]
    OBVIOUS
<1>3. dc_comments'[c] \in [parent : Nat, score : Int, hidden : BOOLEAN]
      /\ dc_comments'[c].parent = dc_comments[c].parent /\ dc_comments'[c].score = dc_comments[c].score
      /\ dc_comments'[c].hidden = FALSE
    BY <1>1, <1>2
<1>4. \A d \in DOMAIN dc_comments \ {c} : dc_comments'[d] = dc_comments[d]
    OBVIOUS
<1>5. DOMAIN dc_comments' = DOMAIN dc_comments /\ dc_comments' = [d \in DOMAIN dc_comments |-> dc_comments'[d]]
    OBVIOUS
<1>6. \A d \in DOMAIN dc_comments : dc_comments[d].hidden \in BOOLEAN
    BY RowTypes
<1> QED BY <1>1, <1>3, <1>4, <1>5, <1>6 DEF RowsKeep, Comments

\* A row whose score a vote changes is a row.
LEMMA ScoredRow ==
    ASSUME DcTypes, NEW c \in DOMAIN dc_comments, NEW delta \in Int,
           dc_comments' = [dc_comments EXCEPT ![c].score = @ + delta]
    PROVE  /\ RowsKeep
           /\ \A d \in DOMAIN dc_comments :
                 /\ dc_comments'[d].score = dc_comments[d].score + IF d = c THEN delta ELSE 0
                 /\ dc_comments'[d].hidden = dc_comments[d].hidden
<1>1. \A d \in DOMAIN dc_comments : dc_comments[d] \in [parent : Nat, score : Int, hidden : BOOLEAN]
    BY RowTypes DEF Comments
<1>2. dc_comments'[c] = [dc_comments[c] EXCEPT !.score = dc_comments[c].score + delta]
    OBVIOUS
<1>3. dc_comments[c].score + delta \in Int
    BY RowTypes
<1>4. dc_comments'[c] \in [parent : Nat, score : Int, hidden : BOOLEAN]
      /\ dc_comments'[c].parent = dc_comments[c].parent /\ dc_comments'[c].score = dc_comments[c].score + delta
      /\ dc_comments'[c].hidden = dc_comments[c].hidden
    BY <1>1, <1>2, <1>3
<1>5. \A d \in DOMAIN dc_comments \ {c} : dc_comments'[d] = dc_comments[d]
    OBVIOUS
<1>6. DOMAIN dc_comments' = DOMAIN dc_comments /\ dc_comments' = [d \in DOMAIN dc_comments |-> dc_comments'[d]]
    OBVIOUS
<1>7. \A d \in DOMAIN dc_comments : dc_comments[d].score + 0 = dc_comments[d].score
    BY RowTypes
<1> QED BY <1>1, <1>4, <1>5, <1>6, <1>7 DEF RowsKeep, Comments

\* Every step keeps the types of comments, votes and requests.
LEMMA DcTypesNext ==
    ASSUME DcTypes, [DcNext]_dcvars
    PROVE  DcTypes'
<1> DEFINE n == Len(dc_comments)
<1>1. n \in Nat /\ DOMAIN dc_comments = 1 .. n /\ CommentIds = DOMAIN dc_comments
    BY RowTypes
<1>2. \A r \in DcRequests : dc_requests[r] \in DcStates(n)
    BY DEF DcTypes
<1>3. DcIdle \in DcStates(n) /\ DcIdle.kind = "idle"
    BY DEF DcStates, DcIdle
<1>4. ASSUME NEW r \in DcRequests, NEW u \in Voters, NEW c \in CommentIds, NEW d \in {-1, 1}, StartVote(r, u, c, d)
      PROVE  DcTypes'
    <2> DEFINE state == [kind |-> "vote", at |-> "insert", comment |-> c, user |-> u, delta |-> d]
    <2>1. state \in DcStates(n) /\ state.kind = "vote"
        BY <1>1 DEF DcStates
    <2>2. dc_requests' = [dc_requests EXCEPT ![r] = state] /\ UNCHANGED <<dc_comments, dc_votes>>
        BY <1>4 DEF StartVote, DcStart
    <2> HIDE DEF state
    <2> QED BY <2>1, <2>2, DcTypesRequest
<1>5. ASSUME NEW r \in DcRequests, InsertVote(r)
      PROVE  DcTypes'
    <2> DEFINE q == dc_requests[r]
               key == <<q.comment, q.user>>
    <2>1. /\ q.kind = "vote" /\ q.at = "insert" /\ UNCHANGED dc_comments
          /\ IF key \in DOMAIN dc_votes
             THEN dc_requests' = [dc_requests EXCEPT ![r] = [q EXCEPT !.at = "lock"]] /\ UNCHANGED dc_votes
             ELSE /\ dc_votes' = [k \in DOMAIN dc_votes \cup {key} |-> IF k = key THEN q.delta ELSE dc_votes[k]]
                  /\ dc_requests' = [dc_requests EXCEPT ![r] = [q EXCEPT !.at = "add"]]
        BY <1>5 DEF InsertVote, DcStep
    <2>2. q \in [kind : {"vote"}, at : {"insert", "lock", "add"}, comment : 1 .. n, user : Voters, delta : {-1, 1}]
        BY <1>1, <1>2, <2>1, DcShape
    <2> HIDE DEF q
    <2>3. ASSUME NEW at \in {"lock", "add"}
          PROVE  [q EXCEPT !.at = at] \in DcStates(n) /\ [q EXCEPT !.at = at].kind = "vote"
        <3>1. [q EXCEPT !.at = at] \in [kind : {"vote"}, at : {"insert", "lock", "add"}, comment : 1 .. n, user : Voters, delta : {-1, 1}]
            BY <2>2
        <3> QED BY <3>1 DEF DcStates
    <2>4. CASE key \in DOMAIN dc_votes
        BY <2>1, <2>3, <2>4, DcTypesRequest
    <2>5. CASE key \notin DOMAIN dc_votes
        <3>1. key \in CommentIds \X Voters /\ q.delta \in {-1, 1}
            BY <1>1, <2>2
        <3> HIDE DEF key
        <3>2. DOMAIN dc_votes' = DOMAIN dc_votes \cup {key} /\ \A k \in DOMAIN dc_votes' : dc_votes'[k] \in {-1, 1}
            BY <2>1, <2>5, <3>1 DEF DcTypes
        <3>3. DOMAIN dc_votes' \in SUBSET (CommentIds \X Voters) /\ IsFiniteSet(DOMAIN dc_votes')
            BY <3>1, <3>2, FS_AddElement DEF DcTypes
        <3> QED BY <2>1, <2>3, <2>5, <3>2, <3>3, DcTypesRequest
    <2> QED BY <2>4, <2>5
<1>6. ASSUME NEW r \in DcRequests, LockVotes(r)
      PROVE  DcTypes'
    <2> DEFINE q == dc_requests[r]
               key == <<q.comment, q.user>>
    <2>1. q.kind = "vote" /\ q.at = "lock" /\ UNCHANGED dc_comments
        BY <1>6 DEF LockVotes
    <2>6. \/ dc_requests' = [dc_requests EXCEPT ![r] = [q EXCEPT !.at = "insert"]] /\ UNCHANGED dc_votes
          \/ dc_requests' = [dc_requests EXCEPT ![r] = DcIdle] /\ UNCHANGED dc_votes
          \/ /\ key \in DOMAIN dc_votes /\ dc_votes' = [k \in DOMAIN dc_votes \ {key} |-> dc_votes[k]]
             /\ dc_requests' = [dc_requests EXCEPT ![r] = [q EXCEPT !.at = "add", !.delta = -dc_votes[key]]]
        BY <1>6 DEF LockVotes, DcStep, Undone
    <2>2. q \in [kind : {"vote"}, at : {"insert", "lock", "add"}, comment : 1 .. n, user : Voters, delta : {-1, 1}]
        BY <1>1, <1>2, <2>1, DcShape
    <2> HIDE DEF q
    <2>3. CASE dc_requests' = [dc_requests EXCEPT ![r] = [q EXCEPT !.at = "insert"]] /\ UNCHANGED dc_votes
        <3>1. [q EXCEPT !.at = "insert"] \in [kind : {"vote"}, at : {"insert", "lock", "add"}, comment : 1 .. n, user : Voters, delta : {-1, 1}]
            BY <2>2
        <3>2. [q EXCEPT !.at = "insert"] \in DcStates(n) /\ [q EXCEPT !.at = "insert"].kind = "vote"
            BY <3>1 DEF DcStates
        <3> QED BY <2>1, <2>3, <3>2, DcTypesRequest
    <2>4. CASE dc_requests' = [dc_requests EXCEPT ![r] = DcIdle] /\ UNCHANGED dc_votes
        BY <2>1, <2>4, <1>3, DcTypesRequest
    <2>5. CASE /\ key \in DOMAIN dc_votes /\ dc_votes' = [k \in DOMAIN dc_votes \ {key} |-> dc_votes[k]]
               /\ dc_requests' = [dc_requests EXCEPT ![r] = [q EXCEPT !.at = "add", !.delta = -dc_votes[key]]]
        <3> DEFINE d == -dc_votes[key]
        <3>1. d \in {-1, 1}
            BY <2>5 DEF DcTypes
        <3> HIDE DEF d
        <3>2. [q EXCEPT !.at = "add", !.delta = d] \in [kind : {"vote"}, at : {"insert", "lock", "add"}, comment : 1 .. n, user : Voters, delta : {-1, 1}]
            BY <2>2, <3>1
        <3>3. [q EXCEPT !.at = "add", !.delta = d] \in DcStates(n) /\ [q EXCEPT !.at = "add", !.delta = d].kind = "vote"
            BY <3>2 DEF DcStates
        <3> HIDE DEF key
        <3>4. DOMAIN dc_votes' = DOMAIN dc_votes \ {key} /\ \A k \in DOMAIN dc_votes' : dc_votes'[k] \in {-1, 1}
            BY <2>5 DEF DcTypes
        <3>5. DOMAIN dc_votes' \in SUBSET (CommentIds \X Voters) /\ IsFiniteSet(DOMAIN dc_votes')
            BY <3>4, FS_Subset DEF DcTypes
        <3> QED BY <2>1, <2>5, <3>3, <3>4, <3>5, DcTypesRequest DEF d
    <2> QED BY <2>6, <2>3, <2>4, <2>5
<1>7. ASSUME NEW r \in DcRequests, AddScore(r)
      PROVE  DcTypes'
    <2> DEFINE q == dc_requests[r]
    <2>1. /\ q.kind = "vote" /\ dc_comments' = [dc_comments EXCEPT ![q.comment].score = @ + q.delta]
          /\ dc_requests' = [dc_requests EXCEPT ![r] = DcIdle] /\ UNCHANGED dc_votes
        BY <1>7 DEF AddScore, DcStep
    <2>2. q.comment \in DOMAIN dc_comments /\ q.delta \in Int
        BY <1>1, <1>2, <2>1, DcShape
    <2>3. RowsKeep
        BY <2>1, <2>2, ScoredRow
    <2> QED BY <2>1, <2>3, DcTypesRows DEF RowsKeep
<1>8. ASSUME NEW r \in DcRequests, NEW c \in CommentIds, StartEdit(r, c)
      PROVE  DcTypes'
    <2> DEFINE row == dc_comments[c]
    <2>1. UNCHANGED <<dc_comments, dc_votes>>
        BY <1>8 DEF StartEdit
    <2>2. c \in 1 .. n /\ row \in Comments /\ row.hidden \in BOOLEAN
        BY <1>1, RowTypes
    <2>3. \/ dc_requests' = [dc_requests EXCEPT ![r] = [kind |-> "edit", comment |-> c, row |-> row]]
          \/ \E h \in BOOLEAN :
                dc_requests' = [dc_requests EXCEPT ![r] = [kind |-> "admin", comment |-> c, row |-> [row EXCEPT !.hidden = h]]]
        BY <1>8 DEF StartEdit, DcStart
    <2>4. ASSUME NEW kind \in {"edit", "admin"}, NEW new \in Comments, new.parent = row.parent,
                 dc_requests' = [dc_requests EXCEPT ![r] = [kind |-> kind, comment |-> c, row |-> new]]
          PROVE  DcTypes'
        <3> DEFINE state == [kind |-> kind, comment |-> c, row |-> new]
        <3>1. state \in DcStates(n) /\ state.row.parent = dc_comments[state.comment].parent
            BY <2>2, <2>4 DEF DcStates
        <3>2. dc_requests' = [dc_requests EXCEPT ![r] = state]
            BY <2>4
        <3> HIDE DEF state
        <3> QED BY <2>1, <3>1, <3>2, DcTypesRequest
    <2>5. ASSUME NEW h \in BOOLEAN
          PROVE  [row EXCEPT !.hidden = h] \in Comments /\ [row EXCEPT !.hidden = h].parent = row.parent
        BY <2>2 DEF Comments
    <2> HIDE DEF row
    <2> QED BY <2>2, <2>3, <2>4, <2>5
<1>9. ASSUME NEW r \in DcRequests, NEW c \in CommentIds, StartReply(r, c)
      PROVE  DcTypes'
    <2> DEFINE state == [kind |-> "reply", parent |-> c]
    <2>1. state \in DcStates(n) /\ state.kind = "reply"
        BY <1>1 DEF DcStates
    <2>2. dc_requests' = [dc_requests EXCEPT ![r] = state] /\ UNCHANGED <<dc_comments, dc_votes>>
        BY <1>9 DEF StartReply, DcStart
    <2> HIDE DEF state
    <2> QED BY <2>1, <2>2, DcTypesRequest
<1>10. ASSUME NEW r \in DcRequests, SaveEdit(r)
       PROVE  DcTypes'
    <2>1. RowsKeep
        BY <1>10, SavedRows
    <2>2. dc_requests' = [dc_requests EXCEPT ![r] = DcIdle] /\ UNCHANGED dc_votes
        BY <1>10 DEF SaveEdit, DcStep
    <2> QED BY <2>1, <2>2, DcTypesRows DEF RowsKeep
<1>11. ASSUME NEW r \in DcRequests, InsertReply(r)
       PROVE  DcTypes'
    <2> DEFINE q == dc_requests[r]
               row == [parent |-> q.parent, score |-> 0, hidden |-> FALSE]
    <2>1. /\ q.kind = "reply" /\ dc_comments' = Append(dc_comments, row)
          /\ dc_requests' = [dc_requests EXCEPT ![r] = DcIdle] /\ UNCHANGED dc_votes
        BY <1>11 DEF InsertReply, DcStep
    <2>2. q.parent \in 1 .. n
        BY <1>1, <1>2, <2>1, DcShape
    <2> HIDE DEF q
    <2>3. row \in Comments
        BY <2>2, <1>1 DEF Comments
    <2>4. row.parent \in 0 .. n
        BY <2>2, <1>1
    <2> HIDE DEF row
    <2>5. dc_comments \in Seq(Comments)
        BY DEF DcTypes, Parented, Comments
    <2>6. /\ dc_comments' \in Seq(Comments) /\ Len(dc_comments') = n + 1
          /\ \A d \in 1 .. n : dc_comments'[d] = dc_comments[d]
          /\ dc_comments'[n + 1] = row
        BY <2>1, <2>3, <2>5
    <2>7. Parented(dc_comments')
        <3>1. \A d \in 1 .. n : dc_comments[d].parent \in 0 .. d - 1
            BY DEF DcTypes, Parented
        <3>2. \A d \in 1 .. n + 1 : d \in 1 .. n \/ d = n + 1
            BY <1>1
        <3>3. (n + 1) - 1 = n
            BY <1>1
        <3> HIDE DEF n
        <3>4. \A d \in 1 .. n + 1 : dc_comments'[d].parent \in 0 .. d - 1
            BY <2>4, <2>6, <3>1, <3>2, <3>3
        <3> QED BY <2>6, <3>4 DEF Parented, Comments
    <2>8. /\ dc_requests' \in [DcRequests -> DcStates(n + 1)]
          /\ IsFiniteSet(Busy')
          /\ dc_requests'[r] = DcIdle
          /\ \A o \in DcRequests \ {r} : dc_requests'[o] = dc_requests[o]
        <3>1. dc_requests \in [DcRequests -> DcStates(n)] /\ IsFiniteSet(Busy)
            BY DEF DcTypes
        <3>2. n + 1 \in Nat /\ n <= n + 1 /\ DcIdle \in DcStates(n + 1)
            BY <1>1 DEF DcStates
        <3> HIDE DEF n
        <3> QED BY <2>1, <3>1, <3>2, <1>1, DcStepTypes
    <2>9. ASSUME NEW o \in DcRequests, dc_requests'[o].kind \in {"edit", "admin"}
          PROVE  dc_requests'[o].row.parent = dc_comments'[dc_requests'[o].comment].parent
        <3>1. dc_requests'[o] = dc_requests[o]
            BY <2>8, <2>9, <1>3
        <3>2. dc_requests[o].comment \in 1 .. n
            BY <3>1, <2>9, <1>1, <1>2, DcShape
        <3> QED BY <3>1, <3>2, <2>6, <2>9 DEF DcTypes
    <2>10. DOMAIN dc_votes' \in SUBSET (CommentIds' \X Voters)
        <3>1. CommentIds \subseteq CommentIds'
            BY <1>1, <2>6 DEF CommentIds
        <3> QED BY <3>1, <2>1 DEF DcTypes
    <2> QED BY <2>1, <2>6, <2>7, <2>8, <2>9, <2>10 DEF DcTypes
<1>12. ASSUME NEW c \in CommentIds, Hide(c) \/ AdminHide(c)
       PROVE  DcTypes'
    <2>1. (\E S : dc_comments' = Hiding(dc_comments, S)) /\ UNCHANGED <<dc_votes, dc_requests>>
        BY <1>12 DEF Hide, AdminHide
    <2>2. RowsKeep
        BY <2>1, HiddenRows
    <2> QED BY <2>1, <2>2, DcTypesRows DEF RowsKeep
<1>13. ASSUME NEW c \in CommentIds, AdminUnhide(c)
       PROVE  DcTypes'
    <2>1. dc_comments' = [dc_comments EXCEPT ![c].hidden = FALSE] /\ UNCHANGED <<dc_votes, dc_requests>>
        BY <1>13 DEF AdminUnhide
    <2>2. RowsKeep
        BY <1>1, <2>1, ShownRow
    <2> QED BY <2>1, <2>2, DcTypesRows DEF RowsKeep
<1>14. CASE UNCHANGED dcvars
    BY <1>14 DEF dcvars, DcTypes, Busy, CommentIds
<1> QED BY <1>4, <1>5, <1>6, <1>7, <1>8, <1>9, <1>10, <1>11, <1>12, <1>13, <1>14 DEF DcNext

-----------------------------------------------------------------------------
(* The score.                                                              *)

Adds(q, c, d) == q.kind = "vote" /\ q.at = "add" /\ q.comment = c /\ q.delta = d

Balanced(c) ==
    dc_comments[c].score + (Cardinality(Adding(c, 1)) - Cardinality(Adding(c, -1)))
        = Cardinality(VotesFor(c, 1)) - Cardinality(VotesFor(c, -1))

\* The votes that requests are about to add are finitely many.
LEMMA AddingFinite ==
    ASSUME DcTypes, NEW c, NEW d
    PROVE  IsFiniteSet(Adding(c, d)) /\ Cardinality(Adding(c, d)) \in Nat
<1>1. Adding(c, d) \subseteq Busy
    BY DEF Adding, Busy, DcIdle
<1> QED BY <1>1, FS_Subset, FS_CardinalityType DEF DcTypes

\* The votes on a comment are finitely many.
LEMMA VotesFinite ==
    ASSUME DcTypes, NEW c, NEW d
    PROVE  IsFiniteSet(VotesFor(c, d)) /\ Cardinality(VotesFor(c, d)) \in Nat
<1>1. VotesFor(c, d) \subseteq DOMAIN dc_votes
    BY DEF VotesFor
<1> QED BY <1>1, FS_Subset, FS_CardinalityType DEF DcTypes

\* What a set that gains or loses one element counts.
LEMMA CountChange ==
    ASSUME NEW S, NEW T, NEW x, IsFiniteSet(S), T \ {x} = S \ {x}
    PROVE  /\ x \in T /\ x \notin S => Cardinality(T) = Cardinality(S) + 1
           /\ x \notin T /\ x \in S => Cardinality(T) = Cardinality(S) - 1
           /\ x \notin T /\ x \notin S => Cardinality(T) = Cardinality(S)
<1>1. ASSUME x \in T, x \notin S
      PROVE  Cardinality(T) = Cardinality(S) + 1
    <2>1. T = S \cup {x}
        BY <1>1
    <2> QED BY <1>1, <2>1, FS_AddElement
<1>2. ASSUME x \notin T, x \in S
      PROVE  Cardinality(T) = Cardinality(S) - 1
    <2>1. T = S \ {x}
        BY <1>2
    <2> QED BY <1>2, <2>1, FS_RemoveElement
<1>3. ASSUME x \notin T, x \notin S
      PROVE  Cardinality(T) = Cardinality(S)
    <2>1. T = S
        BY <1>3
    <2> QED BY <2>1
<1> QED BY <1>1, <1>2, <1>3

Becomes(r, state) == dc_requests' = [dc_requests EXCEPT ![r] = state]

\* When a request starts or ends adding a vote, one is counted more or less.
LEMMA AddingStep ==
    ASSUME DcTypes, NEW r \in DcRequests, NEW state, Becomes(r, state),
           NEW c, NEW d
    PROVE  /\ Adds(state, c, d) /\ ~Adds(dc_requests[r], c, d) => Cardinality(Adding(c, d)') = Cardinality(Adding(c, d)) + 1
           /\ ~Adds(state, c, d) /\ Adds(dc_requests[r], c, d) => Cardinality(Adding(c, d)') = Cardinality(Adding(c, d)) - 1
           /\ ~Adds(state, c, d) /\ ~Adds(dc_requests[r], c, d) => Cardinality(Adding(c, d)') = Cardinality(Adding(c, d))
<1>1. dc_requests'[r] = state /\ \A o \in DcRequests \ {r} : dc_requests'[o] = dc_requests[o]
    BY DEF DcTypes, Becomes
<1> DEFINE S == Adding(c, d)
           T == Adding(c, d)'
<1>2. T \ {r} = S \ {r}
    BY <1>1 DEF Adding
<1>3. (r \in T) <=> Adds(state, c, d)
    BY <1>1 DEF Adding, Adds
<1>4. (r \in S) <=> Adds(dc_requests[r], c, d)
    BY DEF Adding, Adds
<1>5. IsFiniteSet(S)
    BY AddingFinite
<1> HIDE DEF S, T
<1>6. /\ r \in T /\ r \notin S => Cardinality(T) = Cardinality(S) + 1
      /\ r \notin T /\ r \in S => Cardinality(T) = Cardinality(S) - 1
      /\ r \notin T /\ r \notin S => Cardinality(T) = Cardinality(S)
    BY <1>2, <1>5, CountChange
<1> QED BY <1>3, <1>4, <1>6 DEF S, T

\* A vote that is stored, changed or deleted counts for the comment it is on, and for no other.
LEMMA VotesStep ==
    ASSUME DcTypes, NEW key,
           \A k : k # key => (k \in DOMAIN dc_votes' <=> k \in DOMAIN dc_votes),
           \A k \in DOMAIN dc_votes \ {key} : dc_votes'[k] = dc_votes[k],
           NEW c, NEW d
    PROVE  /\ key \in VotesFor(c, d)' /\ key \notin VotesFor(c, d) => Cardinality(VotesFor(c, d)') = Cardinality(VotesFor(c, d)) + 1
           /\ key \notin VotesFor(c, d)' /\ key \in VotesFor(c, d) => Cardinality(VotesFor(c, d)') = Cardinality(VotesFor(c, d)) - 1
           /\ key \notin VotesFor(c, d)' /\ key \notin VotesFor(c, d) => Cardinality(VotesFor(c, d)') = Cardinality(VotesFor(c, d))
<1> DEFINE S == VotesFor(c, d)
           T == VotesFor(c, d)'
<1>1. ASSUME NEW k, k # key
      PROVE  k \in T <=> k \in S
    BY <1>1 DEF VotesFor
<1>2. IsFiniteSet(S)
    BY VotesFinite
<1> HIDE DEF S, T
<1>3. T \ {key} = S \ {key}
    BY <1>1
<1>4. /\ key \in T /\ key \notin S => Cardinality(T) = Cardinality(S) + 1
      /\ key \notin T /\ key \in S => Cardinality(T) = Cardinality(S) - 1
      /\ key \notin T /\ key \notin S => Cardinality(T) = Cardinality(S)
    BY <1>2, <1>3, CountChange
<1> QED BY <1>4 DEF S, T

\* Steps of a request that neither was nor is about to add, and leave scores and votes.
LEMMA BalanceKept ==
    ASSUME DcTypes, NEW c \in CommentIds, Balanced(c),
           dc_comments'[c].score = dc_comments[c].score, UNCHANGED dc_votes,
           \/ UNCHANGED dc_requests
           \/ \E r \in DcRequests : \E state :
                 /\ dc_requests' = [dc_requests EXCEPT ![r] = state]
                 /\ \A d : ~Adds(state, c, d) /\ ~Adds(dc_requests[r], c, d)
    PROVE  Balanced(c)'
<1>1. ASSUME NEW d
      PROVE  Cardinality(Adding(c, d)') = Cardinality(Adding(c, d))
    <2>1. CASE UNCHANGED dc_requests
        BY <2>1 DEF Adding
    <2>2. CASE ~UNCHANGED dc_requests
        <3>1. PICK r \in DcRequests : \E state : /\ dc_requests' = [dc_requests EXCEPT ![r] = state]
                                                /\ ~Adds(state, c, d) /\ ~Adds(dc_requests[r], c, d)
            BY <2>2
        <3>2. PICK state : /\ dc_requests' = [dc_requests EXCEPT ![r] = state]
                           /\ ~Adds(state, c, d) /\ ~Adds(dc_requests[r], c, d)
            BY <3>1
        <3>3. Becomes(r, state)
            BY <3>2 DEF Becomes
        <3> QED BY <3>2, <3>3, AddingStep
    <2> QED BY <2>1, <2>2
<1>2. \A d : VotesFor(c, d)' = VotesFor(c, d)
    BY DEF VotesFor
<1> QED BY <1>1, <1>2 DEF Balanced

\* The score is that of the votes: said of sums, without subtraction.
LEMMA BalanceIsScore == ScoreIsTheVotes <=> \A c \in CommentIds \ dc_overwritten : Balanced(c)
BY DEF ScoreIsTheVotes, Balanced

\* Every step keeps the scores: votes add to what the database has, and an edit that saves an old
\* score is remembered.
LEMMA ScoreNext ==
    ASSUME DcTypes, ScoreIsTheVotes, [DcNext]_dcvars
    PROVE  ScoreIsTheVotes'
<1> DEFINE n == Len(dc_comments)
<1>1. n \in Nat /\ DOMAIN dc_comments = 1 .. n /\ CommentIds = DOMAIN dc_comments
    BY RowTypes
<1>2. \A r \in DcRequests : dc_requests[r] \in DcStates(n)
    BY DEF DcTypes
<1>3. \A c, d : ~Adds(DcIdle, c, d)
    BY DEF Adds, DcIdle
<1>4. ASSUME dc_overwritten \subseteq dc_overwritten', DOMAIN dc_comments' = DOMAIN dc_comments,
             NEW F, F = CommentIds \ dc_overwritten', \A c \in F : Balanced(c) => Balanced(c)'
      PROVE  ScoreIsTheVotes'
    <2>0. CommentIds' = CommentIds
        <3>1. DcTypes'
            BY DcTypesNext
        <3>2. dc_comments' \in Seq(Comments)
            BY <3>1 DEF DcTypes, Parented, Comments
        <3>3. DOMAIN dc_comments' = CommentIds'
            BY <3>2 DEF CommentIds
        <3> QED BY <3>3, <1>1, <1>4
    <2>1. \A c \in CommentIds' \ dc_overwritten' : Balanced(c)'
        BY <2>0, <1>4, BalanceIsScore
    <2> QED BY <2>1 DEF ScoreIsTheVotes, Balanced
<1>5. ASSUME dc_overwritten \subseteq dc_overwritten', DOMAIN dc_comments' = DOMAIN dc_comments,
             \A c \in CommentIds \ dc_overwritten' : Balanced(c) => Balanced(c)'
      PROVE  ScoreIsTheVotes'
    BY <1>4, <1>5
<1>6. \A c \in CommentIds \ dc_overwritten : Balanced(c)
    BY BalanceIsScore
<1> HIDE DEF n
<1>7. ASSUME NEW r \in DcRequests, NEW u \in Voters, NEW e \in CommentIds, NEW d \in {-1, 1}, StartVote(r, u, e, d)
      PROVE  ScoreIsTheVotes'
    <2> DEFINE state == [kind |-> "vote", at |-> "insert", comment |-> e, user |-> u, delta |-> d]
    <2>1. dc_requests' = [dc_requests EXCEPT ![r] = state] /\ UNCHANGED <<dc_comments, dc_votes, dc_overwritten>>
          /\ dc_requests[r] = DcIdle
        BY <1>7 DEF StartVote, DcStart
    <2>2. \A c, v : ~Adds(state, c, v)
        BY DEF Adds
    <2> HIDE DEF state
    <2>3. \A c \in CommentIds : Balanced(c) => Balanced(c)'
        BY <2>1, <2>2, <1>3, BalanceKept
    <2> QED BY <2>1, <2>3, <1>5
<1>8. ASSUME NEW r \in DcRequests, InsertVote(r)
      PROVE  ScoreIsTheVotes'
    <2> DEFINE q == dc_requests[r]
               key == <<q.comment, q.user>>
    <2>1. q.kind = "vote" /\ q.at = "insert" /\ UNCHANGED <<dc_comments, dc_overwritten>>
        BY <1>8 DEF InsertVote
    <2>2. IF key \in DOMAIN dc_votes
             THEN dc_requests' = [dc_requests EXCEPT ![r] = [q EXCEPT !.at = "lock"]] /\ UNCHANGED dc_votes
             ELSE /\ dc_votes' = [k \in DOMAIN dc_votes \cup {key} |-> IF k = key THEN q.delta ELSE dc_votes[k]]
                  /\ dc_requests' = [dc_requests EXCEPT ![r] = [q EXCEPT !.at = "add"]]
        BY <1>8 DEF InsertVote, DcStep
    <2>3. q \in [kind : {"vote"}, at : {"insert", "lock", "add"}, comment : 1 .. n, user : Voters, delta : {-1, 1}]
        BY <1>1, <1>2, <2>1, DcShape
    <2>4. \A c, d : ~Adds(q, c, d)
        BY <2>1 DEF Adds
    <2>5. CASE key \in DOMAIN dc_votes
        <3>1. \A c, d : ~Adds([q EXCEPT !.at = "lock"], c, d)
            BY <2>3 DEF Adds
        <3>2. dc_requests' = [dc_requests EXCEPT ![r] = [q EXCEPT !.at = "lock"]] /\ UNCHANGED dc_votes
            BY <2>2, <2>5
        <3>3. \A c \in CommentIds : Balanced(c) => Balanced(c)'
            BY <2>1, <2>4, <3>1, <3>2, BalanceKept
        <3> QED BY <2>1, <3>3, <1>5
    <2>6. CASE key \notin DOMAIN dc_votes
        <3> DEFINE state == [q EXCEPT !.at = "add"]
        <3>1. /\ dc_votes' = [k \in DOMAIN dc_votes \cup {key} |-> IF k = key THEN q.delta ELSE dc_votes[k]]
              /\ dc_requests' = [dc_requests EXCEPT ![r] = state]
            BY <2>2, <2>6
        <3>2. \A c, d : Adds(state, c, d) = (q.comment = c /\ q.delta = d)
            BY <2>3 DEF Adds
        <3>3. \A c, d : key \notin VotesFor(c, d) /\ (key \in VotesFor(c, d)') = (q.comment = c /\ q.delta = d)
            BY <2>6, <3>1 DEF VotesFor
        <3>4. /\ \A k : k # key => (k \in DOMAIN dc_votes' <=> k \in DOMAIN dc_votes)
              /\ \A k \in DOMAIN dc_votes \ {key} : dc_votes'[k] = dc_votes[k]
            BY <3>1
        <3>7. q.delta \in {-1, 1}
            BY <2>3
        <3> HIDE DEF state, key, q
        <3>5. ASSUME NEW c \in CommentIds, NEW d
              PROVE  /\ q.comment = c /\ q.delta = d =>
                            /\ Cardinality(Adding(c, d)') = Cardinality(Adding(c, d)) + 1
                            /\ Cardinality(VotesFor(c, d)') = Cardinality(VotesFor(c, d)) + 1
                     /\ ~(q.comment = c /\ q.delta = d) =>
                            /\ Cardinality(Adding(c, d)') = Cardinality(Adding(c, d))
                            /\ Cardinality(VotesFor(c, d)') = Cardinality(VotesFor(c, d))
            <4>1. /\ Adds(state, c, d) => Cardinality(Adding(c, d)') = Cardinality(Adding(c, d)) + 1
                  /\ ~Adds(state, c, d) => Cardinality(Adding(c, d)') = Cardinality(Adding(c, d))
                <5>1. Becomes(r, state) /\ ~Adds(dc_requests[r], c, d)
                    BY <3>1, <2>4 DEF Becomes, q
                <5> QED BY <5>1, AddingStep
            <4>2. /\ key \in VotesFor(c, d)' => Cardinality(VotesFor(c, d)') = Cardinality(VotesFor(c, d)) + 1
                  /\ key \notin VotesFor(c, d)' => Cardinality(VotesFor(c, d)') = Cardinality(VotesFor(c, d))
                BY <3>3, <3>4, VotesStep
            <4> QED BY <4>1, <4>2, <3>2, <3>3
        <3>6. ASSUME NEW c \in CommentIds, Balanced(c)
              PROVE  Balanced(c)'
            <4>1. /\ Cardinality(Adding(c, 1)) \in Nat /\ Cardinality(VotesFor(c, 1)) \in Nat
                  /\ Cardinality(Adding(c, -1)) \in Nat /\ Cardinality(VotesFor(c, -1)) \in Nat
                BY AddingFinite, VotesFinite
            <4>2. dc_comments'[c].score = dc_comments[c].score /\ dc_comments[c].score \in Int
                BY <2>1, <1>1, RowTypes
            <4>3. CASE q.comment = c /\ q.delta = 1
                <5>1. Cardinality(Adding(c, 1)') = Cardinality(Adding(c, 1)) + 1 /\ Cardinality(VotesFor(c, 1)') = Cardinality(VotesFor(c, 1)) + 1
                    BY <3>5, <4>3
                <5>2. Cardinality(Adding(c, -1)') = Cardinality(Adding(c, -1)) /\ Cardinality(VotesFor(c, -1)') = Cardinality(VotesFor(c, -1))
                    BY <3>5, <4>3
                <5> QED BY <3>6, <4>1, <4>2, <5>1, <5>2 DEF Balanced
            <4>4. CASE q.comment = c /\ q.delta = -1
                <5>1. Cardinality(Adding(c, 1)') = Cardinality(Adding(c, 1)) /\ Cardinality(VotesFor(c, 1)') = Cardinality(VotesFor(c, 1))
                    BY <3>5, <4>4
                <5>2. Cardinality(Adding(c, -1)') = Cardinality(Adding(c, -1)) + 1 /\ Cardinality(VotesFor(c, -1)') = Cardinality(VotesFor(c, -1)) + 1
                    BY <3>5, <4>4
                <5> QED BY <3>6, <4>1, <4>2, <5>1, <5>2 DEF Balanced
            <4>5. CASE q.comment # c
                <5>1. \A d : Cardinality(Adding(c, d)') = Cardinality(Adding(c, d)) /\ Cardinality(VotesFor(c, d)') = Cardinality(VotesFor(c, d))
                    BY <3>5, <4>5
                <5> QED BY <3>6, <4>1, <4>2, <5>1 DEF Balanced
            <4> QED BY <3>7, <4>3, <4>4, <4>5
        <3> QED BY <2>1, <3>6, <1>5
    <2> QED BY <2>5, <2>6
<1>9. ASSUME NEW r \in DcRequests, LockVotes(r)
      PROVE  ScoreIsTheVotes'
    <2> DEFINE q == dc_requests[r]
               key == <<q.comment, q.user>>
    <2>1. q.kind = "vote" /\ q.at = "lock" /\ UNCHANGED <<dc_comments, dc_overwritten>>
        BY <1>9 DEF LockVotes
    <2>2. \/ dc_requests' = [dc_requests EXCEPT ![r] = [q EXCEPT !.at = "insert"]] /\ UNCHANGED dc_votes
          \/ dc_requests' = [dc_requests EXCEPT ![r] = DcIdle] /\ UNCHANGED dc_votes
          \/ /\ key \in DOMAIN dc_votes /\ dc_votes' = [k \in DOMAIN dc_votes \ {key} |-> dc_votes[k]]
             /\ dc_requests' = [dc_requests EXCEPT ![r] = [q EXCEPT !.at = "add", !.delta = -dc_votes[key]]]
        BY <1>9 DEF LockVotes, DcStep, Undone
    <2>3. q \in [kind : {"vote"}, at : {"insert", "lock", "add"}, comment : 1 .. n, user : Voters, delta : {-1, 1}]
        BY <1>1, <1>2, <2>1, DcShape
    <2>4. \A c, d : ~Adds(q, c, d)
        BY <2>1 DEF Adds
    <2>5. ASSUME NEW state, \A c, d : ~Adds(state, c, d),
                 dc_requests' = [dc_requests EXCEPT ![r] = state] /\ UNCHANGED dc_votes
          PROVE  ScoreIsTheVotes'
        <3>1. \A c \in CommentIds : Balanced(c) => Balanced(c)'
            BY <2>1, <2>4, <2>5, BalanceKept
        <3> QED BY <2>1, <3>1, <1>5
    <2>6. CASE dc_requests' = [dc_requests EXCEPT ![r] = [q EXCEPT !.at = "insert"]] /\ UNCHANGED dc_votes
        <3>1. \A c, d : ~Adds([q EXCEPT !.at = "insert"], c, d)
            BY <2>3 DEF Adds
        <3> QED BY <3>1, <2>5, <2>6
    <2>7. CASE dc_requests' = [dc_requests EXCEPT ![r] = DcIdle] /\ UNCHANGED dc_votes
        BY <1>3, <2>5, <2>7
    <2>8. CASE /\ key \in DOMAIN dc_votes /\ dc_votes' = [k \in DOMAIN dc_votes \ {key} |-> dc_votes[k]]
               /\ dc_requests' = [dc_requests EXCEPT ![r] = [q EXCEPT !.at = "add", !.delta = -dc_votes[key]]]
        <3> DEFINE v == dc_votes[key]
                   state == [q EXCEPT !.at = "add", !.delta = -v]
        <3>1. v \in {-1, 1} /\ Becomes(r, state)
            BY <2>8 DEF DcTypes, Becomes
        <3>2. \A c, d : Adds(state, c, d) <=> (q.comment = c /\ -v = d)
            BY <2>3 DEF Adds
        <3>3. \A c, d : (key \in VotesFor(c, d) <=> (q.comment = c /\ v = d)) /\ key \notin VotesFor(c, d)'
            BY <2>8 DEF VotesFor
        <3>4. /\ \A k : k # key => (k \in DOMAIN dc_votes' <=> k \in DOMAIN dc_votes)
              /\ \A k \in DOMAIN dc_votes \ {key} : dc_votes'[k] = dc_votes[k]
            BY <2>8
        <3> HIDE DEF state, key, v
        <3>5. ASSUME NEW c \in CommentIds, NEW d
              PROVE  /\ q.comment = c /\ -v = d => Cardinality(Adding(c, d)') = Cardinality(Adding(c, d)) + 1
                     /\ ~(q.comment = c /\ -v = d) => Cardinality(Adding(c, d)') = Cardinality(Adding(c, d))
                     /\ q.comment = c /\ v = d => Cardinality(VotesFor(c, d)') = Cardinality(VotesFor(c, d)) - 1
                     /\ ~(q.comment = c /\ v = d) => Cardinality(VotesFor(c, d)') = Cardinality(VotesFor(c, d))
            <4>1. /\ Adds(state, c, d) => Cardinality(Adding(c, d)') = Cardinality(Adding(c, d)) + 1
                  /\ ~Adds(state, c, d) => Cardinality(Adding(c, d)') = Cardinality(Adding(c, d))
                BY <3>1, <2>4, AddingStep
            <4>2. /\ key \in VotesFor(c, d) => Cardinality(VotesFor(c, d)') = Cardinality(VotesFor(c, d)) - 1
                  /\ key \notin VotesFor(c, d) => Cardinality(VotesFor(c, d)') = Cardinality(VotesFor(c, d))
                BY <3>3, <3>4, VotesStep
            <4> QED BY <4>1, <4>2, <3>2, <3>3
        <3> HIDE DEF q
        <3>6. ASSUME NEW c \in CommentIds, Balanced(c)
              PROVE  Balanced(c)'
            <4>1. /\ Cardinality(Adding(c, 1)) \in Nat /\ Cardinality(VotesFor(c, 1)) \in Nat
                  /\ Cardinality(Adding(c, -1)) \in Nat /\ Cardinality(VotesFor(c, -1)) \in Nat
                BY AddingFinite, VotesFinite
            <4>2. dc_comments'[c].score = dc_comments[c].score /\ dc_comments[c].score \in Int
                BY <2>1, <1>1, RowTypes
            <4>3. CASE q.comment = c /\ v = 1
                <5>1. Cardinality(Adding(c, 1)') = Cardinality(Adding(c, 1)) /\ Cardinality(VotesFor(c, 1)') = Cardinality(VotesFor(c, 1)) - 1
                    BY <3>5, <4>3
                <5>2. Cardinality(Adding(c, -1)') = Cardinality(Adding(c, -1)) + 1 /\ Cardinality(VotesFor(c, -1)') = Cardinality(VotesFor(c, -1))
                    BY <3>5, <4>3
                <5> QED BY <3>6, <4>1, <4>2, <5>1, <5>2 DEF Balanced
            <4>4. CASE q.comment = c /\ v = -1
                <5>0. -v = 1
                    <6>1. v \in Int /\ v + 1 = 0
                        BY <4>4
                    <6> QED BY <6>1
                <5>1. Cardinality(Adding(c, 1)') = Cardinality(Adding(c, 1)) + 1 /\ Cardinality(VotesFor(c, 1)') = Cardinality(VotesFor(c, 1))
                    BY <3>5, <4>4, <5>0
                <5>2. Cardinality(Adding(c, -1)') = Cardinality(Adding(c, -1)) /\ Cardinality(VotesFor(c, -1)') = Cardinality(VotesFor(c, -1)) - 1
                    BY <3>5, <4>4, <5>0
                <5> QED BY <3>6, <4>1, <4>2, <5>1, <5>2 DEF Balanced
            <4>5. CASE q.comment # c
                <5>1. \A d : Cardinality(Adding(c, d)') = Cardinality(Adding(c, d)) /\ Cardinality(VotesFor(c, d)') = Cardinality(VotesFor(c, d))
                    BY <3>5, <4>5
                <5> QED BY <3>6, <4>1, <4>2, <5>1 DEF Balanced
            <4> QED BY <3>1, <4>3, <4>4, <4>5
        <3> QED BY <2>1, <3>6, <1>5
    <2> QED BY <2>2, <2>6, <2>7, <2>8
<1>10. ASSUME NEW r \in DcRequests, AddScore(r)
       PROVE  ScoreIsTheVotes'
    <2> DEFINE q == dc_requests[r]
    <2>1. /\ q.kind = "vote" /\ q.at = "add" /\ dc_comments' = [dc_comments EXCEPT ![q.comment].score = @ + q.delta]
          /\ Becomes(r, DcIdle) /\ UNCHANGED <<dc_votes, dc_overwritten>>
        BY <1>10 DEF AddScore, DcStep, Becomes
    <2>2. q.comment \in DOMAIN dc_comments /\ q.delta \in {-1, 1} /\ q.delta \in Int
        BY <1>1, <1>2, <2>1, DcShape
    <2>3. /\ RowsKeep
          /\ \A d \in DOMAIN dc_comments : dc_comments'[d].score = dc_comments[d].score + IF d = q.comment THEN q.delta ELSE 0
        BY <2>1, <2>2, ScoredRow
    <2>4. \A c, d : Adds(q, c, d) <=> (q.comment = c /\ q.delta = d)
        BY <2>1 DEF Adds
    <2>5. ASSUME NEW c, NEW d
          PROVE  /\ q.comment = c /\ q.delta = d => Cardinality(Adding(c, d)') = Cardinality(Adding(c, d)) - 1
                 /\ ~(q.comment = c /\ q.delta = d) => Cardinality(Adding(c, d)') = Cardinality(Adding(c, d))
        <3>1. /\ Adds(q, c, d) => Cardinality(Adding(c, d)') = Cardinality(Adding(c, d)) - 1
              /\ ~Adds(q, c, d) => Cardinality(Adding(c, d)') = Cardinality(Adding(c, d))
            BY <2>1, <1>3, AddingStep
        <3> QED BY <3>1, <2>4
    <2> HIDE DEF q
    <2>6. ASSUME NEW c \in CommentIds, Balanced(c)
          PROVE  Balanced(c)'
        <3>1. /\ Cardinality(Adding(c, 1)) \in Nat /\ Cardinality(VotesFor(c, 1)) \in Nat
              /\ Cardinality(Adding(c, -1)) \in Nat /\ Cardinality(VotesFor(c, -1)) \in Nat
            BY AddingFinite, VotesFinite
        <3>2. dc_comments'[c].score = dc_comments[c].score + (IF c = q.comment THEN q.delta ELSE 0) /\ dc_comments[c].score \in Int
            BY <2>3, <1>1, RowTypes
        <3>3. \A d : VotesFor(c, d)' = VotesFor(c, d)
            BY <2>1 DEF VotesFor
        <3>4. CASE q.comment = c /\ q.delta = 1
            <4>1. Cardinality(Adding(c, 1)') = Cardinality(Adding(c, 1)) - 1 /\ Cardinality(Adding(c, -1)') = Cardinality(Adding(c, -1))
                BY <2>5, <3>4
            <4>2. dc_comments'[c].score = dc_comments[c].score + 1
                BY <3>2, <3>4
            <4> QED BY <2>6, <3>1, <3>2, <3>3, <4>1, <4>2 DEF Balanced
        <3>5. CASE q.comment = c /\ q.delta = -1
            <4>1. Cardinality(Adding(c, 1)') = Cardinality(Adding(c, 1)) /\ Cardinality(Adding(c, -1)') = Cardinality(Adding(c, -1)) - 1
                BY <2>5, <3>5
            <4>2. dc_comments'[c].score = dc_comments[c].score - 1
                BY <3>2, <3>5
            <4> QED BY <2>6, <3>1, <3>2, <3>3, <4>1, <4>2 DEF Balanced
        <3>6. CASE q.comment # c
            <4>1. \A d : Cardinality(Adding(c, d)') = Cardinality(Adding(c, d))
                BY <2>5, <3>6
            <4>2. dc_comments'[c].score = dc_comments[c].score
                BY <3>2, <3>6
            <4> QED BY <2>6, <3>3, <4>1, <4>2 DEF Balanced
        <3> QED BY <2>2, <3>4, <3>5, <3>6
    <2> QED BY <2>1, <2>3, <2>6, <1>5 DEF RowsKeep
<1>11. ASSUME NEW r \in DcRequests, NEW e \in CommentIds, StartEdit(r, e) \/ StartReply(r, e)
       PROVE  ScoreIsTheVotes'
    <2>1. UNCHANGED <<dc_comments, dc_votes, dc_overwritten>> /\ dc_requests[r] = DcIdle
        BY <1>11 DEF StartEdit, StartReply, DcStart
    <2>2. \E state : dc_requests' = [dc_requests EXCEPT ![r] = state] /\ state.kind # "vote"
        <3> DEFINE edit == [kind |-> "edit", comment |-> e, row |-> dc_comments[e]]
                   admin(h) == [kind |-> "admin", comment |-> e, row |-> [dc_comments[e] EXCEPT !.hidden = h]]
                   reply == [kind |-> "reply", parent |-> e]
        <3>1. edit.kind # "vote" /\ reply.kind # "vote" /\ \A h : admin(h).kind # "vote"
            OBVIOUS
        <3>2. \/ dc_requests' = [dc_requests EXCEPT ![r] = edit]
              \/ \E h : dc_requests' = [dc_requests EXCEPT ![r] = admin(h)]
              \/ dc_requests' = [dc_requests EXCEPT ![r] = reply]
            BY <1>11 DEF StartEdit, StartReply, DcStart
        <3> HIDE DEF edit, admin, reply
        <3> QED BY <3>1, <3>2
    <2>3. PICK state : dc_requests' = [dc_requests EXCEPT ![r] = state] /\ state.kind # "vote"
        BY <2>2
    <2>4. \A c, v : ~Adds(state, c, v)
        BY <2>3 DEF Adds
    <2>5. \A c \in CommentIds : Balanced(c) => Balanced(c)'
        BY <2>1, <2>3, <2>4, <1>3, BalanceKept
    <2> QED BY <2>1, <2>5, <1>5
<1>12. ASSUME NEW r \in DcRequests, SaveEdit(r)
       PROVE  ScoreIsTheVotes'
    <2> DEFINE q == dc_requests[r]
    <2>1. /\ q.kind \in {"edit", "admin"} /\ dc_requests' = [dc_requests EXCEPT ![r] = DcIdle] /\ UNCHANGED dc_votes
          /\ dc_overwritten' = IF q.row.score # dc_comments[q.comment].score THEN dc_overwritten \cup {q.comment} ELSE dc_overwritten
        BY <1>12 DEF SaveEdit, DcStep
    <2>2. /\ RowsKeep
          /\ \A d \in DOMAIN dc_comments : dc_comments'[d].score = IF d = q.comment THEN q.row.score ELSE dc_comments[d].score
        BY <1>12, SavedRows
    <2>3. \A c, d : ~Adds(q, c, d)
        BY <2>1 DEF Adds
    <2>4. ASSUME NEW c \in CommentIds \ dc_overwritten', Balanced(c)
          PROVE  Balanced(c)'
        <3>1. dc_comments'[c].score = dc_comments[c].score
            BY <2>1, <2>2, <1>1
        <3> QED BY <2>1, <2>3, <2>4, <3>1, <1>3, BalanceKept
    <2> QED BY <2>1, <2>2, <2>4, <1>5 DEF RowsKeep
<1>13. ASSUME NEW r \in DcRequests, InsertReply(r)
       PROVE  ScoreIsTheVotes'
    <2> DEFINE q == dc_requests[r]
               row == [parent |-> q.parent, score |-> 0, hidden |-> FALSE]
    <2>1. /\ q.kind = "reply" /\ dc_comments' = Append(dc_comments, row)
          /\ dc_requests' = [dc_requests EXCEPT ![r] = DcIdle] /\ UNCHANGED <<dc_votes, dc_overwritten>>
        BY <1>13 DEF InsertReply, DcStep
    <2>2. \A c, d : ~Adds(q, c, d)
        BY <2>1 DEF Adds
    <2>3. dc_comments \in Seq(Comments) /\ row.score = 0
        BY DEF DcTypes, Parented, Comments
    <2> HIDE DEF row, q
    <2>4. /\ Len(dc_comments') = n + 1 /\ \A d \in 1 .. n : dc_comments'[d] = dc_comments[d]
          /\ dc_comments'[n + 1] = row
        BY <2>1, <2>3 DEF n
    <2>5. \A c \in CommentIds \ dc_overwritten : Balanced(c)'
        <3>1. ASSUME NEW c \in CommentIds \ dc_overwritten
              PROVE  Balanced(c)'
            <4>1. dc_comments'[c].score = dc_comments[c].score /\ Balanced(c)
                BY <2>4, <1>1, <1>6
            <4> QED BY <2>1, <2>2, <4>1, <1>3, BalanceKept DEF q
        <3> QED BY <3>1
    <2>6. PICK new \in Nat : new = n + 1
        BY <1>1
    <2>7. Balanced(new)'
        <3>1. new \notin CommentIds
            BY <1>1, <2>6 DEF n
        <3>2. \A d : VotesFor(new, d)' = {}
            <4>1. \A k \in DOMAIN dc_votes : k[1] # new
                BY <3>1 DEF DcTypes
            <4> QED BY <4>1, <2>1 DEF VotesFor
        <3>3. \A d : Adding(new, d)' = {}
            <4>1. \A o \in DcRequests : dc_requests'[o].kind = "vote" => dc_requests'[o] = dc_requests[o]
                BY <2>1 DEF DcTypes, DcIdle
            <4>2. \A o \in DcRequests : dc_requests[o].kind = "vote" => dc_requests[o].comment \in CommentIds
                BY <1>1, <1>2, DcShape DEF n
            <4> QED BY <4>1, <4>2, <3>1 DEF Adding
        <3>4. Cardinality({}) = 0
            BY FS_EmptySet
        <3>5. dc_comments'[new].score = 0
            BY <2>3, <2>4, <2>6
        <3>6. Cardinality(VotesFor(new, 1)') = 0 /\ Cardinality(VotesFor(new, -1)') = 0
              /\ Cardinality(Adding(new, 1)') = 0 /\ Cardinality(Adding(new, -1)') = 0
            BY <3>2, <3>3, <3>4
        <3> QED BY <3>5, <3>6 DEF Balanced
    <2>8. CommentIds' = CommentIds \cup {new}
        BY <2>4, <2>6, <1>1 DEF CommentIds, n
    <2>9. \A c \in CommentIds' \ dc_overwritten' : Balanced(c)'
        BY <2>1, <2>5, <2>7, <2>8
    <2> QED BY <2>9 DEF ScoreIsTheVotes, Balanced
<1>14. ASSUME NEW e \in CommentIds, Hide(e) \/ AdminHide(e) \/ AdminUnhide(e)
       PROVE  ScoreIsTheVotes'
    <2>1. UNCHANGED <<dc_votes, dc_requests, dc_overwritten>>
        BY <1>14 DEF Hide, AdminHide, AdminUnhide
    <2>2. RowsKeep /\ \A d \in DOMAIN dc_comments : dc_comments'[d].score = dc_comments[d].score
        <3>1. CASE Hide(e) \/ AdminHide(e)
            <4>1. \E S : dc_comments' = Hiding(dc_comments, S)
                BY <3>1 DEF Hide, AdminHide
            <4> QED BY <4>1, HiddenRows
        <3>2. CASE AdminUnhide(e)
            <4>1. dc_comments' = [dc_comments EXCEPT ![e].hidden = FALSE]
                BY <3>2 DEF AdminUnhide
            <4> QED BY <4>1, <1>1, ShownRow
        <3> QED BY <1>14, <3>1, <3>2
    <2>3. \A c \in CommentIds : Balanced(c) => Balanced(c)'
        BY <2>1, <2>2, <1>1, BalanceKept
    <2> QED BY <2>1, <2>2, <2>3, <1>5 DEF RowsKeep
<1>15. CASE UNCHANGED dcvars
    BY <1>15 DEF dcvars, ScoreIsTheVotes, CommentIds, Adding, VotesFor
<1> QED BY <1>7, <1>8, <1>9, <1>10, <1>11, <1>12, <1>13, <1>14, <1>15 DEF DcNext

-----------------------------------------------------------------------------
(* Hidden threads.                                                         *)

\* A step that keeps the rows but for their scores keeps the threads.
LEMMA ThreadsKept ==
    ASSUME DcTypes, RowsKeep
    PROVE  CommentIds' = CommentIds /\ \A c \in CommentIds : AncestorsOf(c)' = AncestorsOf(c)
<1>1. Parented(dc_comments)
    BY DEF DcTypes
<1>2. Parented(dc_comments') /\ Len(dc_comments') = Len(dc_comments)
    BY <1>1, ParentedSame DEF RowsKeep
<1>3. Len(dc_comments) \in Nat /\ CommentIds = 1 .. Len(dc_comments)
      /\ \A c \in 1 .. Len(dc_comments) : dc_comments'[c].parent = dc_comments[c].parent
    BY RowTypes DEF RowsKeep
<1>4. \A c \in 1 .. Len(dc_comments) : Ancestors(dc_comments', c) = Ancestors(dc_comments, c)
    BY <1>1, <1>2, <1>3, AncestorsSame
<1> QED BY <1>2, <1>3, <1>4 DEF CommentIds, AncestorsOf

\* What a new comment does to the threads: it has ancestors, and is nobody's ancestor.
LEMMA ThreadFacts ==
    ASSUME DcTypes, NEW c \in CommentIds
    PROVE  /\ c \in AncestorsOf(c) /\ AncestorsOf(c) \subseteq CommentIds
           /\ \A d \in AncestorsOf(c) : AncestorsOf(d) \subseteq AncestorsOf(c)
           /\ \A d : c \in DescendantsOf(d) <=> d \in AncestorsOf(c)
<1>1. Parented(dc_comments) /\ Len(dc_comments) \in Nat /\ c \in 1 .. Len(dc_comments)
    BY RowTypes DEF DcTypes, CommentIds
<1>2. c \in Ancestors(dc_comments, c) /\ Ancestors(dc_comments, c) \subseteq 1 .. c
    BY <1>1, AncestorsBelow
<1>3. \A d \in Ancestors(dc_comments, c) : Ancestors(dc_comments, d) \subseteq Ancestors(dc_comments, c)
    BY <1>1, AncestorsTransitive
<1>4. 1 .. c \subseteq CommentIds
    BY <1>1 DEF CommentIds
<1> QED BY <1>2, <1>3, <1>4 DEF AncestorsOf, DescendantsOf

\* Steps that keep the threads: it is enough that what becomes hidden or shown agrees.
LEMMA HiddenKept ==
    ASSUME DcTypes, NothingBelowHidden, RowsKeep, dc_loose \subseteq dc_loose',
           \A c \in CommentIds : \A d \in AncestorsOf(c) :
               /\ dc_comments'[d].hidden /\ ~dc_comments[d].hidden
                    => dc_comments'[c].hidden \/ AncestorsOf(c) \cap dc_loose' # {}
               /\ dc_comments[c].hidden /\ ~dc_comments'[c].hidden => c \in dc_loose'
    PROVE  NothingBelowHidden'
<1>1. CommentIds' = CommentIds /\ \A c \in CommentIds : AncestorsOf(c)' = AncestorsOf(c)
    BY ThreadsKept
<1>2. ASSUME NEW c \in CommentIds, NEW d \in AncestorsOf(c), dc_comments'[d].hidden
      PROVE  dc_comments'[c].hidden \/ AncestorsOf(c) \cap dc_loose' # {}
    <2>1. CASE ~dc_comments[d].hidden
        BY <1>2, <2>1
    <2>2. CASE dc_comments[d].hidden
        <3>1. dc_comments[c].hidden \/ AncestorsOf(c) \cap dc_loose # {}
            BY <2>2 DEF NothingBelowHidden
        <3>2. c \in AncestorsOf(c)
            BY ThreadFacts
        <3> QED BY <3>1, <3>2
    <2> QED BY <2>1, <2>2
<1> QED BY <1>1, <1>2 DEF NothingBelowHidden

\* Every step keeps what is below a hidden comment hidden, unless it was shown or hidden apart
\* from its thread.
LEMMA HiddenNext ==
    ASSUME DcTypes, NothingBelowHidden, [DcNext]_dcvars
    PROVE  NothingBelowHidden'
<1>1. CommentIds = DOMAIN dc_comments /\ CommentIds = 1 .. Len(dc_comments) /\ Len(dc_comments) \in Nat
    BY RowTypes
<1>2. CASE UNCHANGED <<dc_comments, dc_loose>>
    BY <1>2 DEF NothingBelowHidden, CommentIds, AncestorsOf
<1>3. ASSUME NEW r \in DcRequests, AddScore(r)
      PROVE  NothingBelowHidden'
    <2> DEFINE q == dc_requests[r]
    <2>1. /\ q.kind = "vote" /\ dc_comments' = [dc_comments EXCEPT ![q.comment].score = @ + q.delta] /\ UNCHANGED dc_loose
          /\ q \in DcStates(Len(dc_comments))
        BY <1>3 DEF AddScore, DcTypes
    <2>2. q.comment \in DOMAIN dc_comments /\ q.delta \in Int
        BY <1>1, <2>1, DcShape
    <2>3. RowsKeep /\ \A d \in DOMAIN dc_comments : dc_comments'[d].hidden = dc_comments[d].hidden
        BY <2>1, <2>2, ScoredRow
    <2>4. \A c \in CommentIds : AncestorsOf(c) \subseteq CommentIds
        BY ThreadFacts
    <2> QED BY <1>1, <2>1, <2>3, <2>4, HiddenKept
<1>4. ASSUME NEW r \in DcRequests, SaveEdit(r)
      PROVE  NothingBelowHidden'
    <2> DEFINE q == dc_requests[r]
               e == q.comment
    <2>1. dc_loose' = IF q.row.hidden = dc_comments[e].hidden THEN dc_loose
                      ELSE IF ~q.row.hidden THEN dc_loose \cup {e}
                      ELSE IF q.kind = "edit" THEN dc_loose \cup DescendantsOf(e) ELSE dc_loose
        BY <1>4 DEF SaveEdit
    <2>2. /\ q.kind \in {"edit", "admin"} /\ e \in DOMAIN dc_comments /\ q.row.hidden \in BOOLEAN
          /\ RowsKeep
          /\ \A d \in DOMAIN dc_comments :
                 dc_comments'[d].hidden = ((IF d = e THEN q.row.hidden ELSE dc_comments[d].hidden)
                                           \/ (q.kind = "admin" /\ q.row.hidden /\ d \in DescendantsOf(e)))
        BY <1>4, SavedRows
    <2> HIDE DEF q, e
    <2>3. \A d \in DOMAIN dc_comments : dc_comments[d].hidden \in BOOLEAN
        BY RowTypes
    <2>4. ASSUME NEW c \in CommentIds, NEW d \in AncestorsOf(c)
          PROVE  /\ dc_comments'[d].hidden /\ ~dc_comments[d].hidden
                       => dc_comments'[c].hidden \/ AncestorsOf(c) \cap dc_loose' # {}
                 /\ dc_comments[c].hidden /\ ~dc_comments'[c].hidden => c \in dc_loose'
        <3>1. /\ d \in CommentIds /\ c \in AncestorsOf(c) /\ AncestorsOf(d) \subseteq AncestorsOf(c)
              /\ \A x : c \in DescendantsOf(x) <=> x \in AncestorsOf(c)
            BY ThreadFacts
        <3>2. \A x : d \in DescendantsOf(x) <=> x \in AncestorsOf(d)
            BY <3>1, ThreadFacts
        <3>3. ASSUME dc_comments'[d].hidden, ~dc_comments[d].hidden
              PROVE  dc_comments'[c].hidden \/ AncestorsOf(c) \cap dc_loose' # {}
            <4>1. q.row.hidden /\ (d = e \/ (q.kind = "admin" /\ d \in DescendantsOf(e)))
                BY <1>1, <2>2, <3>1, <3>3
            <4>2. c \in DescendantsOf(e)
                <5>1. d \in DescendantsOf(d)
                    BY <3>1, ThreadFacts
                <5> QED BY <4>1, <5>1, <3>1, <3>2
            <4>3. CASE q.kind = "admin"
                BY <4>1, <4>2, <4>3, <1>1, <2>2
            <4>4. CASE q.kind = "edit"
                <5>1. ~dc_comments[e].hidden
                    BY <4>1, <4>4, <3>3
                <5>2. dc_loose' = dc_loose \cup DescendantsOf(e)
                    BY <5>1, <4>1, <4>4, <2>1, <2>2, <2>3
                <5> QED BY <5>2, <4>2, <3>1
            <4> QED BY <2>2, <4>3, <4>4
        <3>4. ASSUME dc_comments[c].hidden, ~dc_comments'[c].hidden
              PROVE  c \in dc_loose'
            <4>1. c = e /\ ~q.row.hidden
                BY <1>1, <2>2, <3>4
            <4> QED BY <4>1, <3>4, <2>1, <2>2
        <3> QED BY <3>3, <3>4
    <2>5. dc_loose \subseteq dc_loose'
        BY <2>1
    <2> QED BY <2>2, <2>4, <2>5, HiddenKept
<1>5. ASSUME NEW r \in DcRequests, InsertReply(r)
      PROVE  NothingBelowHidden'
    <2> DEFINE q == dc_requests[r]
               row == [parent |-> q.parent, score |-> 0, hidden |-> FALSE]
    <2>1. /\ q.kind = "reply" /\ dc_comments' = Append(dc_comments, row) /\ q \in DcStates(Len(dc_comments))
          /\ dc_loose' = IF dc_comments[q.parent].hidden THEN dc_loose \cup {Len(dc_comments')} ELSE dc_loose
        BY <1>5 DEF InsertReply, DcTypes
    <2>2. q.parent \in CommentIds
        BY <1>1, <2>1, DcShape
    <2>3. dc_comments \in Seq(Comments) /\ row.hidden = FALSE /\ row.parent = q.parent
        BY DEF DcTypes, Parented, Comments
    <2> HIDE DEF row, q
    <2>4. PICK new \in Nat : new = Len(dc_comments) + 1
        BY <1>1
    <2>5. /\ Len(dc_comments') = new /\ \A d \in CommentIds : dc_comments'[d] = dc_comments[d]
          /\ dc_comments'[new] = row /\ CommentIds' = CommentIds \cup {new} /\ new \notin CommentIds
        BY <2>1, <2>3, <2>4, <1>1 DEF CommentIds
    <2>6. Parented(dc_comments) /\ Parented(dc_comments')
        BY DcTypesNext DEF DcTypes
    <2>7. \A c \in CommentIds : Ancestors(dc_comments', c) = Ancestors(dc_comments, c)
        BY <2>4, <2>5, <2>6, <1>1, AncestorsSame
    <2>8. \A c \in CommentIds : AncestorsOf(c)' = AncestorsOf(c)
        BY <2>7 DEF AncestorsOf
    <2>9. AncestorsOf(new)' = {new} \cup AncestorsOf(q.parent)
        <3>1. Ancestors(dc_comments', new) = {new} \cup Ancestors(dc_comments', dc_comments'[new].parent)
            BY <2>4, <2>5, <2>6, <1>1, AncestorsUnfold
        <3>2. Ancestors(dc_comments', dc_comments'[new].parent) = Ancestors(dc_comments, q.parent)
            BY <2>2, <2>3, <2>5, <2>7
        <3> QED BY <3>1, <3>2 DEF AncestorsOf
    <2>10. \A c \in CommentIds : AncestorsOf(c) \subseteq CommentIds /\ c \in AncestorsOf(c)
        BY ThreadFacts
    <2>11. ASSUME NEW c \in CommentIds, NEW d \in AncestorsOf(c), dc_comments'[d].hidden
           PROVE  dc_comments'[c].hidden \/ AncestorsOf(c) \cap dc_loose' # {}
        <3>1. dc_comments[d].hidden
            BY <2>5, <2>10, <2>11
        <3>2. dc_comments[c].hidden \/ AncestorsOf(c) \cap dc_loose # {}
            BY <3>1 DEF NothingBelowHidden
        <3> QED BY <3>2, <2>1, <2>5
    <2>12. ASSUME NEW d \in AncestorsOf(new)', dc_comments'[d].hidden
           PROVE  AncestorsOf(new)' \cap dc_loose' # {}
        <3>1. d \in AncestorsOf(q.parent) /\ dc_comments[d].hidden
            BY <2>12, <2>2, <2>3, <2>5, <2>9, <2>10
        <3>2. dc_comments[q.parent].hidden \/ AncestorsOf(q.parent) \cap dc_loose # {}
            BY <3>1, <2>2 DEF NothingBelowHidden
        <3> QED BY <3>2, <2>1, <2>5, <2>9
    <2> QED BY <2>5, <2>8, <2>11, <2>12 DEF NothingBelowHidden
<1>6. ASSUME NEW e \in CommentIds, Hide(e)
      PROVE  NothingBelowHidden'
    <2>1. dc_comments' = Hiding(dc_comments, DescendantsOf(e)) /\ UNCHANGED dc_loose
        BY <1>6 DEF Hide, Thread
    <2>2. RowsKeep /\ \A d \in DOMAIN dc_comments : dc_comments'[d].hidden = (dc_comments[d].hidden \/ d \in DescendantsOf(e))
        BY <2>1, HiddenRows
    <2>3. ASSUME NEW c \in CommentIds, NEW d \in AncestorsOf(c)
          PROVE  /\ dc_comments'[d].hidden /\ ~dc_comments[d].hidden => dc_comments'[c].hidden
                 /\ ~(dc_comments[c].hidden /\ ~dc_comments'[c].hidden)
        <3>1. /\ d \in CommentIds /\ AncestorsOf(d) \subseteq AncestorsOf(c)
              /\ \A x : c \in DescendantsOf(x) <=> x \in AncestorsOf(c)
            BY ThreadFacts
        <3>2. \A x : d \in DescendantsOf(x) <=> x \in AncestorsOf(d)
            BY <3>1, ThreadFacts
        <3> QED BY <1>1, <2>2, <3>1, <3>2
    <2> QED BY <2>1, <2>2, <2>3, HiddenKept
<1>7. ASSUME NEW e \in CommentIds, AdminHide(e)
      PROVE  NothingBelowHidden'
    <2>1. dc_comments' = Hiding(dc_comments, {e}) /\ dc_loose' = dc_loose \cup DescendantsOf(e)
        BY <1>7 DEF AdminHide
    <2>2. RowsKeep /\ \A d \in DOMAIN dc_comments : dc_comments'[d].hidden = (dc_comments[d].hidden \/ d \in {e})
        BY <2>1, HiddenRows
    <2>3. ASSUME NEW c \in CommentIds, NEW d \in AncestorsOf(c)
          PROVE  /\ dc_comments'[d].hidden /\ ~dc_comments[d].hidden => AncestorsOf(c) \cap dc_loose' # {}
                 /\ ~(dc_comments[c].hidden /\ ~dc_comments'[c].hidden)
        <3>1. /\ d \in CommentIds /\ c \in AncestorsOf(c)
              /\ \A x : c \in DescendantsOf(x) <=> x \in AncestorsOf(c)
            BY ThreadFacts
        <3> QED BY <1>1, <2>1, <2>2, <3>1
    <2> QED BY <2>1, <2>2, <2>3, HiddenKept
<1>8. ASSUME NEW e \in CommentIds, AdminUnhide(e)
      PROVE  NothingBelowHidden'
    <2>1. dc_comments' = [dc_comments EXCEPT ![e].hidden = FALSE] /\ dc_loose' = dc_loose \cup {e}
        BY <1>8 DEF AdminUnhide
    <2>2. RowsKeep /\ \A d \in DOMAIN dc_comments : dc_comments'[d].hidden = (dc_comments[d].hidden /\ d # e)
        BY <1>1, <2>1, ShownRow
    <2>3. ASSUME NEW c \in CommentIds, NEW d \in AncestorsOf(c)
          PROVE  /\ ~(dc_comments'[d].hidden /\ ~dc_comments[d].hidden)
                 /\ dc_comments[c].hidden /\ ~dc_comments'[c].hidden => c \in dc_loose'
        <3>1. d \in CommentIds
            BY ThreadFacts
        <3> QED BY <1>1, <2>1, <2>2, <3>1
    <2> QED BY <2>1, <2>2, <2>3, HiddenKept
<1>9. ASSUME NEW r \in DcRequests, NEW c \in CommentIds, StartEdit(r, c) \/ StartReply(r, c)
      PROVE  NothingBelowHidden'
    BY <1>2, <1>9 DEF StartEdit, StartReply
<1>10. ASSUME NEW r \in DcRequests, NEW u \in Voters, NEW c \in CommentIds, NEW d \in {-1, 1}, StartVote(r, u, c, d)
       PROVE  NothingBelowHidden'
    BY <1>2, <1>10 DEF StartVote
<1>11. ASSUME NEW r \in DcRequests, InsertVote(r) \/ LockVotes(r)
       PROVE  NothingBelowHidden'
    BY <1>2, <1>11 DEF InsertVote, LockVotes
<1>12. CASE UNCHANGED dcvars
    BY <1>2, <1>12 DEF dcvars
<1> QED BY <1>3, <1>4, <1>5, <1>6, <1>7, <1>8, <1>9, <1>10, <1>11, <1>12 DEF DcNext

\* Every step of the requests about comments keeps the invariant.
THEOREM DcStepInv == DcInv /\ [DcNext]_dcvars => DcInv'
BY DcTypesNext, ScoreNext, HiddenNext DEF DcInv

\* However votes, edits and replies overlap, the score of a comment is that of its votes unless
\* an edit saved an older one, and what was posted below a hidden comment is hidden unless
\* someone changed it alone (judge/views/comment.py, judge/comments.py).
THEOREM CommentsCorrect == DcSpec => [](ScoreIsTheVotes /\ NothingBelowHidden)
<1>1. DcInv => ScoreIsTheVotes /\ NothingBelowHidden
    BY DEF DcInv
<1> QED BY <1>1, DcInitInv, DcStepInv, PTL DEF DcSpec

-----------------------------------------------------------------------------
(* Votes.                                                                  *)

Votes == [id : Nat, voter : VtVoters, points : VtPoints]

VotePosts == [at : {"none", "deletes", "deleted"}, kind : {"none", "vote", "delete"},
              voter : VtVoters \cup {"nobody"}, points : VtPoints \cup {0}, targets : SUBSET Votes]

\* Of a post that is under way.
VotePostFits(post) == /\ post.voter \in vt_asked
                      /\ \A v \in post.targets : v.voter = post.voter
                      /\ post.kind = "vote" => post.points \in VtPoints
                      /\ post.kind # "none"

VtTypes ==
    /\ vt_rows \in SUBSET Votes
    /\ vt_requests \in [VtRequests -> VotePosts]
    /\ vt_ids \in Nat
    /\ vt_asked \in SUBSET VtVoters
    /\ \A r \in VtRequests : vt_requests[r].at # "none" => VotePostFits(vt_requests[r])

\* A voter whose posts never overlapped: one post at most, which will delete what there is.
OneAtATime(u) ==
    /\ \A r, o \in VtRequests : vt_requests[r].at # "none" /\ vt_requests[r].voter = u
                                /\ vt_requests[o].at # "none" /\ vt_requests[o].voter = u => r = o
    /\ \E v : VotesOf(u) \subseteq {v}
    /\ \A r \in VtRequests : vt_requests[r].at # "none" /\ vt_requests[r].voter = u => vt_requests[r].targets = VotesOf(u)

VtInv == /\ VtTypes
         /\ \A u \in VtVoters \ vt_crossed : OneAtATime(u)
         /\ \A u \in VtVoters : VotesOf(u) # {} => u \in vt_asked

\* Without votes and posts there is nothing that could be wrong.
THEOREM VtInitInv == VtInit => VtInv
BY DEF VtInit, VtInv, VtTypes, OneAtATime, VotesOf, NoVotePost, VotePosts

\* A post that goes on replaces its own entry alone.
LEMMA VtMoves ==
    ASSUME VtTypes, NEW r \in VtRequests, NEW post, vt_requests' = [vt_requests EXCEPT ![r] = post]
    PROVE  vt_requests'[r] = post /\ \A o \in VtRequests \ {r} : vt_requests'[o] = vt_requests[o]
BY DEF VtTypes

\* Every step of the posts keeps the invariant: a voter who posts one at a time has one vote.
THEOREM VtStepInv == VtInv /\ [VtNext]_vtvars => VtInv'
<1> SUFFICES ASSUME VtInv, [VtNext]_vtvars PROVE VtInv'
    OBVIOUS
<1>1. VtTypes /\ \A u \in VtVoters \ vt_crossed : OneAtATime(u)
    BY DEF VtInv
<1>2. CASE UNCHANGED <<vt_rows, vt_requests, vt_ids, vt_crossed, vt_asked>>
    BY <1>2 DEF VtInv, VtTypes, VotePostFits, OneAtATime, VotesOf
<1>3. ASSUME NEW r \in VtRequests, NEW u \in VtVoters, NEW points, NEW kind \in {"vote", "delete"},
             PostVote(r, kind, u, points), points \in VtPoints \cup {0}, kind = "vote" => points \in VtPoints
      PROVE  VtInv'
    <2> DEFINE post == [at |-> "deletes", kind |-> kind, voter |-> u, points |-> points, targets |-> VotesOf(u)]
    <2>1. /\ vt_requests[r] = NoVotePost /\ vt_requests' = [vt_requests EXCEPT ![r] = post]
          /\ vt_crossed' = IF \E o \in VtRequests : vt_requests[o].voter = u THEN vt_crossed \cup {u} ELSE vt_crossed
          /\ vt_asked' = vt_asked \cup {u} /\ UNCHANGED <<vt_rows, vt_ids>>
        BY <1>3 DEF PostVote, Posting
    <2>2. VotesOf(u) \in SUBSET Votes /\ \A v \in VotesOf(u) : v.voter = u
        BY <1>1 DEF VotesOf, VtTypes
    <2>3. post \in VotePosts /\ post.voter = u /\ post.at = "deletes" /\ post.targets = VotesOf(u) /\ post.kind = kind /\ post.points = points
        BY <1>3, <2>2 DEF VotePosts
    <2> HIDE DEF post
    <2>4. vt_requests'[r] = post /\ \A o \in VtRequests \ {r} : vt_requests'[o] = vt_requests[o]
        BY <1>1, <2>1, VtMoves
    <2>5. VtTypes'
        <3>1. vt_requests' \in [VtRequests -> VotePosts]
            BY <1>1, <2>1, <2>3 DEF VtTypes
        <3>2. ASSUME NEW o \in VtRequests, vt_requests'[o].at # "none"
              PROVE  VotePostFits(vt_requests[o])'
            <4>1. CASE o = r
                BY <1>3, <2>1, <2>2, <2>3, <2>4, <4>1 DEF VotePostFits
            <4>2. CASE o # r
                <5>1. vt_requests'[o] = vt_requests[o] /\ VotePostFits(vt_requests[o])
                    BY <1>1, <2>4, <3>2, <4>2 DEF VtTypes
                <5> QED BY <5>1, <2>1 DEF VotePostFits
            <4> QED BY <4>1, <4>2
        <3> QED BY <3>1, <3>2, <1>1, <2>1 DEF VtTypes
    <2>6. ASSUME NEW w \in VtVoters \ vt_crossed'
          PROVE  OneAtATime(w)'
        <3>1. OneAtATime(w)
            BY <1>1, <2>1
        <3>2. VotesOf(w)' = VotesOf(w)
            BY <2>1 DEF VotesOf
        <3>3. w = u => \A o \in VtRequests : vt_requests[o].voter # u
            BY <2>1
        <3> QED BY <2>3, <2>4, <3>1, <3>2, <3>3 DEF OneAtATime
    <2>7. \A w \in VtVoters : VotesOf(w)' # {} => w \in vt_asked'
        BY <2>1 DEF VtInv, VotesOf
    <2> QED BY <2>5, <2>6, <2>7 DEF VtInv
<1>4. ASSUME NEW r \in VtRequests, LockVotesOf(r)
      PROVE  VtInv'
    <2> DEFINE post == vt_requests[r]
    <2>1. /\ post.at = "deletes"
          /\ UNCHANGED <<vt_rows, vt_ids, vt_crossed, vt_asked>>
          /\ \E found \in {post.targets \cap vt_rows, VotesOf(post.voter)} :
                vt_requests' = [vt_requests EXCEPT ![r] = [post EXCEPT !.at = "deleted", !.targets = found]]
        BY <1>4 DEF LockVotesOf, Posting
    <2>2. PICK found \in {post.targets \cap vt_rows, VotesOf(post.voter)} :
                vt_requests' = [vt_requests EXCEPT ![r] = [post EXCEPT !.at = "deleted", !.targets = found]]
        BY <2>1
    <2> DEFINE new == [post EXCEPT !.at = "deleted", !.targets = found]
    <2>3. post \in VotePosts /\ VotePostFits(post)
        BY <1>1, <2>1 DEF VtTypes
    <2>4. found \in SUBSET Votes /\ \A v \in found : v.voter = post.voter
        BY <1>1, <2>3 DEF VtTypes, VotesOf, VotePostFits, VotePosts
    <2>5. new \in VotePosts /\ new.voter = post.voter /\ new.at = "deleted" /\ new.targets = found
          /\ new.kind = post.kind /\ new.points = post.points
        BY <2>3, <2>4 DEF VotePosts
    <2>6. vt_requests' = [vt_requests EXCEPT ![r] = new]
        BY <2>2
    <2> HIDE DEF new
    <2>7. vt_requests'[r] = new /\ \A o \in VtRequests \ {r} : vt_requests'[o] = vt_requests[o]
        BY <1>1, <2>6, VtMoves
    <2>8. VtTypes'
        <3>1. vt_requests' \in [VtRequests -> VotePosts]
            BY <1>1, <2>6, <2>5 DEF VtTypes
        <3>2. ASSUME NEW o \in VtRequests, vt_requests'[o].at # "none"
              PROVE  VotePostFits(vt_requests[o])'
            <4>1. CASE o = r
                BY <2>1, <2>3, <2>4, <2>5, <2>7, <4>1 DEF VotePostFits
            <4>2. CASE o # r
                <5>1. vt_requests'[o] = vt_requests[o] /\ VotePostFits(vt_requests[o])
                    BY <1>1, <2>7, <3>2, <4>2 DEF VtTypes
                <5> QED BY <5>1, <2>1 DEF VotePostFits
            <4> QED BY <4>1, <4>2
        <3> QED BY <3>1, <3>2, <1>1, <2>1 DEF VtTypes
    <2>9. ASSUME NEW w \in VtVoters \ vt_crossed'
          PROVE  OneAtATime(w)'
        <3>1. OneAtATime(w)
            BY <1>1, <2>1
        <3>2. VotesOf(w)' = VotesOf(w)
            BY <2>1 DEF VotesOf
        <3>3. post.voter = w => found = VotesOf(w)
            BY <2>1, <3>1 DEF OneAtATime, VotesOf
        <3>4. \A o \in VtRequests : /\ vt_requests'[o].at # "none" => vt_requests[o].at # "none"
                                    /\ vt_requests'[o].voter = vt_requests[o].voter
            BY <2>1, <2>5, <2>7
        <3>5. \A o, i \in VtRequests : vt_requests'[o].at # "none" /\ vt_requests'[o].voter = w
                                       /\ vt_requests'[i].at # "none" /\ vt_requests'[i].voter = w => o = i
            BY <3>1, <3>4 DEF OneAtATime
        <3>6. ASSUME NEW o \in VtRequests, vt_requests'[o].at # "none", vt_requests'[o].voter = w
              PROVE  vt_requests'[o].targets = VotesOf(w)
            <4>1. CASE o = r
                BY <2>5, <2>7, <3>3, <3>6, <4>1
            <4>2. CASE o # r
                BY <2>7, <3>1, <3>6, <4>2 DEF OneAtATime
            <4> QED BY <4>1, <4>2
        <3>7. \E v : VotesOf(w) \subseteq {v}
            BY <3>1 DEF OneAtATime
        <3> QED BY <3>2, <3>5, <3>6, <3>7 DEF OneAtATime
    <2>10. \A w \in VtVoters : VotesOf(w)' # {} => w \in vt_asked'
        BY <2>1 DEF VtInv, VotesOf
    <2> QED BY <2>8, <2>9, <2>10 DEF VtInv
<1>5. ASSUME NEW r \in VtRequests, EndVote(r)
      PROVE  VtInv'
    <2> DEFINE post == vt_requests[r]
               vote == [id |-> vt_ids + 1, voter |-> post.voter, points |-> post.points]
    <2>1. /\ post.at = "deleted" /\ vt_requests' = [vt_requests EXCEPT ![r] = NoVotePost]
          /\ vt_rows' = IF post.kind = "vote" THEN (vt_rows \ post.targets) \cup {vote} ELSE vt_rows \ post.targets
          /\ vt_ids' = vt_ids + 1 /\ UNCHANGED <<vt_crossed, vt_asked>>
        BY <1>5 DEF EndVote, Posting, Remaining
    <2>2. post \in VotePosts /\ VotePostFits(post) /\ post.voter \in VtVoters
        BY <1>1, <2>1 DEF VtTypes, VotePostFits
    <2>3. post.kind = "vote" => vote \in Votes
        BY <1>1, <2>2 DEF VtTypes, Votes, VotePostFits
    <2>4. vote.voter = post.voter
        OBVIOUS
    <2>5. NoVotePost \in VotePosts /\ NoVotePost.at = "none"
        BY DEF NoVotePost, VotePosts
    <2> HIDE DEF vote
    <2>6. vt_requests'[r] = NoVotePost /\ \A o \in VtRequests \ {r} : vt_requests'[o] = vt_requests[o]
        BY <1>1, <2>1, VtMoves
    <2>7. VtTypes'
        <3>1. vt_requests' \in [VtRequests -> VotePosts]
            BY <1>1, <2>1, <2>5 DEF VtTypes
        <3>2. ASSUME NEW o \in VtRequests, vt_requests'[o].at # "none"
              PROVE  VotePostFits(vt_requests[o])'
            <4>1. o # r
                BY <2>5, <2>6, <3>2
            <4>2. vt_requests'[o] = vt_requests[o] /\ VotePostFits(vt_requests[o])
                BY <1>1, <2>6, <3>2, <4>1 DEF VtTypes
            <4> QED BY <4>2, <2>1 DEF VotePostFits
        <3>3. vt_rows' \in SUBSET Votes /\ vt_ids' \in Nat
            BY <1>1, <2>1, <2>3 DEF VtTypes
        <3> QED BY <3>1, <3>2, <3>3, <1>1, <2>1 DEF VtTypes
    <2>8. \A w : w # post.voter => VotesOf(w)' = VotesOf(w)
        BY <2>1, <2>2, <2>4 DEF VotesOf, VotePostFits
    <2>9. ASSUME NEW w \in VtVoters \ vt_crossed'
          PROVE  OneAtATime(w)'
        <3>1. OneAtATime(w)
            BY <1>1, <2>1
        <3>2. CASE w # post.voter
            BY <2>5, <2>6, <2>8, <3>1, <3>2 DEF OneAtATime
        <3>3. CASE w = post.voter
            <4>1. post.targets = VotesOf(w)
                BY <2>1, <3>1, <3>3 DEF OneAtATime
            <4>2. VotesOf(w)' \subseteq {vote}
                BY <2>1, <4>1 DEF VotesOf
            <4>3. \A o \in VtRequests \ {r} : ~(vt_requests[o].at # "none" /\ vt_requests[o].voter = w)
                BY <2>1, <3>1, <3>3 DEF OneAtATime
            <4>4. \A o \in VtRequests : ~(vt_requests'[o].at # "none" /\ vt_requests'[o].voter = w)
                BY <4>3, <2>5, <2>6
            <4> QED BY <4>2, <4>4 DEF OneAtATime
        <3> QED BY <3>2, <3>3
    <2>10. \A w \in VtVoters : VotesOf(w)' # {} => w \in vt_asked'
        BY <2>1, <2>2, <2>8 DEF VtInv, VotePostFits
    <2> QED BY <2>7, <2>9, <2>10 DEF VtInv
<1>6. CASE \E u \in VtVoters : PermissionChanges(u)
    BY <1>2, <1>6 DEF PermissionChanges
<1>7. CASE UNCHANGED vtvars
    BY <1>2, <1>7 DEF vtvars
<1> QED BY <1>3, <1>4, <1>5, <1>6, <1>7 DEF VtNext

\* The invariant says what is asked of votes.
LEMMA VtInvHolds == VtInv => OneVoteEach
<1> SUFFICES ASSUME VtInv, NEW u \in VtVoters, Cardinality(VotesOf(u)) > 1, u \notin vt_crossed PROVE FALSE
    BY DEF OneVoteEach, VtInv
<1>1. PICK v : VotesOf(u) \subseteq {v}
    BY DEF VtInv, OneAtATime
<1>2. VotesOf(u) = {} \/ VotesOf(u) = {v}
    BY <1>1
<1>3. Cardinality({}) = 0 /\ Cardinality({v}) = 1
    BY FS_EmptySet, FS_Singleton
<1> QED BY <1>2, <1>3

\* Two votes of a user on a problem's points stay only when two posts of the user overlapped
\* (judge/views/problem.py).
THEOREM OneVoteCorrect == VtSpec => []OneVoteEach
BY VtInvHolds, VtInitInv, VtStepInv, PTL DEF VtSpec

-----------------------------------------------------------------------------
(* Tickets.                                                                *)
(* Types.                                                                  *)

TkRows == [stored : BOOLEAN, open : BOOLEAN, messages : Nat, first : Nat, assignees : {"no one", "problem", "contest"}]

NewAsks == [kind : {"new"}, step : {"message", "assign", "post"}, ticket : Tickets, assignees : {"problem", "contest"}]
WriteAsks == [kind : {"write"}, ticket : Tickets, message : Nat]
LoadedAsks == [kind : {"status", "notes"}, open : BOOLEAN, ticket : Tickets, row : BOOLEAN, step : {"save", "post"}, save : Nat]
TkAsks == {NoAsk} \cup NewAsks \cup WriteAsks \cup LoadedAsks

StatusEvents == [type : {"ticket-status"}, ticket : Tickets, value : BOOLEAN]
MessageEvents == [type : {"new-ticket", "ticket-message"}, ticket : Tickets, value : Nat]
TkEvents == StatusEvents \cup MessageEvents

MadePages == [at : {"loaded", "rendering", "open"}, ticket : Tickets, open : BOOLEAN, messages : SUBSET Nat,
              last : Nat, early : BOOLEAN]

TkTypes ==
    /\ tk_rows \in [Tickets -> TkRows]
    /\ tk_requests \in [TkRequests -> TkAsks]
    /\ tk_events \in Seq(TkEvents)
    /\ tk_pages \in [TkPages -> {[at |-> "none"]} \cup MadePages]
    /\ tk_saves \in [Tickets -> [made : Nat, told : Nat, value : BOOLEAN]]

\* What a request under way consists of.
LEMMA AskShape ==
    ASSUME NEW q \in TkAsks
    PROVE  /\ q.kind = "new" => q \in NewAsks
           /\ q.kind = "write" => q \in WriteAsks
           /\ q.kind \in {"status", "notes"} => q \in LoadedAsks
           /\ q.kind = "none" => q = NoAsk
BY DEF TkAsks, NoAsk, NewAsks, WriteAsks, LoadedAsks

\* What an event consists of.
LEMMA EventShape ==
    ASSUME NEW e \in TkEvents
    PROVE  /\ e.ticket \in Tickets
           /\ e.type = "ticket-status" => e.value \in BOOLEAN
           /\ e.type # "ticket-status" => e.value \in Nat
BY DEF TkEvents, StatusEvents, MessageEvents

\* What an open page consists of.
LEMMA PageShape ==
    ASSUME NEW q \in {[at |-> "none"]} \cup MadePages
    PROVE  q.at # "none" => q \in MadePages
OBVIOUS

\* The types of what a step changes.
LEMMA TkAskTypes ==
    ASSUME TkTypes, NEW r \in TkRequests, NEW ask \in TkAsks, tk_requests' = [tk_requests EXCEPT ![r] = ask]
    PROVE  /\ tk_requests' \in [TkRequests -> TkAsks]
           /\ tk_requests'[r] = ask
           /\ \A o \in TkRequests \ {r} : tk_requests'[o] = tk_requests[o]
BY DEF TkTypes

\* Events, once posted, are those of a ticket that is stored.
LEMMA TkEventTypes ==
    ASSUME TkTypes, NEW event \in TkEvents, tk_events' = Append(tk_events, event)
    PROVE  /\ tk_events' \in Seq(TkEvents)
           /\ Len(tk_events) \in Nat /\ Len(tk_events') = Len(tk_events) + 1
           /\ \A i \in 1 .. Len(tk_events) : tk_events'[i] = tk_events[i]
           /\ tk_events'[Len(tk_events) + 1] = event
BY DEF TkTypes

-----------------------------------------------------------------------------
(* The inductive invariant.                                                *)

Ticket(r) == tk_requests[r].ticket

\* A ticket has messages once it is stored, those of who opened it among them when they say so.
NewRight ==
    /\ \A t \in Tickets : ~tk_rows[t].stored => tk_rows[t].first = 0
    /\ \A r \in TkRequests : tk_requests[r].kind = "new" =>
          /\ tk_rows[Ticket(r)].stored
          /\ tk_requests[r].step = "message" => tk_rows[Ticket(r)].first = 0
          /\ tk_requests[r].step # "message" => tk_rows[Ticket(r)].messages >= 1
    /\ \A r, o \in TkRequests : tk_requests[r].kind = "new" /\ tk_requests[o].kind = "new" /\ Ticket(r) = Ticket(o) => r = o

WriteRight ==
    \A r \in TkRequests : tk_requests[r].kind = "write" =>
        tk_requests[r].message \in 1 .. tk_rows[Ticket(r)].messages

\* The status that was saved last is the one that will be, or was, announced.
SavesRight ==
    /\ \A t \in Tickets : /\ tk_saves[t].told <= tk_saves[t].made
                          /\ tk_saves[t].told = tk_saves[t].made => tk_rows[t].open = tk_saves[t].value \/ t \in tk_reverted
    /\ \A r \in TkRequests : tk_requests[r].kind = "status" /\ tk_requests[r].step = "post" =>
          /\ tk_requests[r].save <= tk_saves[Ticket(r)].made
          /\ tk_requests[r].save = tk_saves[Ticket(r)].made =>
                tk_rows[Ticket(r)].open = tk_requests[r].open \/ Ticket(r) \in tk_reverted

IsStatus(i, t) == tk_events[i].type = "ticket-status" /\ tk_events[i].ticket = t
StatusAfter(n, t) == \E j \in n + 1 .. Len(tk_events) : IsStatus(j, t)

EventsRight ==
    \A i \in 1 .. Len(tk_events) :
        /\ tk_events[i].type # "ticket-status" => tk_events[i].value \in 1 .. tk_rows[tk_events[i].ticket].messages
        /\ tk_events[i].type = "ticket-status" /\ ~StatusAfter(i, tk_events[i].ticket)
              => tk_events[i].value = tk_saves[tk_events[i].ticket].value

\* Message i of ticket t is going to be announced, after event n.
ToCome(n, t, i) ==
    \/ \E r \in TkRequests : tk_requests[r].kind = "write" /\ Ticket(r) = t /\ tk_requests[r].message = i
    \/ \E j \in n + 1 .. Len(tk_events) : tk_events[j].type = "ticket-message" /\ tk_events[j].ticket = t /\ tk_events[j].value = i

PageRight(p) ==
    LET q == tk_pages[p] IN
    /\ q.at \in {"rendering", "open"} =>
          /\ q.last <= Len(tk_events)
          /\ p \notin tk_excused /\ ~StatusAfter(q.last, q.ticket) => q.open = tk_saves[q.ticket].value
    /\ q.at = "open" =>
          /\ ~q.early => tk_rows[q.ticket].first # 0
          /\ \A i \in (1 .. tk_rows[q.ticket].messages) \ q.messages :
                ToCome(q.last, q.ticket, i) \/ (q.early /\ tk_rows[q.ticket].first = i)

PagesRight == \A p \in TkPages : PageRight(p)

TkInv == TkTypes /\ NewRight /\ WriteRight /\ SavesRight /\ EventsRight /\ PagesRight /\ ~tk_failed

\* Before the first ticket there is nothing that could be wrong.
THEOREM TkInitInv == TkInit => TkInv
<1> SUFFICES ASSUME TkInit PROVE TkInv
    OBVIOUS
<1>1. TkTypes
    <2>1. tk_events \in Seq(TkEvents)
        <3>1. tk_events = <<>>
            BY DEF TkInit
        <3> QED BY <3>1
    <2>2. tk_rows \in [Tickets -> TkRows]
        BY DEF TkInit, TkRows
    <2>3. tk_requests \in [TkRequests -> TkAsks] /\ tk_pages \in [TkPages -> {[at |-> "none"]} \cup MadePages]
          /\ tk_saves \in [Tickets -> [made : Nat, told : Nat, value : BOOLEAN]]
        BY DEF TkInit, TkAsks
    <2> QED BY <2>1, <2>2, <2>3 DEF TkTypes
<1>2. /\ \A r \in TkRequests : tk_requests[r].kind = "none"
      /\ \A p \in TkPages : tk_pages[p].at = "none"
      /\ Len(tk_events) = 0
    BY DEF TkInit, NoAsk
<1>3. NewRight /\ WriteRight
    BY <1>2 DEF NewRight, WriteRight, TkInit
<1>4. SavesRight
    <2>1. \A t \in Tickets : /\ tk_rows[t].open = TRUE
                            /\ tk_saves[t].told = 0 /\ tk_saves[t].made = 0 /\ tk_saves[t].value = TRUE
        BY DEF TkInit
    <2>5. \A t \in Tickets : tk_saves[t].told = 0 /\ tk_saves[t].made = 0
        BY <2>1
    <2>2. \A t \in Tickets : tk_saves[t].told <= tk_saves[t].made
        <3> TAKE t \in Tickets
        <3>1. tk_saves[t].told = 0 /\ tk_saves[t].made = 0
            BY <2>5
        <3>2. 0 <= 0
            OBVIOUS
        <3> QED BY <3>1, <3>2, Zenon
    <2>4. \A t \in Tickets : tk_rows[t].open = tk_saves[t].value
        BY DEF TkInit
    <2>3. \A r \in TkRequests : tk_requests[r].kind # "status"
        BY <1>2
    <2> QED BY <2>2, <2>3, <2>4 DEF SavesRight
<1>5. EventsRight
    <2>1. 1 .. Len(tk_events) = {}
        BY <1>2
    <2> QED BY <2>1 DEF EventsRight
<1>6. PagesRight
    BY <1>2 DEF PagesRight, PageRight
<1> QED BY <1>1, <1>3, <1>4, <1>5, <1>6 DEF TkInv, TkInit

-----------------------------------------------------------------------------
(* What is kept.                                                           *)

\* Rows are only added to, and a ticket says who opened it once.
Grows == \A t \in Tickets : /\ tk_rows'[t].stored = tk_rows[t].stored
                            /\ tk_rows'[t].first = tk_rows[t].first
                            /\ tk_rows'[t].messages >= tk_rows[t].messages

\* Rows count their messages with natural numbers.
LEMMA RowNumbers ==
    ASSUME TkTypes, NEW t \in Tickets
    PROVE  /\ tk_rows[t].messages \in Nat /\ tk_rows[t].first \in Nat
           /\ tk_rows[t].open \in BOOLEAN /\ tk_rows[t].stored \in BOOLEAN
           /\ tk_saves[t].made \in Nat /\ tk_saves[t].told \in Nat
BY DEF TkTypes, TkRows

\* A request is about one of the tickets.
LEMMA RequestTickets ==
    ASSUME TkTypes, NEW r \in TkRequests, tk_requests[r].kind # "none"
    PROVE  Ticket(r) \in Tickets
BY DEF TkTypes, TkAsks, NoAsk, NewAsks, WriteAsks, LoadedAsks, Ticket

\* A step of others keeps what a request that opens a ticket relies on.
LEMMA NewKept ==
    ASSUME TkTypes, TkTypes', NewRight, Grows,
           \A r \in TkRequests : tk_requests'[r].kind = "new" =>
               /\ tk_requests[r].kind = "new" /\ tk_requests'[r].ticket = Ticket(r)
               /\ tk_requests'[r].step = "message" <=> tk_requests[r].step = "message"
    PROVE  NewRight'
<1>1. ASSUME NEW t \in Tickets, ~tk_rows'[t].stored
      PROVE  tk_rows'[t].first = 0
    BY <1>1 DEF Grows, NewRight
<1>2. ASSUME NEW r \in TkRequests, tk_requests'[r].kind = "new"
      PROVE  /\ tk_rows'[tk_requests'[r].ticket].stored
             /\ tk_requests'[r].step = "message" => tk_rows'[tk_requests'[r].ticket].first = 0
             /\ tk_requests'[r].step # "message" => tk_rows'[tk_requests'[r].ticket].messages >= 1
    <2> DEFINE t == Ticket(r)
    <2>1. /\ tk_requests[r].kind = "new" /\ tk_requests'[r].ticket = t
          /\ tk_requests'[r].step = "message" <=> tk_requests[r].step = "message"
        BY <1>2
    <2>2. t \in Tickets
        BY <2>1, RequestTickets
    <2>3. /\ tk_rows[t].stored
          /\ tk_requests[r].step = "message" => tk_rows[t].first = 0
          /\ tk_requests[r].step # "message" => tk_rows[t].messages >= 1
        BY <2>1 DEF NewRight
    <2>4. tk_rows[t].messages \in Nat /\ tk_rows'[t].messages \in Nat
        BY <2>2, RowNumbers DEF TkTypes, TkRows
    <2> HIDE DEF t
    <2>5. /\ tk_rows'[t].stored = tk_rows[t].stored /\ tk_rows'[t].first = tk_rows[t].first
          /\ tk_rows'[t].messages >= tk_rows[t].messages
        BY <2>2 DEF Grows
    <2> QED BY <2>1, <2>3, <2>4, <2>5
<1>3. \A r, o \in TkRequests :
          tk_requests'[r].kind = "new" /\ tk_requests'[o].kind = "new" /\ tk_requests'[r].ticket = tk_requests'[o].ticket => r = o
    BY DEF NewRight
<1> QED BY <1>1, <1>2, <1>3 DEF NewRight, Ticket

\* A step of others keeps what a request that writes relies on.
LEMMA WriteKept ==
    ASSUME TkTypes, TkTypes', WriteRight,
           \A t \in Tickets : tk_rows'[t].messages >= tk_rows[t].messages,
           \A r \in TkRequests : tk_requests'[r].kind = "write" => tk_requests'[r] = tk_requests[r]
    PROVE  WriteRight'
<1> SUFFICES ASSUME NEW r \in TkRequests, tk_requests'[r].kind = "write"
             PROVE  tk_requests'[r].message \in 1 .. tk_rows'[tk_requests'[r].ticket].messages
    BY DEF WriteRight, Ticket
<1> DEFINE t == Ticket(r)
<1>1. tk_requests[r].kind = "write" /\ tk_requests'[r] = tk_requests[r]
    OBVIOUS
<1>2. t \in Tickets /\ tk_requests[r].message \in 1 .. tk_rows[t].messages
    BY <1>1, RequestTickets DEF WriteRight
<1>3. tk_rows[t].messages \in Nat /\ tk_rows'[t].messages \in Nat
    BY <1>2, RowNumbers DEF TkTypes, TkRows
<1> HIDE DEF t
<1>4. tk_rows'[t].messages >= tk_rows[t].messages
    BY <1>2
<1> QED BY <1>1, <1>2, <1>3, <1>4 DEF Ticket, t

\* A step that saves no status keeps what is known of the saved ones.
LEMMA SavesKept ==
    ASSUME TkTypes, SavesRight, UNCHANGED <<tk_saves, tk_reverted>>,
           \A t \in Tickets : tk_rows'[t].open = tk_rows[t].open,
           \A r \in TkRequests : tk_requests'[r].kind = "status" /\ tk_requests'[r].step = "post"
              => tk_requests'[r] = tk_requests[r]
    PROVE  SavesRight'
<1>1. \A r \in TkRequests : tk_requests[r].kind = "status" => Ticket(r) \in Tickets
    BY RequestTickets
<1> QED BY <1>1 DEF SavesRight, Ticket

\* A step that posts no event keeps what is known of those posted.
LEMMA EventsKept ==
    ASSUME TkTypes, TkTypes', EventsRight, UNCHANGED tk_events,
           \A t \in Tickets : tk_rows'[t].messages >= tk_rows[t].messages /\ tk_saves'[t].value = tk_saves[t].value
    PROVE  EventsRight'
<1> SUFFICES ASSUME NEW i \in 1 .. Len(tk_events)
             PROVE  /\ tk_events[i].type # "ticket-status" => tk_events[i].value \in 1 .. tk_rows'[tk_events[i].ticket].messages
                    /\ tk_events[i].type = "ticket-status" /\ ~StatusAfter(i, tk_events[i].ticket)
                          => tk_events[i].value = tk_saves'[tk_events[i].ticket].value
    BY DEF EventsRight, StatusAfter, IsStatus
<1> DEFINE t == tk_events[i].ticket
<1>1. tk_events[i] \in TkEvents /\ t \in Tickets
    BY EventShape DEF TkTypes
<1>2. /\ tk_events[i].type # "ticket-status" => tk_events[i].value \in 1 .. tk_rows[t].messages
      /\ tk_events[i].type = "ticket-status" /\ ~StatusAfter(i, t) => tk_events[i].value = tk_saves[t].value
    BY DEF EventsRight
<1>3. tk_rows[t].messages \in Nat /\ tk_rows'[t].messages \in Nat
    BY <1>1, RowNumbers DEF TkTypes, TkRows
<1> HIDE DEF t
<1>4. tk_rows'[t].messages >= tk_rows[t].messages /\ tk_saves'[t].value = tk_saves[t].value
    BY <1>1
<1> QED BY <1>2, <1>3, <1>4 DEF t

\* A page that is left alone while rows keep their messages and nothing is announced.
LEMMA PagesKept ==
    ASSUME TkTypes, PagesRight, UNCHANGED <<tk_pages, tk_events, tk_excused>>,
           \A t \in Tickets : tk_rows'[t].messages = tk_rows[t].messages /\ tk_rows'[t].first = tk_rows[t].first
                             /\ tk_saves'[t].value = tk_saves[t].value,
           \A r \in TkRequests : tk_requests[r].kind = "write" => tk_requests'[r] = tk_requests[r]
    PROVE  PagesRight'
<1> SUFFICES ASSUME NEW p \in TkPages PROVE PageRight(p)'
    BY DEF PagesRight
<1>1. PageRight(p)
    BY DEF PagesRight
<1>2. tk_pages[p].at \in {"rendering", "open"} => tk_pages[p].ticket \in Tickets
    BY PageShape DEF TkTypes, MadePages
<1>3. \A n, t : StatusAfter(n, t)' = StatusAfter(n, t)
    BY DEF StatusAfter, IsStatus
<1>4. \A n, t, i : ToCome(n, t, i) => ToCome(n, t, i)'
    BY DEF ToCome, Ticket
<1>5. tk_pages[p].at = "open" => \A i : ToCome(tk_pages[p].last, tk_pages[p].ticket, i) => ToCome(tk_pages[p].last, tk_pages[p].ticket, i)'
    BY <1>4
<1> QED BY <1>1, <1>2, <1>3, <1>5 DEF PageRight

\* Statuses after event n, and what is to come after it, when an event is posted.
LEMMA ToldAfter ==
    ASSUME TkTypes, NEW event \in TkEvents, tk_events' = Append(tk_events, event), NEW n \in Nat, n <= Len(tk_events), NEW t
    PROVE  StatusAfter(n, t)' <=> (StatusAfter(n, t) \/ (event.type = "ticket-status" /\ event.ticket = t))
<1>1. /\ Len(tk_events) \in Nat /\ Len(tk_events') = Len(tk_events) + 1
      /\ \A i \in 1 .. Len(tk_events) : tk_events'[i] = tk_events[i]
      /\ tk_events'[Len(tk_events) + 1] = event
    BY TkEventTypes
<1>2. StatusAfter(n, t) => StatusAfter(n, t)'
    BY <1>1 DEF StatusAfter, IsStatus
<1>3. event.type = "ticket-status" /\ event.ticket = t => StatusAfter(n, t)'
    BY <1>1 DEF StatusAfter, IsStatus
<1>4. ASSUME StatusAfter(n, t)'
      PROVE  StatusAfter(n, t) \/ (event.type = "ticket-status" /\ event.ticket = t)
    <2>1. PICK j \in n + 1 .. Len(tk_events') : tk_events'[j].type = "ticket-status" /\ tk_events'[j].ticket = t
        BY <1>4 DEF StatusAfter, IsStatus
    <2>2. j \in n + 1 .. Len(tk_events) \/ j = Len(tk_events) + 1
        BY <1>1, <2>1
    <2>3. CASE j \in n + 1 .. Len(tk_events)
        <3>1. j \in 1 .. Len(tk_events)
            BY <2>3, <1>1
        <3> QED BY <3>1, <2>1, <2>3, <1>1 DEF StatusAfter, IsStatus
    <2>4. CASE j = Len(tk_events) + 1
        BY <2>1, <2>4, <1>1
    <2> QED BY <2>2, <2>3, <2>4
<1> QED BY <1>2, <1>3, <1>4

\* Events when one is posted; the status it may tell is the last there is.
LEMMA EventsTold ==
    ASSUME TkTypes, TkTypes', EventsRight, UNCHANGED tk_rows,
           NEW event \in TkEvents, tk_events' = Append(tk_events, event),
           event.type # "ticket-status" =>
               event.value \in 1 .. tk_rows[event.ticket].messages /\ UNCHANGED tk_saves,
           event.type = "ticket-status" =>
               /\ tk_saves'[event.ticket].value = event.value
               /\ \A t \in Tickets \ {event.ticket} : tk_saves'[t] = tk_saves[t]
    PROVE  EventsRight'
<1>1. /\ Len(tk_events) \in Nat /\ Len(tk_events') = Len(tk_events) + 1
      /\ \A i \in 1 .. Len(tk_events) : tk_events'[i] = tk_events[i]
      /\ tk_events'[Len(tk_events) + 1] = event
    BY TkEventTypes
<1>2. ASSUME NEW i \in 1 .. Len(tk_events)
      PROVE  /\ tk_events'[i].type # "ticket-status" => tk_events'[i].value \in 1 .. tk_rows'[tk_events'[i].ticket].messages
             /\ tk_events'[i].type = "ticket-status" /\ ~StatusAfter(i, tk_events[i].ticket)'
                  => tk_events'[i].value = tk_saves'[tk_events'[i].ticket].value
    <2> DEFINE t == tk_events[i].ticket
    <2>1. tk_events'[i] = tk_events[i] /\ tk_events[i] \in TkEvents /\ t \in Tickets /\ i \in Nat /\ i <= Len(tk_events)
        BY <1>1, EventShape DEF TkTypes
    <2>2. /\ tk_events[i].type # "ticket-status" => tk_events[i].value \in 1 .. tk_rows[t].messages
          /\ tk_events[i].type = "ticket-status" /\ ~StatusAfter(i, t) => tk_events[i].value = tk_saves[t].value
        BY DEF EventsRight
    <2>3. PICK u : u = t
        OBVIOUS
    <2>4. StatusAfter(i, u)' <=> (StatusAfter(i, u) \/ (event.type = "ticket-status" /\ event.ticket = u))
        BY <2>1, ToldAfter
    <2>5. tk_events'[i].ticket = u
        BY <2>1, <2>3
    <2>6. ASSUME tk_events'[i].type = "ticket-status", ~StatusAfter(i, tk_events[i].ticket)'
          PROVE  tk_events'[i].value = tk_saves'[u].value
        <3>1. ~StatusAfter(i, u)'
            BY <2>5, <2>6 DEF StatusAfter
        <3>2. tk_saves'[u].value = tk_saves[u].value
            BY <3>1, <2>1, <2>3, <2>4
        <3> QED BY <3>1, <3>2, <2>1, <2>2, <2>3, <2>4, <2>6
    <2> QED BY <2>1, <2>2, <2>5, <2>6
<1>3. /\ event.type # "ticket-status" => event.value \in 1 .. tk_rows'[event.ticket].messages
      /\ event.type = "ticket-status" => event.value = tk_saves'[event.ticket].value
    OBVIOUS
<1>4. \A i \in 1 .. Len(tk_events') : i \in 1 .. Len(tk_events) \/ i = Len(tk_events) + 1
    BY <1>1
<1> QED BY <1>1, <1>2, <1>3, <1>4 DEF EventsRight

\* Pages when an event is posted: what is told need not be waited for.
LEMMA PagesTold ==
    ASSUME TkTypes, PagesRight, UNCHANGED <<tk_pages, tk_rows>>,
           NEW event \in TkEvents, tk_events' = Append(tk_events, event),
           event.type # "ticket-status" => UNCHANGED <<tk_saves, tk_excused>>,
           event.type = "ticket-status" =>
               /\ \A t \in Tickets \ {event.ticket} : tk_saves'[t] = tk_saves[t]
               /\ tk_excused' = {p \in tk_excused : p \notin TicketPages(event.ticket)},
           \A r \in TkRequests : tk_requests[r].kind = "write" =>
               \/ tk_requests'[r] = tk_requests[r]
               \/ event.type = "ticket-message" /\ event.ticket = Ticket(r) /\ event.value = tk_requests[r].message
    PROVE  PagesRight'
<1> SUFFICES ASSUME NEW p \in TkPages PROVE PageRight(p)'
    BY DEF PagesRight
<1>1. /\ Len(tk_events) \in Nat /\ Len(tk_events') = Len(tk_events) + 1
      /\ \A i \in 1 .. Len(tk_events) : tk_events'[i] = tk_events[i]
      /\ tk_events'[Len(tk_events) + 1] = event
    BY TkEventTypes
<1> DEFINE q == tk_pages[p]
<1>2. CASE q.at \notin {"rendering", "open"}
    BY <1>2 DEF PageRight
<1>3. CASE q.at \in {"rendering", "open"}
    <2>1. PICK t \in Tickets, n \in Nat : t = q.ticket /\ n = q.last
        BY <1>3, PageShape DEF TkTypes, MadePages
    <2>2. PageRight(p) /\ n <= Len(tk_events)
        BY <1>3, <2>1 DEF PagesRight, PageRight
    <2>3. StatusAfter(n, t)' <=> (StatusAfter(n, t) \/ (event.type = "ticket-status" /\ event.ticket = t))
        BY <2>2, ToldAfter
    <2>4. ASSUME p \notin tk_excused', ~StatusAfter(n, t)'
          PROVE  q.open = tk_saves'[t].value
        <3>1. ~StatusAfter(n, t) /\ ~(event.type = "ticket-status" /\ event.ticket = t)
            BY <2>3, <2>4
        <3>2. tk_saves'[t] = tk_saves[t]
            BY <3>1
        <3>3. p \notin tk_excused
            BY <3>1, <2>1, <2>4 DEF TicketPages
        <3> QED BY <3>1, <3>2, <3>3, <1>3, <2>1, <2>2 DEF PageRight
    <2>5. \A i : ToCome(n, t, i) => ToCome(n, t, i)'
        <3> SUFFICES ASSUME NEW i, ToCome(n, t, i) PROVE ToCome(n, t, i)'
            OBVIOUS
        <3>1. CASE \E r \in TkRequests : tk_requests[r].kind = "write" /\ Ticket(r) = t /\ tk_requests[r].message = i
            <4>1. PICK r \in TkRequests : tk_requests[r].kind = "write" /\ Ticket(r) = t /\ tk_requests[r].message = i
                BY <3>1
            <4>2. CASE tk_requests'[r] = tk_requests[r]
                BY <4>1, <4>2 DEF ToCome, Ticket
            <4>3. CASE event.type = "ticket-message" /\ event.ticket = Ticket(r) /\ event.value = tk_requests[r].message
                <5>1. Len(tk_events) + 1 \in n + 1 .. Len(tk_events')
                    BY <1>1, <2>2
                <5> QED BY <4>1, <4>3, <5>1, <1>1 DEF ToCome
            <4> QED BY <4>1, <4>2, <4>3
        <3>2. CASE \E j \in n + 1 .. Len(tk_events) : tk_events[j].type = "ticket-message" /\ tk_events[j].ticket = t /\ tk_events[j].value = i
            <4>1. PICK j \in n + 1 .. Len(tk_events) : tk_events[j].type = "ticket-message" /\ tk_events[j].ticket = t /\ tk_events[j].value = i
                BY <3>2
            <4>2. j \in n + 1 .. Len(tk_events') /\ tk_events'[j] = tk_events[j]
                BY <1>1, <4>1
            <4> QED BY <4>1, <4>2 DEF ToCome
        <3> QED BY <3>1, <3>2 DEF ToCome
    <2>6. q.at = "open" =>
            /\ ~q.early => tk_rows'[t].first # 0
            /\ \A i \in (1 .. tk_rows'[t].messages) \ q.messages : ToCome(n, t, i)' \/ (q.early /\ tk_rows'[t].first = i)
        BY <2>1, <2>2, <2>5 DEF PageRight
    <2>7. n <= Len(tk_events')
        BY <1>1, <2>2
    <2>8. tk_pages'[p] = q /\ q.last = n /\ q.ticket = t
        BY <2>1
    <2> QED BY <1>3, <2>4, <2>6, <2>7, <2>8 DEF PageRight, StatusAfter, ToCome, IsStatus, Ticket
<1> QED BY <1>2, <1>3

-----------------------------------------------------------------------------
(* Every step.                                                             *)

\* Rows, when one of them changes.
LEMMA TkRowTypes ==
    ASSUME TkTypes, NEW t \in Tickets, NEW row \in TkRows, tk_rows' = [tk_rows EXCEPT ![t] = row]
    PROVE  /\ tk_rows' \in [Tickets -> TkRows]
           /\ tk_rows'[t] = row
           /\ \A u \in Tickets \ {t} : tk_rows'[u] = tk_rows[u]
BY DEF TkTypes

\* The first step of opening a ticket keeps the invariant.
LEMMA NewTicketKeeps ==
    ASSUME TkInv, NEW r \in TkRequests, NEW t \in Tickets, NEW assignees \in {"problem", "contest"}, NewTicket(r, t, assignees)
    PROVE  TkInv'
<1> DEFINE ask == [kind |-> "new", step |-> "message", ticket |-> t, assignees |-> assignees]
           row == [tk_rows[t] EXCEPT !.stored = TRUE]
<1>1. /\ ~tk_rows[t].stored /\ tk_requests' = [tk_requests EXCEPT ![r] = ask] /\ tk_requests[r] = NoAsk
      /\ tk_rows' = [tk_rows EXCEPT ![t] = row]
      /\ UNCHANGED <<tk_events, tk_pages, tk_saves, tk_reverted, tk_excused, tk_failed>>
    BY DEF NewTicket, Ask, AfterTicket
<1>2. TkTypes
    BY DEF TkInv
<1>3. ask \in TkAsks /\ ask.kind = "new" /\ ask.ticket = t /\ ask.step = "message"
    BY DEF TkAsks, NewAsks
<1>4. row \in TkRows /\ row.stored = TRUE /\ row.messages = tk_rows[t].messages /\ row.first = tk_rows[t].first
      /\ row.open = tk_rows[t].open
    BY <1>2 DEF TkTypes, TkRows
<1> HIDE DEF ask, row
<1>5. /\ tk_requests' \in [TkRequests -> TkAsks] /\ tk_requests'[r] = ask
      /\ \A o \in TkRequests \ {r} : tk_requests'[o] = tk_requests[o]
    BY <1>1, <1>2, <1>3, TkAskTypes
<1>6. /\ tk_rows' \in [Tickets -> TkRows] /\ tk_rows'[t] = row
      /\ \A u \in Tickets \ {t} : tk_rows'[u] = tk_rows[u]
    BY <1>1, <1>2, <1>4, TkRowTypes
<1>7. TkTypes'
    BY <1>1, <1>2, <1>5, <1>6 DEF TkTypes
<1>8. \A u \in Tickets : /\ tk_rows'[u].messages = tk_rows[u].messages /\ tk_rows'[u].first = tk_rows[u].first
                         /\ tk_rows'[u].messages >= tk_rows[u].messages /\ tk_rows'[u].open = tk_rows[u].open
                         /\ tk_saves'[u].value = tk_saves[u].value
    BY <1>1, <1>2, <1>4, <1>6, RowNumbers
<1>9. \A o \in TkRequests : tk_requests'[o].kind # "new" => tk_requests'[o] = tk_requests[o]
    BY <1>3, <1>5
<1>10. NewRight'
    <2>1. /\ \A u \in Tickets : ~tk_rows[u].stored => tk_rows[u].first = 0
          /\ \A o \in TkRequests : tk_requests[o].kind = "new" =>
                /\ tk_rows[Ticket(o)].stored
                /\ tk_requests[o].step = "message" => tk_rows[Ticket(o)].first = 0
                /\ tk_requests[o].step # "message" => tk_rows[Ticket(o)].messages >= 1
          /\ \A o, i \in TkRequests : tk_requests[o].kind = "new" /\ tk_requests[i].kind = "new" /\ Ticket(o) = Ticket(i) => o = i
        BY DEF TkInv, NewRight
    <2>2. \A o \in TkRequests : tk_requests[o].kind = "new" => Ticket(o) \in Tickets \ {t}
        BY <1>1, <1>2, <2>1, RequestTickets
    <2>3. \A u \in Tickets : ~tk_rows'[u].stored => tk_rows'[u].first = 0
        BY <1>4, <1>6, <2>1
    <2>4. ASSUME NEW o \in TkRequests, tk_requests'[o].kind = "new"
          PROVE  /\ tk_rows'[tk_requests'[o].ticket].stored
                 /\ tk_requests'[o].step = "message" => tk_rows'[tk_requests'[o].ticket].first = 0
                 /\ tk_requests'[o].step # "message" => tk_rows'[tk_requests'[o].ticket].messages >= 1
        <3>1. CASE o = r
            BY <3>1, <1>1, <1>3, <1>4, <1>5, <1>6, <2>1
        <3>2. CASE o # r
            BY <3>2, <2>4, <1>5, <1>6, <2>1, <2>2 DEF Ticket
        <3> QED BY <3>1, <3>2
    <2>5. \A o, i \in TkRequests : tk_requests'[o].kind = "new" /\ tk_requests'[i].kind = "new"
                                   /\ tk_requests'[o].ticket = tk_requests'[i].ticket => o = i
        BY <1>3, <1>5, <2>1, <2>2 DEF Ticket
    <2> QED BY <2>3, <2>4, <2>5 DEF NewRight, Ticket
<1>11. WriteRight'
    BY <1>2, <1>7, <1>8, <1>9, WriteKept DEF TkInv
<1>12. SavesRight'
    BY <1>1, <1>2, <1>8, <1>9, SavesKept DEF TkInv
<1>13. EventsRight'
    BY <1>1, <1>2, <1>7, <1>8, EventsKept DEF TkInv
<1>14. PagesRight'
    <2>1. \A o \in TkRequests : tk_requests[o].kind = "write" => tk_requests'[o] = tk_requests[o]
        BY <1>1, <1>5 DEF NoAsk
    <2> QED BY <1>1, <1>2, <1>8, <2>1, PagesKept DEF TkInv
<1> QED BY <1>1, <1>7, <1>10, <1>11, <1>12, <1>13, <1>14 DEF TkInv

\* So does storing its first message.
LEMMA FirstMessageKeeps ==
    ASSUME TkInv, NEW r \in TkRequests, FirstMessage(r)
    PROVE  TkInv'
<1> DEFINE work == tk_requests[r]
           t == work.ticket
           ask == [work EXCEPT !.step = "assign"]
           n == tk_rows[t].messages + 1
           row == [tk_rows[t] EXCEPT !.messages = n, !.first = n]
<1>1. /\ work.kind = "new" /\ work.step = "message" /\ tk_requests' = [tk_requests EXCEPT ![r] = ask]
      /\ tk_rows' = [tk_rows EXCEPT ![t] = row]
      /\ UNCHANGED <<tk_events, tk_pages, tk_saves, tk_reverted, tk_excused, tk_failed>>
    BY DEF FirstMessage, GoOn
<1>2. TkTypes
    BY DEF TkInv
<1>3. work \in NewAsks /\ t \in Tickets
    BY <1>1, <1>2, AskShape DEF TkTypes, NewAsks
<1>4. ask \in TkAsks /\ ask.kind = "new" /\ ask.ticket = t /\ ask.step = "assign"
    BY <1>3 DEF TkAsks, NewAsks
<1>5. n \in Nat /\ n >= 1 /\ n >= tk_rows[t].messages /\ tk_rows[t].first = 0 /\ tk_rows[t].messages \in Nat
      /\ 1 .. n = (1 .. tk_rows[t].messages) \cup {n}
    <2>1. tk_rows[t].messages \in Nat
        BY <1>2, <1>3, RowNumbers
    <2>2. tk_rows[t].first = 0
        BY <1>1 DEF TkInv, NewRight, Ticket
    <2> HIDE DEF t
    <2> QED BY <2>1, <2>2
<1>6. row \in TkRows /\ row.messages = n /\ row.first = n /\ row.stored = tk_rows[t].stored /\ row.open = tk_rows[t].open
    <2> DEFINE old == tk_rows[t]
    <2>1. old \in TkRows
        BY <1>2, <1>3 DEF TkTypes
    <2>2. n \in Nat
        BY <1>5
    <2>3. row = [old EXCEPT !.messages = n, !.first = n]
        OBVIOUS
    <2> HIDE DEF n, old, t, row
    <2>4. row \in TkRows /\ row.messages = n /\ row.first = n /\ row.stored = old.stored /\ row.open = old.open
        BY <2>1, <2>2, <2>3 DEF TkRows
    <2> QED BY <2>4 DEF old, t
<1>7. t = Ticket(r)
    BY DEF Ticket
<1> HIDE DEF ask, row, n, t, work
<1>8. /\ tk_requests' \in [TkRequests -> TkAsks] /\ tk_requests'[r] = ask
      /\ \A o \in TkRequests \ {r} : tk_requests'[o] = tk_requests[o]
    BY <1>1, <1>2, <1>4, TkAskTypes
<1>9. /\ tk_rows' \in [Tickets -> TkRows] /\ tk_rows'[t] = row
      /\ \A u \in Tickets \ {t} : tk_rows'[u] = tk_rows[u]
    BY <1>1, <1>2, <1>3, <1>6, TkRowTypes
<1>10. TkTypes'
    BY <1>1, <1>2, <1>8, <1>9 DEF TkTypes
<1>11. \A u \in Tickets : /\ tk_rows'[u].messages >= tk_rows[u].messages /\ tk_rows'[u].open = tk_rows[u].open
                          /\ tk_saves'[u].value = tk_saves[u].value
    BY <1>1, <1>2, <1>5, <1>6, <1>9, RowNumbers
<1>12. \A o \in TkRequests : tk_requests'[o].kind # "new" => tk_requests'[o] = tk_requests[o]
    BY <1>4, <1>8
<1>13. NewRight'
    <2>1. /\ \A u \in Tickets : ~tk_rows[u].stored => tk_rows[u].first = 0
          /\ \A o \in TkRequests : tk_requests[o].kind = "new" =>
                /\ tk_rows[Ticket(o)].stored
                /\ tk_requests[o].step = "message" => tk_rows[Ticket(o)].first = 0
                /\ tk_requests[o].step # "message" => tk_rows[Ticket(o)].messages >= 1
          /\ \A o, i \in TkRequests : tk_requests[o].kind = "new" /\ tk_requests[i].kind = "new" /\ Ticket(o) = Ticket(i) => o = i
        BY DEF TkInv, NewRight
    <2>2. \A o \in TkRequests \ {r} : tk_requests[o].kind = "new" => Ticket(o) \in Tickets \ {t}
        BY <1>1, <1>2, <1>7, <2>1, RequestTickets DEF work
    <2>3. \A u \in Tickets : ~tk_rows'[u].stored => tk_rows'[u].first = 0
        BY <1>1, <1>6, <1>7, <1>9, <2>1 DEF work
    <2>4. ASSUME NEW o \in TkRequests, tk_requests'[o].kind = "new"
          PROVE  /\ tk_rows'[tk_requests'[o].ticket].stored
                 /\ tk_requests'[o].step = "message" => tk_rows'[tk_requests'[o].ticket].first = 0
                 /\ tk_requests'[o].step # "message" => tk_rows'[tk_requests'[o].ticket].messages >= 1
        <3>1. CASE o = r
            BY <3>1, <1>1, <1>4, <1>5, <1>6, <1>7, <1>8, <1>9, <2>1 DEF work
        <3>2. CASE o # r
            BY <3>2, <2>4, <1>8, <1>9, <2>1, <2>2 DEF Ticket
        <3> QED BY <3>1, <3>2
    <2>5. \A o, i \in TkRequests : tk_requests'[o].kind = "new" /\ tk_requests'[i].kind = "new"
                                   /\ tk_requests'[o].ticket = tk_requests'[i].ticket => o = i
        BY <1>4, <1>8, <2>1, <2>2 DEF Ticket
    <2> QED BY <2>3, <2>4, <2>5 DEF NewRight, Ticket
<1>14. WriteRight'
    BY <1>2, <1>10, <1>11, <1>12, WriteKept DEF TkInv
<1>15. SavesRight'
    BY <1>1, <1>2, <1>11, <1>12, SavesKept DEF TkInv
<1>16. EventsRight'
    BY <1>1, <1>2, <1>10, <1>11, EventsKept DEF TkInv
<1>17. PagesRight'
    <2> SUFFICES ASSUME NEW p \in TkPages PROVE PageRight(p)'
        BY DEF PagesRight
    <2>1. PageRight(p) /\ tk_pages' = tk_pages
        BY <1>1 DEF TkInv, PagesRight
    <2>2. \A k, u : StatusAfter(k, u)' = StatusAfter(k, u)
        BY <1>1 DEF StatusAfter, IsStatus
    <2>3. \A o \in TkRequests : tk_requests[o].kind = "write" => tk_requests'[o] = tk_requests[o]
        BY <1>1, <1>8 DEF work
    <2>4. \A k, u, i : ToCome(k, u, i) => ToCome(k, u, i)'
        BY <1>1, <2>3 DEF ToCome, Ticket
    <2>5. tk_pages[p].at \in {"rendering", "open"} => tk_pages[p].ticket \in Tickets
        BY <1>2, PageShape DEF TkTypes, MadePages
    <2>6. tk_pages[p].at \in {"rendering", "open"} =>
          /\ tk_pages[p].last <= Len(tk_events)
          /\ p \notin tk_excused /\ ~StatusAfter(tk_pages[p].last, tk_pages[p].ticket) => tk_pages[p].open = tk_saves'[tk_pages[p].ticket].value
        BY <1>1, <2>1 DEF PageRight
    <2>7. ASSUME tk_pages[p].at = "open"
          PROVE  /\ ~tk_pages[p].early => tk_rows'[tk_pages[p].ticket].first # 0
                 /\ \A i \in (1 .. tk_rows'[tk_pages[p].ticket].messages) \ tk_pages[p].messages :
                      ToCome(tk_pages[p].last, tk_pages[p].ticket, i) \/ (tk_pages[p].early /\ tk_rows'[tk_pages[p].ticket].first = i)
        <3> DEFINE u == tk_pages[p].ticket
        <3>1. /\ ~tk_pages[p].early => tk_rows[u].first # 0
              /\ \A i \in (1 .. tk_rows[u].messages) \ tk_pages[p].messages :
                    ToCome(tk_pages[p].last, u, i) \/ (tk_pages[p].early /\ tk_rows[u].first = i)
            BY <2>1, <2>7 DEF PageRight
        <3>2. u \in Tickets
            BY <2>5, <2>7
        <3> HIDE DEF u
        <3>3. CASE u = t
            <4>1. tk_pages[p].early = TRUE
                <5>1. tk_pages[p].early \in BOOLEAN
                    BY <2>7, <1>2, PageShape DEF TkTypes, MadePages
                <5> QED BY <5>1, <3>1, <3>3, <1>5
            <4>2. \A i \in 1 .. tk_rows[u].messages : i # tk_rows[u].first
                BY <3>3, <1>5
            <4> QED BY <4>1, <4>2, <3>1, <3>3, <1>5, <1>6, <1>9 DEF u
        <3>4. CASE u # t
            BY <3>1, <3>2, <3>4, <1>9 DEF u
        <3> QED BY <3>3, <3>4
    <2>8. PICK q : q = tk_pages[p]
        OBVIOUS
    <2>9. tk_pages'[p] = q
        BY <1>1, <2>8
    <2>10. q.at \in {"rendering", "open"} =>
          /\ q.last <= Len(tk_events)
          /\ p \notin tk_excused /\ ~StatusAfter(q.last, q.ticket) => q.open = tk_saves'[q.ticket].value
        BY <2>6, <2>8
    <2>11. q.at = "open" =>
          /\ ~q.early => tk_rows'[q.ticket].first # 0
          /\ \A i \in (1 .. tk_rows'[q.ticket].messages) \ q.messages :
                ToCome(q.last, q.ticket, i)' \/ (q.early /\ tk_rows'[q.ticket].first = i)
        <3>1. \A i : ToCome(q.last, q.ticket, i) => ToCome(q.last, q.ticket, i)'
            BY <2>4
        <3> QED BY <2>7, <2>8, <3>1
    <2>12. StatusAfter(q.last, q.ticket)' <=> StatusAfter(q.last, q.ticket)
        BY <2>2
    <2> QED BY <2>9, <2>10, <2>11, <2>12, <1>1 DEF PageRight
<1> QED BY <1>1, <1>10, <1>13, <1>14, <1>15, <1>16, <1>17 DEF TkInv

\* Rows whose messages, opener and status are left alone, or hardly.
LEMMA AssignKeeps ==
    ASSUME TkInv, NEW r \in TkRequests, Assign(r)
    PROVE  TkInv'
<1> DEFINE work == tk_requests[r]
           t == work.ticket
           ask == [work EXCEPT !.step = "post"]
           row == [tk_rows[t] EXCEPT !.assignees = work.assignees]
<1>1. /\ work.kind = "new" /\ work.step = "assign" /\ tk_requests' = [tk_requests EXCEPT ![r] = ask]
      /\ tk_rows' = [tk_rows EXCEPT ![t] = row]
      /\ UNCHANGED <<tk_events, tk_pages, tk_saves, tk_reverted, tk_excused, tk_failed>>
    BY DEF Assign, GoOn
<1>2. TkTypes
    BY DEF TkInv
<1>3. work \in NewAsks /\ t \in Tickets
    BY <1>1, <1>2, AskShape DEF TkTypes, NewAsks
<1>4. ask \in TkAsks /\ ask.kind = "new" /\ ask.ticket = t /\ ask.step = "post"
    BY <1>3 DEF TkAsks, NewAsks
<1>5. row \in TkRows /\ row.messages = tk_rows[t].messages /\ row.first = tk_rows[t].first
      /\ row.stored = tk_rows[t].stored /\ row.open = tk_rows[t].open
    <2> DEFINE old == tk_rows[t]
               new == work.assignees
    <2>1. old \in TkRows /\ new \in {"no one", "problem", "contest"} /\ row = [old EXCEPT !.assignees = new]
        BY <1>2, <1>3 DEF TkTypes, NewAsks
    <2> HIDE DEF old, row, new
    <2>2. row \in TkRows /\ row.messages = old.messages /\ row.first = old.first
          /\ row.stored = old.stored /\ row.open = old.open
        BY <2>1 DEF TkRows
    <2> QED BY <2>2 DEF old
<1>6. t = Ticket(r)
    BY DEF Ticket
<1> HIDE DEF ask, row, t, work
<1>7. /\ tk_requests' \in [TkRequests -> TkAsks] /\ tk_requests'[r] = ask
      /\ \A o \in TkRequests \ {r} : tk_requests'[o] = tk_requests[o]
    BY <1>1, <1>2, <1>4, TkAskTypes
<1>8. /\ tk_rows' \in [Tickets -> TkRows] /\ tk_rows'[t] = row
      /\ \A u \in Tickets \ {t} : tk_rows'[u] = tk_rows[u]
    BY <1>1, <1>2, <1>3, <1>5, TkRowTypes
<1>9. TkTypes'
    BY <1>1, <1>2, <1>7, <1>8 DEF TkTypes
<1>10. \A u \in Tickets : /\ tk_rows'[u].messages = tk_rows[u].messages /\ tk_rows'[u].first = tk_rows[u].first
                          /\ tk_rows'[u].messages >= tk_rows[u].messages /\ tk_rows'[u].open = tk_rows[u].open
                          /\ tk_rows'[u].stored = tk_rows[u].stored /\ tk_saves'[u].value = tk_saves[u].value
    BY <1>1, <1>2, <1>5, <1>8, RowNumbers
<1>11. \A o \in TkRequests : tk_requests'[o].kind # "new" => tk_requests'[o] = tk_requests[o]
    BY <1>4, <1>7
<1>12. NewRight'
    <2>1. Grows
        BY <1>10 DEF Grows
    <2>2. \A o \in TkRequests : tk_requests'[o].kind = "new" =>
              /\ tk_requests[o].kind = "new" /\ tk_requests'[o].ticket = Ticket(o)
              /\ tk_requests'[o].step = "message" <=> tk_requests[o].step = "message"
        <3> TAKE o \in TkRequests
        <3>1. CASE o = r
            BY <3>1, <1>1, <1>4, <1>6, <1>7 DEF work
        <3>2. CASE o # r
            BY <3>2, <1>7 DEF Ticket
        <3> QED BY <3>1, <3>2
    <2> QED BY <1>2, <1>9, <2>1, <2>2, NewKept DEF TkInv
<1>13. WriteRight'
    BY <1>2, <1>9, <1>10, <1>11, WriteKept DEF TkInv
<1>14. SavesRight'
    BY <1>1, <1>2, <1>10, <1>11, SavesKept DEF TkInv
<1>15. EventsRight'
    BY <1>1, <1>2, <1>9, <1>10, EventsKept DEF TkInv
<1>16. PagesRight'
    <2>1. \A o \in TkRequests : tk_requests[o].kind = "write" => tk_requests'[o] = tk_requests[o]
        BY <1>1, <1>7 DEF work
    <2> QED BY <1>1, <1>2, <1>10, <2>1, PagesKept DEF TkInv
<1> QED BY <1>1, <1>9, <1>12, <1>13, <1>14, <1>15, <1>16 DEF TkInv

\* So does the event of a new ticket.
LEMMA TellNewKeeps ==
    ASSUME TkInv, NEW r \in TkRequests, TellNew(r)
    PROVE  TkInv'
<1> DEFINE work == tk_requests[r]
           t == work.ticket
           event == [type |-> "new-ticket", ticket |-> t, value |-> 1]
<1>1. /\ work.kind = "new" /\ work.step = "post" /\ tk_requests' = [tk_requests EXCEPT ![r] = NoAsk]
      /\ tk_events' = Append(tk_events, event)
      /\ UNCHANGED <<tk_rows, tk_pages, tk_saves, tk_reverted, tk_excused, tk_failed>>
    BY DEF TellNew, Answered, Tell
<1>2. TkTypes
    BY DEF TkInv
<1>3. t \in Tickets
    BY <1>1, <1>2, AskShape DEF TkTypes, NewAsks
<1>4. event \in TkEvents /\ event.type = "new-ticket" /\ event.ticket = t /\ event.value = 1
    BY <1>3 DEF TkEvents, MessageEvents
<1>5. t = Ticket(r)
    BY DEF Ticket
<1> HIDE DEF t, work, event
<1>6. NoAsk \in TkAsks /\ NoAsk.kind = "none"
    BY DEF TkAsks, NoAsk
<1>7. /\ tk_requests' \in [TkRequests -> TkAsks] /\ tk_requests'[r] = NoAsk
      /\ \A o \in TkRequests \ {r} : tk_requests'[o] = tk_requests[o]
    BY <1>1, <1>2, <1>6, TkAskTypes
<1>8. TkTypes'
    BY <1>1, <1>2, <1>4, <1>7, TkEventTypes DEF TkTypes
<1>9. \A u \in Tickets : tk_rows'[u].messages >= tk_rows[u].messages
    BY <1>1, <1>2, RowNumbers
<1>10. \A o \in TkRequests : tk_requests'[o].kind # "none" => tk_requests'[o] = tk_requests[o]
    BY <1>6, <1>7
<1>11. NewRight'
    <2>1. Grows
        BY <1>1, <1>9 DEF Grows
    <2>2. \A o \in TkRequests : tk_requests'[o].kind = "new" =>
              /\ tk_requests[o].kind = "new" /\ tk_requests'[o].ticket = Ticket(o)
              /\ tk_requests'[o].step = "message" <=> tk_requests[o].step = "message"
        BY <1>10 DEF Ticket
    <2> QED BY <1>2, <1>8, <2>1, <2>2, NewKept DEF TkInv
<1>12. WriteRight'
    BY <1>2, <1>8, <1>9, <1>10, WriteKept DEF TkInv
<1>13. SavesRight'
    BY <1>1, <1>2, <1>10, SavesKept DEF TkInv
<1>14. EventsRight'
    <2>1. 1 \in 1 .. tk_rows[t].messages
        <3>1. tk_rows[t].messages >= 1
            BY <1>1, <1>5 DEF TkInv, NewRight, work
        <3>2. tk_rows[t].messages \in Nat
            BY <1>2, <1>3, RowNumbers
        <3> QED BY <3>1, <3>2
    <2> QED BY <1>1, <1>2, <1>4, <1>8, <2>1, EventsTold DEF TkInv
<1>15. PagesRight'
    <2>1. \A o \in TkRequests : tk_requests[o].kind = "write" => tk_requests'[o] = tk_requests[o]
        BY <1>1, <1>7 DEF work
    <2> QED BY <1>1, <1>2, <1>4, <2>1, PagesTold DEF TkInv
<1> QED BY <1>1, <1>8, <1>11, <1>12, <1>13, <1>14, <1>15 DEF TkInv

\* So does the event of a message.
LEMMA TellWrittenKeeps ==
    ASSUME TkInv, NEW r \in TkRequests, TellWritten(r)
    PROVE  TkInv'
<1> DEFINE work == tk_requests[r]
           t == work.ticket
           event == [type |-> "ticket-message", ticket |-> t, value |-> work.message]
<1>1. /\ work.kind = "write" /\ tk_requests' = [tk_requests EXCEPT ![r] = NoAsk]
      /\ tk_events' = Append(tk_events, event)
      /\ UNCHANGED <<tk_rows, tk_pages, tk_saves, tk_reverted, tk_excused, tk_failed>>
    BY DEF TellWritten, Answered, Tell
<1>2. TkTypes
    BY DEF TkInv
<1>3. t \in Tickets /\ work.message \in Nat
    BY <1>1, <1>2, AskShape DEF TkTypes, WriteAsks
<1>4. event \in TkEvents /\ event.type = "ticket-message" /\ event.ticket = t /\ event.value = work.message
    BY <1>3 DEF TkEvents, MessageEvents
<1>5. t = Ticket(r)
    BY DEF Ticket
<1> HIDE DEF t, work, event
<1>6. NoAsk \in TkAsks /\ NoAsk.kind = "none"
    BY DEF TkAsks, NoAsk
<1>7. /\ tk_requests' \in [TkRequests -> TkAsks] /\ tk_requests'[r] = NoAsk
      /\ \A o \in TkRequests \ {r} : tk_requests'[o] = tk_requests[o]
    BY <1>1, <1>2, <1>6, TkAskTypes
<1>8. TkTypes'
    BY <1>1, <1>2, <1>4, <1>7, TkEventTypes DEF TkTypes
<1>9. \A u \in Tickets : tk_rows'[u].messages >= tk_rows[u].messages
    BY <1>1, <1>2, RowNumbers
<1>10. \A o \in TkRequests : tk_requests'[o].kind # "none" => tk_requests'[o] = tk_requests[o]
    BY <1>6, <1>7
<1>11. NewRight'
    <2>1. Grows
        BY <1>1, <1>9 DEF Grows
    <2>2. \A o \in TkRequests : tk_requests'[o].kind = "new" =>
              /\ tk_requests[o].kind = "new" /\ tk_requests'[o].ticket = Ticket(o)
              /\ tk_requests'[o].step = "message" <=> tk_requests[o].step = "message"
        BY <1>10 DEF Ticket
    <2> QED BY <1>2, <1>8, <2>1, <2>2, NewKept DEF TkInv
<1>12. WriteRight'
    BY <1>2, <1>8, <1>9, <1>10, WriteKept DEF TkInv
<1>13. SavesRight'
    BY <1>1, <1>2, <1>10, SavesKept DEF TkInv
<1>14. EventsRight'
    <2>1. work.message \in 1 .. tk_rows[t].messages
        BY <1>1, <1>5 DEF TkInv, WriteRight, work
    <2> QED BY <1>1, <1>2, <1>4, <1>8, <2>1, EventsTold DEF TkInv
<1>15. PagesRight'
    <2>1. \A o \in TkRequests : tk_requests[o].kind = "write" =>
               \/ tk_requests'[o] = tk_requests[o]
               \/ event.type = "ticket-message" /\ event.ticket = Ticket(o) /\ event.value = tk_requests[o].message
        BY <1>4, <1>5, <1>7 DEF work
    <2> QED BY <1>1, <1>2, <1>4, <2>1, PagesTold DEF TkInv
<1> QED BY <1>1, <1>8, <1>11, <1>12, <1>13, <1>14, <1>15 DEF TkInv

\* So does the load of a row by those who change it.
LEMMA LoadTicketKeeps ==
    ASSUME TkInv, NEW r \in TkRequests, NEW t \in Tickets, NEW kind \in {"status", "notes"}, NEW open \in BOOLEAN,
           LoadTicket(r, t, kind, open)
    PROVE  TkInv'
<1> DEFINE ask == [kind |-> kind, open |-> open, ticket |-> t, row |-> tk_rows[t].open, step |-> "save", save |-> 0]
<1>1. /\ tk_requests[r] = NoAsk /\ tk_requests' = [tk_requests EXCEPT ![r] = ask]
      /\ UNCHANGED <<tk_rows, tk_events, tk_pages, tk_saves, tk_reverted, tk_excused, tk_failed>>
    BY DEF LoadTicket, Ask
<1>2. TkTypes
    BY DEF TkInv
<1>3. ask \in TkAsks /\ ask.kind \in {"status", "notes"} /\ ask.step = "save"
    BY <1>2, RowNumbers DEF TkAsks, LoadedAsks
<1> HIDE DEF ask
<1>4. /\ tk_requests' \in [TkRequests -> TkAsks] /\ tk_requests'[r] = ask
      /\ \A o \in TkRequests \ {r} : tk_requests'[o] = tk_requests[o]
    BY <1>1, <1>2, <1>3, TkAskTypes
<1>5. TkTypes'
    BY <1>1, <1>2, <1>4 DEF TkTypes
<1>6. \A u \in Tickets : tk_rows'[u].messages >= tk_rows[u].messages
    BY <1>1, <1>2, RowNumbers
<1>7. \A o \in TkRequests : tk_requests'[o].kind \in {"new", "write"} => tk_requests'[o] = tk_requests[o]
    BY <1>3, <1>4
<1>8. NewRight'
    <2>1. Grows
        BY <1>1, <1>6 DEF Grows
    <2>2. \A o \in TkRequests : tk_requests'[o].kind = "new" =>
              /\ tk_requests[o].kind = "new" /\ tk_requests'[o].ticket = Ticket(o)
              /\ tk_requests'[o].step = "message" <=> tk_requests[o].step = "message"
        BY <1>7 DEF Ticket
    <2> QED BY <1>2, <1>5, <2>1, <2>2, NewKept DEF TkInv
<1>9. WriteRight'
    BY <1>2, <1>5, <1>6, <1>7, WriteKept DEF TkInv
<1>10. SavesRight'
    <2>1. \A o \in TkRequests : tk_requests'[o].kind = "status" /\ tk_requests'[o].step = "post" => tk_requests'[o] = tk_requests[o]
        BY <1>3, <1>4
    <2> QED BY <1>1, <1>2, <2>1, SavesKept DEF TkInv
<1>11. EventsRight'
    BY <1>1, <1>2, <1>5, <1>6, EventsKept DEF TkInv
<1>12. PagesRight'
    <2>1. \A o \in TkRequests : tk_requests[o].kind = "write" => tk_requests'[o] = tk_requests[o]
        BY <1>1, <1>4 DEF NoAsk
    <2> QED BY <1>1, <1>2, <2>1, PagesKept DEF TkInv
<1> QED BY <1>1, <1>5, <1>8, <1>9, <1>10, <1>11, <1>12 DEF TkInv

\* So does the message that is stored with the whole row.
LEMMA WriteKeeps ==
    ASSUME TkInv, NEW r \in TkRequests, NEW t \in Tickets, Write(r, t)
    PROVE  TkInv'
<1> DEFINE n == tk_rows[t].messages + 1
           ask == [kind |-> "write", ticket |-> t, message |-> n]
           row == [tk_rows[t] EXCEPT !.messages = n]
<1>1. /\ tk_rows[t].stored /\ tk_requests[r] = NoAsk /\ tk_requests' = [tk_requests EXCEPT ![r] = ask]
      /\ tk_rows' = [tk_rows EXCEPT ![t] = row]
      /\ UNCHANGED <<tk_events, tk_pages, tk_saves, tk_reverted, tk_excused, tk_failed>>
    BY DEF Write, Ask
<1>2. TkTypes
    BY DEF TkInv
<1>3. n \in Nat /\ n >= 1 /\ n >= tk_rows[t].messages /\ tk_rows[t].messages \in Nat
      /\ n \in 1 .. n /\ 1 .. n = (1 .. tk_rows[t].messages) \cup {n}
    BY <1>2, RowNumbers
<1>4. ask \in TkAsks /\ ask.kind = "write" /\ ask.ticket = t /\ ask.message = n
    BY <1>3 DEF TkAsks, WriteAsks
<1>5. row \in TkRows /\ row.messages = n /\ row.first = tk_rows[t].first
      /\ row.stored = tk_rows[t].stored /\ row.open = tk_rows[t].open
    <2> DEFINE old == tk_rows[t]
    <2>1. old \in TkRows /\ n \in Nat /\ row = [old EXCEPT !.messages = n]
        BY <1>2, <1>3 DEF TkTypes
    <2> HIDE DEF old, row, n
    <2>2. row \in TkRows /\ row.messages = n /\ row.first = old.first
          /\ row.stored = old.stored /\ row.open = old.open
        BY <2>1 DEF TkRows
    <2> QED BY <2>2 DEF old
<1> HIDE DEF ask, row, n
<1>7. /\ tk_requests' \in [TkRequests -> TkAsks] /\ tk_requests'[r] = ask
      /\ \A o \in TkRequests \ {r} : tk_requests'[o] = tk_requests[o]
    BY <1>1, <1>2, <1>4, TkAskTypes
<1>8. /\ tk_rows' \in [Tickets -> TkRows] /\ tk_rows'[t] = row
      /\ \A u \in Tickets \ {t} : tk_rows'[u] = tk_rows[u]
    BY <1>1, <1>2, <1>5, TkRowTypes
<1>9. TkTypes'
    BY <1>1, <1>2, <1>7, <1>8 DEF TkTypes
<1>10. \A u \in Tickets : /\ tk_rows'[u].first = tk_rows[u].first
                          /\ tk_rows'[u].messages >= tk_rows[u].messages /\ tk_rows'[u].open = tk_rows[u].open
                          /\ tk_rows'[u].stored = tk_rows[u].stored /\ tk_saves'[u].value = tk_saves[u].value
    <2> TAKE u \in Tickets
    <2>1. tk_rows'[u].messages >= tk_rows[u].messages
        BY <1>2, <1>3, <1>5, <1>8, RowNumbers
    <2>2. /\ tk_rows'[u].first = tk_rows[u].first /\ tk_rows'[u].open = tk_rows[u].open
          /\ tk_rows'[u].stored = tk_rows[u].stored /\ tk_saves'[u].value = tk_saves[u].value
        BY <1>1, <1>5, <1>8
    <2> QED BY <2>1, <2>2
<1>11. \A o \in TkRequests : tk_requests'[o].kind # "write" => tk_requests'[o] = tk_requests[o]
    BY <1>4, <1>7
<1>12. NewRight'
    <2>1. Grows
        BY <1>10 DEF Grows
    <2>2. \A o \in TkRequests : tk_requests'[o].kind = "new" =>
              /\ tk_requests[o].kind = "new" /\ tk_requests'[o].ticket = Ticket(o)
              /\ tk_requests'[o].step = "message" <=> tk_requests[o].step = "message"
        BY <1>11 DEF Ticket
    <2> QED BY <1>2, <1>9, <2>1, <2>2, NewKept DEF TkInv
<1>13. WriteRight'
    <2> SUFFICES ASSUME NEW o \in TkRequests, tk_requests'[o].kind = "write"
                 PROVE  tk_requests'[o].message \in 1 .. tk_rows'[tk_requests'[o].ticket].messages
        BY DEF WriteRight, Ticket
    <2>1. CASE o = r
        BY <2>1, <1>3, <1>4, <1>5, <1>7, <1>8
    <2>2. CASE o # r
        <3>1. tk_requests'[o] = tk_requests[o]
            BY <2>2, <1>7
        <3>2. PICK u, m : u = tk_requests[o].ticket /\ m = tk_requests[o].message
            OBVIOUS
        <3>3. u \in Tickets /\ m \in 1 .. tk_rows[u].messages
            BY <3>1, <3>2, <1>2, RequestTickets DEF TkInv, WriteRight, Ticket
        <3>4. tk_rows[u].messages \in Nat /\ tk_rows'[u].messages \in Nat /\ tk_rows'[u].messages >= tk_rows[u].messages
            BY <3>3, <1>2, <1>8, <1>10, RowNumbers DEF TkRows
        <3>5. m \in 1 .. tk_rows'[u].messages
            BY <3>3, <3>4
        <3> QED BY <3>1, <3>2, <3>5
    <2> QED BY <2>1, <2>2
<1>14. SavesRight'
    BY <1>1, <1>2, <1>10, <1>11, SavesKept DEF TkInv
<1>15. EventsRight'
    BY <1>1, <1>2, <1>9, <1>10, EventsKept DEF TkInv
<1>16. PagesRight'
    <2> SUFFICES ASSUME NEW p \in TkPages PROVE PageRight(p)'
        BY DEF PagesRight
    <2>1. PageRight(p)
        BY DEF TkInv, PagesRight
    <2>2. PICK q : q = tk_pages[p]
        OBVIOUS
    <2>3. tk_pages'[p] = q
        BY <1>1, <2>2
    <2>4. q.at \in {"rendering", "open"} => q.ticket \in Tickets
        BY <1>2, <2>2, PageShape DEF TkTypes, MadePages
    <2>5. StatusAfter(q.last, q.ticket)' <=> StatusAfter(q.last, q.ticket)
        BY <1>1 DEF StatusAfter, IsStatus
    <2>6. \A o \in TkRequests : tk_requests[o].kind = "write" => tk_requests'[o] = tk_requests[o]
        BY <1>1, <1>7 DEF NoAsk
    <2>7. \A i : ToCome(q.last, q.ticket, i) => ToCome(q.last, q.ticket, i)'
        BY <1>1, <2>6 DEF ToCome, Ticket
    <2>8. \A i : i = n => ToCome(q.last, t, i)'
        BY <1>4, <1>7 DEF ToCome, Ticket
    <2>9. q.at \in {"rendering", "open"} =>
          /\ q.last <= Len(tk_events)
          /\ p \notin tk_excused /\ ~StatusAfter(q.last, q.ticket) => q.open = tk_saves'[q.ticket].value
        BY <1>1, <2>1, <2>2 DEF PageRight
    <2>10. ASSUME q.at = "open"
           PROVE  /\ ~q.early => tk_rows'[q.ticket].first # 0
                  /\ \A i \in (1 .. tk_rows'[q.ticket].messages) \ q.messages :
                        ToCome(q.last, q.ticket, i)' \/ (q.early /\ tk_rows'[q.ticket].first = i)
        <3>1. /\ ~q.early => tk_rows[q.ticket].first # 0
              /\ \A i \in (1 .. tk_rows[q.ticket].messages) \ q.messages :
                    ToCome(q.last, q.ticket, i) \/ (q.early /\ tk_rows[q.ticket].first = i)
            BY <2>1, <2>2, <2>10 DEF PageRight
        <3>2. PICK u \in Tickets : u = q.ticket
            BY <2>4, <2>10
        <3>3. tk_rows'[u].first = tk_rows[u].first
            BY <1>10
        <3>4. ASSUME NEW i \in (1 .. tk_rows'[u].messages) \ q.messages
              PROVE  ToCome(q.last, u, i)' \/ (q.early /\ tk_rows'[u].first = i)
            <4>1. CASE u = t /\ i = n
                BY <4>1, <2>8
            <4>2. CASE ~(u = t /\ i = n)
                <5>1. i \in (1 .. tk_rows[u].messages) \ q.messages
                    BY <3>4, <4>2, <1>3, <1>5, <1>8
                <5> QED BY <5>1, <3>1, <3>2, <3>3, <2>7
            <4> QED BY <4>1, <4>2
        <3> QED BY <3>1, <3>2, <3>3, <3>4
    <2> QED BY <2>3, <2>5, <2>9, <2>10, <1>1 DEF PageRight
<1> QED BY <1>1, <1>9, <1>12, <1>13, <1>14, <1>15, <1>16 DEF TkInv

\* So does a change of the status, which saves the row as it was loaded.
LEMMA SaveStatusKeeps ==
    ASSUME TkInv, NEW r \in TkRequests, SaveStatus(r)
    PROVE  TkInv'
<1> DEFINE work == tk_requests[r]
           t == work.ticket
           n == tk_saves[t].made + 1
           ask == [work EXCEPT !.step = "post", !.save = n]
           row == [tk_rows[t] EXCEPT !.open = work.open]
           save == [tk_saves[t] EXCEPT !.made = n]
<1>1. /\ work.kind = "status" /\ work.step = "save" /\ tk_requests' = [tk_requests EXCEPT ![r] = ask]
      /\ tk_rows' = [tk_rows EXCEPT ![t] = row]
      /\ tk_saves' = [tk_saves EXCEPT ![t] = save]
      /\ tk_reverted' = tk_reverted \ {t}
      /\ UNCHANGED <<tk_events, tk_pages, tk_excused, tk_failed>>
    BY DEF SaveStatus
<1>2. TkTypes
    BY DEF TkInv
<1>3. work \in LoadedAsks /\ t \in Tickets /\ work.open \in BOOLEAN
    BY <1>1, <1>2, AskShape DEF TkTypes, LoadedAsks
<1>4. n \in Nat /\ tk_saves[t].made \in Nat /\ n > tk_saves[t].made /\ tk_saves[t].told \in Nat
    BY <1>2, <1>3, RowNumbers
<1>5. ask \in TkAsks /\ ask.kind = "status" /\ ask.ticket = t /\ ask.step = "post" /\ ask.save = n /\ ask.open = work.open
    <2> HIDE DEF n
    <2> QED BY <1>1, <1>3, <1>4 DEF TkAsks, LoadedAsks
<1>6. row \in TkRows /\ row.messages = tk_rows[t].messages /\ row.first = tk_rows[t].first
      /\ row.stored = tk_rows[t].stored /\ row.open = work.open
    <2> DEFINE old == tk_rows[t]
               new == work.open
    <2>1. old \in TkRows /\ new \in BOOLEAN /\ row = [old EXCEPT !.open = new]
        BY <1>2, <1>3 DEF TkTypes
    <2> HIDE DEF old, row, new
    <2>2. row \in TkRows /\ row.messages = old.messages /\ row.first = old.first
          /\ row.stored = old.stored /\ row.open = new
        BY <2>1 DEF TkRows
    <2> QED BY <2>2 DEF old, new
<1>7. save \in [made : Nat, told : Nat, value : BOOLEAN] /\ save.made = n /\ save.told = tk_saves[t].told
      /\ save.value = tk_saves[t].value
    <2> DEFINE old == tk_saves[t]
    <2>1. old \in [made : Nat, told : Nat, value : BOOLEAN] /\ n \in Nat /\ save = [old EXCEPT !.made = n]
        BY <1>2, <1>3, <1>4 DEF TkTypes
    <2> HIDE DEF old, save, n
    <2>2. save \in [made : Nat, told : Nat, value : BOOLEAN] /\ save.made = n /\ save.told = old.told
          /\ save.value = old.value
        BY <2>1
    <2> QED BY <2>2 DEF old
<1>8. t = Ticket(r)
    BY DEF Ticket
<1> HIDE DEF ask, row, save, n, t, work
<1>9. /\ tk_requests' \in [TkRequests -> TkAsks] /\ tk_requests'[r] = ask
      /\ \A o \in TkRequests \ {r} : tk_requests'[o] = tk_requests[o]
    BY <1>1, <1>2, <1>5, TkAskTypes
<1>10. /\ tk_rows' \in [Tickets -> TkRows] /\ tk_rows'[t] = row
      /\ \A u \in Tickets \ {t} : tk_rows'[u] = tk_rows[u]
    BY <1>1, <1>2, <1>3, <1>6, TkRowTypes
<1>11. /\ tk_saves' \in [Tickets -> [made : Nat, told : Nat, value : BOOLEAN]] /\ tk_saves'[t] = save
       /\ \A u \in Tickets \ {t} : tk_saves'[u] = tk_saves[u]
    BY <1>1, <1>2, <1>3, <1>7 DEF TkTypes
<1>12. TkTypes'
    BY <1>1, <1>2, <1>9, <1>10, <1>11 DEF TkTypes
<1>13. \A u \in Tickets : /\ tk_rows'[u].messages = tk_rows[u].messages /\ tk_rows'[u].first = tk_rows[u].first
                          /\ tk_rows'[u].messages >= tk_rows[u].messages
                          /\ tk_rows'[u].stored = tk_rows[u].stored /\ tk_saves'[u].value = tk_saves[u].value
    BY <1>1, <1>2, <1>6, <1>7, <1>10, <1>11, RowNumbers
<1>14. \A o \in TkRequests : tk_requests'[o].kind \in {"new", "write"} => tk_requests'[o] = tk_requests[o]
    BY <1>5, <1>9
<1>15. NewRight'
    <2>1. Grows
        BY <1>13 DEF Grows
    <2>2. \A o \in TkRequests : tk_requests'[o].kind = "new" =>
              /\ tk_requests[o].kind = "new" /\ tk_requests'[o].ticket = Ticket(o)
              /\ tk_requests'[o].step = "message" <=> tk_requests[o].step = "message"
        BY <1>14 DEF Ticket
    <2> QED BY <1>2, <1>12, <2>1, <2>2, NewKept DEF TkInv
<1>16. WriteRight'
    BY <1>2, <1>12, <1>13, <1>14, WriteKept DEF TkInv
<1>17. SavesRight'
    <2>1. /\ \A u \in Tickets : /\ tk_saves[u].told <= tk_saves[u].made
                               /\ tk_saves[u].told = tk_saves[u].made => tk_rows[u].open = tk_saves[u].value \/ u \in tk_reverted
          /\ \A o \in TkRequests : tk_requests[o].kind = "status" /\ tk_requests[o].step = "post" =>
                /\ tk_requests[o].save <= tk_saves[Ticket(o)].made
                /\ tk_requests[o].save = tk_saves[Ticket(o)].made =>
                      tk_rows[Ticket(o)].open = tk_requests[o].open \/ Ticket(o) \in tk_reverted
        BY DEF TkInv, SavesRight
    <2>2. ASSUME NEW u \in Tickets
          PROVE  /\ tk_saves'[u].told <= tk_saves'[u].made
                 /\ tk_saves'[u].told = tk_saves'[u].made => tk_rows'[u].open = tk_saves'[u].value \/ u \in tk_reverted'
        <3>1. CASE u = t
            <4>1. tk_saves[t].told <= tk_saves[t].made
                BY <1>3 DEF TkInv, SavesRight
            <4>2. tk_saves[t].told < n /\ tk_saves[t].told <= n /\ tk_saves[t].told # n
                BY <4>1, <1>4
            <4> QED BY <3>1, <4>2, <1>7, <1>11
        <3>2. CASE u # t
            <4>1. tk_saves[u].told <= tk_saves[u].made
                BY DEF TkInv, SavesRight
            <4>2. tk_saves[u].told = tk_saves[u].made => tk_rows[u].open = tk_saves[u].value \/ u \in tk_reverted
                BY DEF TkInv, SavesRight
            <4> QED BY <3>2, <4>1, <4>2, <1>1, <1>10, <1>11
        <3> QED BY <3>1, <3>2
    <2>3. ASSUME NEW o \in TkRequests, tk_requests'[o].kind = "status", tk_requests'[o].step = "post"
          PROVE  /\ tk_requests'[o].save <= tk_saves'[tk_requests'[o].ticket].made
                 /\ tk_requests'[o].save = tk_saves'[tk_requests'[o].ticket].made =>
                       tk_rows'[tk_requests'[o].ticket].open = tk_requests'[o].open \/ tk_requests'[o].ticket \in tk_reverted'
        <3>1. CASE o = r
            <4>1. n <= n
                BY <1>4
            <4> QED BY <3>1, <4>1, <1>5, <1>6, <1>7, <1>9, <1>10, <1>11
        <3>2. CASE o # r
            <4>1. tk_requests'[o] = tk_requests[o]
                BY <3>2, <1>9
            <4>2. PICK u, k : u = tk_requests[o].ticket /\ k = tk_requests[o].save
                OBVIOUS
            <4>3. u \in Tickets /\ k \in Nat
                BY <4>1, <4>2, <2>3, <1>2, AskShape DEF TkTypes, LoadedAsks
            <4>4. k <= tk_saves[u].made /\ (k = tk_saves[u].made => tk_rows[u].open = tk_requests[o].open \/ u \in tk_reverted)
                BY <4>1, <4>2, <2>1, <2>3 DEF Ticket
            <4>5. CASE u = t
                <5>1. k <= n /\ k # n
                    BY <4>3, <4>4, <4>5, <1>4
                <5>2. tk_saves'[u].made = n
                    BY <4>5, <1>7, <1>11
                <5> QED BY <4>1, <4>2, <5>1, <5>2
            <4>6. CASE u # t
                BY <4>1, <4>2, <4>3, <4>4, <4>6, <1>1, <1>10, <1>11
            <4> QED BY <4>5, <4>6
        <3> QED BY <3>1, <3>2
    <2> QED BY <2>2, <2>3 DEF SavesRight, Ticket
<1>18. EventsRight'
    BY <1>1, <1>2, <1>12, <1>13, EventsKept DEF TkInv
<1>19. PagesRight'
    <2>1. \A o \in TkRequests : tk_requests[o].kind = "write" => tk_requests'[o] = tk_requests[o]
        BY <1>1, <1>9 DEF work
    <2> QED BY <1>1, <1>2, <1>13, <2>1, PagesKept DEF TkInv
<1> QED BY <1>1, <1>12, <1>15, <1>16, <1>17, <1>18, <1>19 DEF TkInv

\* So does the event of a change of the status.
LEMMA TellStatusKeeps ==
    ASSUME TkInv, NEW r \in TkRequests, TellStatus(r)
    PROVE  TkInv'
<1> DEFINE work == tk_requests[r]
           t == work.ticket
           event == [type |-> "ticket-status", ticket |-> t, value |-> work.open]
           save == [tk_saves[t] EXCEPT !.told = work.save, !.value = work.open]
<1>1. /\ work.kind = "status" /\ work.step = "post" /\ tk_requests' = [tk_requests EXCEPT ![r] = NoAsk]
      /\ tk_events' = Append(tk_events, event)
      /\ tk_saves' = [tk_saves EXCEPT ![t] = save]
      /\ tk_excused' = {p \in tk_excused : p \notin TicketPages(t)}
      /\ UNCHANGED <<tk_rows, tk_pages, tk_reverted, tk_failed>>
    BY DEF TellStatus, Answered, Tell
<1>2. TkTypes
    BY DEF TkInv
<1>3. work \in LoadedAsks /\ t \in Tickets /\ work.open \in BOOLEAN /\ work.save \in Nat
    BY <1>1, <1>2, AskShape DEF TkTypes, LoadedAsks
<1>4. event \in TkEvents /\ event.type = "ticket-status" /\ event.ticket = t /\ event.value = work.open
    BY <1>3 DEF TkEvents, StatusEvents
<1>5. save \in [made : Nat, told : Nat, value : BOOLEAN] /\ save.made = tk_saves[t].made /\ save.told = work.save
      /\ save.value = work.open
    <2> DEFINE old == tk_saves[t]
               k == work.save
               new == work.open
    <2>1. old \in [made : Nat, told : Nat, value : BOOLEAN] /\ k \in Nat /\ new \in BOOLEAN
          /\ save = [old EXCEPT !.told = k, !.value = new]
        BY <1>2, <1>3 DEF TkTypes
    <2> HIDE DEF old, save, k, new
    <2>2. save \in [made : Nat, told : Nat, value : BOOLEAN] /\ save.made = old.made /\ save.told = k
          /\ save.value = new
        BY <2>1
    <2> QED BY <2>2 DEF old, k, new
<1>6. t = Ticket(r)
    BY DEF Ticket
<1> HIDE DEF t, work, event, save
<1>7. NoAsk \in TkAsks /\ NoAsk.kind = "none"
    BY DEF TkAsks, NoAsk
<1>8. /\ tk_requests' \in [TkRequests -> TkAsks] /\ tk_requests'[r] = NoAsk
      /\ \A o \in TkRequests \ {r} : tk_requests'[o] = tk_requests[o]
    BY <1>1, <1>2, <1>7, TkAskTypes
<1>9. /\ tk_saves' \in [Tickets -> [made : Nat, told : Nat, value : BOOLEAN]] /\ tk_saves'[t] = save
      /\ \A u \in Tickets \ {t} : tk_saves'[u] = tk_saves[u]
    BY <1>1, <1>2, <1>3, <1>5 DEF TkTypes
<1>10. TkTypes'
    <2>1. tk_events' \in Seq(TkEvents)
        BY <1>1, <1>2, <1>4, TkEventTypes
    <2> QED BY <1>1, <1>2, <1>8, <1>9, <2>1 DEF TkTypes
<1>11. \A u \in Tickets : tk_rows'[u].messages >= tk_rows[u].messages
    BY <1>1, <1>2, RowNumbers
<1>12. \A o \in TkRequests : tk_requests'[o].kind # "none" => tk_requests'[o] = tk_requests[o]
    BY <1>7, <1>8
<1>13. NewRight'
    <2>1. Grows
        BY <1>1, <1>11 DEF Grows
    <2>2. \A o \in TkRequests : tk_requests'[o].kind = "new" =>
              /\ tk_requests[o].kind = "new" /\ tk_requests'[o].ticket = Ticket(o)
              /\ tk_requests'[o].step = "message" <=> tk_requests[o].step = "message"
        BY <1>12 DEF Ticket
    <2> QED BY <1>2, <1>10, <2>1, <2>2, NewKept DEF TkInv
<1>14. WriteRight'
    BY <1>2, <1>10, <1>11, <1>12, WriteKept DEF TkInv
<1>15. SavesRight'
    <2>1. /\ \A u \in Tickets : /\ tk_saves[u].told <= tk_saves[u].made
                               /\ tk_saves[u].told = tk_saves[u].made => tk_rows[u].open = tk_saves[u].value \/ u \in tk_reverted
          /\ \A o \in TkRequests : tk_requests[o].kind = "status" /\ tk_requests[o].step = "post" =>
                /\ tk_requests[o].save <= tk_saves[Ticket(o)].made
                /\ tk_requests[o].save = tk_saves[Ticket(o)].made =>
                      tk_rows[Ticket(o)].open = tk_requests[o].open \/ Ticket(o) \in tk_reverted
        BY DEF TkInv, SavesRight
    <2>2. ASSUME NEW u \in Tickets
          PROVE  /\ tk_saves'[u].told <= tk_saves'[u].made
                 /\ tk_saves'[u].told = tk_saves'[u].made => tk_rows'[u].open = tk_saves'[u].value \/ u \in tk_reverted'
        <3>1. CASE u = t
            <4>1. /\ work.save <= tk_saves[t].made
                  /\ work.save = tk_saves[t].made => tk_rows[t].open = work.open \/ t \in tk_reverted
                BY <2>1, <1>1, <1>6 DEF work
            <4> QED BY <3>1, <4>1, <1>1, <1>5, <1>9
        <3>2. CASE u # t
            <4>1. tk_saves[u].told <= tk_saves[u].made
                BY DEF TkInv, SavesRight
            <4>2. tk_saves[u].told = tk_saves[u].made => tk_rows[u].open = tk_saves[u].value \/ u \in tk_reverted
                BY DEF TkInv, SavesRight
            <4> QED BY <3>2, <4>1, <4>2, <1>1, <1>9
        <3> QED BY <3>1, <3>2
    <2>3. ASSUME NEW o \in TkRequests, tk_requests'[o].kind = "status", tk_requests'[o].step = "post"
          PROVE  /\ tk_requests'[o].save <= tk_saves'[tk_requests'[o].ticket].made
                 /\ tk_requests'[o].save = tk_saves'[tk_requests'[o].ticket].made =>
                       tk_rows'[tk_requests'[o].ticket].open = tk_requests'[o].open \/ tk_requests'[o].ticket \in tk_reverted'
        <3>1. tk_requests'[o] = tk_requests[o]
            BY <2>3, <1>12
        <3>2. PICK u : u = tk_requests[o].ticket
            OBVIOUS
        <3>3. u \in Tickets /\ tk_saves'[u].made = tk_saves[u].made
            <4>1. u \in Tickets
                BY <3>1, <3>2, <2>3, <1>2, AskShape DEF TkTypes, LoadedAsks
            <4> QED BY <4>1, <1>5, <1>9
        <3> QED BY <3>1, <3>2, <3>3, <2>1, <2>3, <1>1 DEF Ticket
    <2> QED BY <2>2, <2>3 DEF SavesRight, Ticket
<1>16. EventsRight'
    BY <1>1, <1>2, <1>4, <1>5, <1>9, <1>10, EventsTold DEF TkInv
<1>17. PagesRight'
    <2>1. \A o \in TkRequests : tk_requests[o].kind = "write" => tk_requests'[o] = tk_requests[o]
        BY <1>1, <1>8 DEF work
    <2> QED BY <1>1, <1>2, <1>4, <1>5, <1>9, <2>1, PagesTold DEF TkInv
<1> QED BY <1>1, <1>10, <1>13, <1>14, <1>15, <1>16, <1>17 DEF TkInv

\* So do notes, which save the row as it was loaded.
LEMMA SaveNotesKeeps ==
    ASSUME TkInv, NEW r \in TkRequests, SaveNotes(r)
    PROVE  TkInv'
<1> DEFINE work == tk_requests[r]
           t == work.ticket
           row == [tk_rows[t] EXCEPT !.open = work.row]
<1>1. /\ work.kind = "notes" /\ tk_requests' = [tk_requests EXCEPT ![r] = NoAsk]
      /\ tk_rows' = [tk_rows EXCEPT ![t] = row]
      /\ tk_reverted' = IF work.row # tk_rows[t].open THEN tk_reverted \cup {t} ELSE tk_reverted
      /\ UNCHANGED <<tk_events, tk_pages, tk_saves, tk_excused, tk_failed>>
    BY DEF SaveNotes, Answered
<1>2. TkTypes
    BY DEF TkInv
<1>3. work \in LoadedAsks /\ t \in Tickets /\ work.row \in BOOLEAN
    BY <1>1, <1>2, AskShape DEF TkTypes, LoadedAsks
<1>4. row \in TkRows /\ row.messages = tk_rows[t].messages /\ row.first = tk_rows[t].first
      /\ row.stored = tk_rows[t].stored /\ row.open = work.row
    <2> DEFINE old == tk_rows[t]
               new == work.row
    <2>1. old \in TkRows /\ new \in BOOLEAN /\ row = [old EXCEPT !.open = new]
        BY <1>2, <1>3 DEF TkTypes
    <2> HIDE DEF old, row, new
    <2>2. row \in TkRows /\ row.messages = old.messages /\ row.first = old.first
          /\ row.stored = old.stored /\ row.open = new
        BY <2>1 DEF TkRows
    <2> QED BY <2>2 DEF old, new
<1> HIDE DEF t, work, row
<1>6. NoAsk \in TkAsks /\ NoAsk.kind = "none"
    BY DEF TkAsks, NoAsk
<1>7. /\ tk_requests' \in [TkRequests -> TkAsks] /\ tk_requests'[r] = NoAsk
      /\ \A o \in TkRequests \ {r} : tk_requests'[o] = tk_requests[o]
    BY <1>1, <1>2, <1>6, TkAskTypes
<1>8. /\ tk_rows' \in [Tickets -> TkRows] /\ tk_rows'[t] = row
      /\ \A u \in Tickets \ {t} : tk_rows'[u] = tk_rows[u]
    BY <1>1, <1>2, <1>3, <1>4, TkRowTypes
<1>9. TkTypes'
    BY <1>1, <1>2, <1>7, <1>8 DEF TkTypes
<1>10. \A u \in Tickets : /\ tk_rows'[u].messages = tk_rows[u].messages /\ tk_rows'[u].first = tk_rows[u].first
                          /\ tk_rows'[u].messages >= tk_rows[u].messages
                          /\ tk_rows'[u].stored = tk_rows[u].stored /\ tk_saves'[u].value = tk_saves[u].value
    BY <1>1, <1>2, <1>4, <1>8, RowNumbers
<1>11. \A o \in TkRequests : tk_requests'[o].kind # "none" => tk_requests'[o] = tk_requests[o]
    BY <1>6, <1>7
<1>12. NewRight'
    <2>1. Grows
        BY <1>10 DEF Grows
    <2>2. \A o \in TkRequests : tk_requests'[o].kind = "new" =>
              /\ tk_requests[o].kind = "new" /\ tk_requests'[o].ticket = Ticket(o)
              /\ tk_requests'[o].step = "message" <=> tk_requests[o].step = "message"
        BY <1>11 DEF Ticket
    <2> QED BY <1>2, <1>9, <2>1, <2>2, NewKept DEF TkInv
<1>13. WriteRight'
    BY <1>2, <1>9, <1>10, <1>11, WriteKept DEF TkInv
<1>14. SavesRight'
    <2>1. \A u \in Tickets : (tk_rows'[u].open = tk_rows[u].open /\ (u \in tk_reverted => u \in tk_reverted')) \/ u \in tk_reverted'
        BY <1>1, <1>4, <1>8
    <2>2. /\ \A u \in Tickets : /\ tk_saves[u].told <= tk_saves[u].made
                               /\ tk_saves[u].told = tk_saves[u].made => tk_rows[u].open = tk_saves[u].value \/ u \in tk_reverted
          /\ \A o \in TkRequests : tk_requests[o].kind = "status" /\ tk_requests[o].step = "post" =>
                /\ tk_requests[o].save <= tk_saves[Ticket(o)].made
                /\ tk_requests[o].save = tk_saves[Ticket(o)].made =>
                      tk_rows[Ticket(o)].open = tk_requests[o].open \/ Ticket(o) \in tk_reverted
        BY DEF TkInv, SavesRight
    <2>3. \A u \in Tickets : /\ tk_saves'[u].told <= tk_saves'[u].made
                             /\ tk_saves'[u].told = tk_saves'[u].made => tk_rows'[u].open = tk_saves'[u].value \/ u \in tk_reverted'
        <3> TAKE u \in Tickets
        <3>1. tk_saves[u].told <= tk_saves[u].made
            BY DEF TkInv, SavesRight
        <3>2. tk_saves[u].told = tk_saves[u].made => tk_rows[u].open = tk_saves[u].value \/ u \in tk_reverted
            BY DEF TkInv, SavesRight
        <3>3. tk_saves' = tk_saves
            BY <1>1
        <3>4. tk_saves'[u].told <= tk_saves'[u].made
            BY <3>1, <3>3
        <3>5. tk_saves'[u].told = tk_saves'[u].made => tk_rows'[u].open = tk_saves'[u].value \/ u \in tk_reverted'
            BY <3>2, <3>3, <2>1
        <3> QED BY <3>4, <3>5
    <2>4. ASSUME NEW o \in TkRequests, tk_requests'[o].kind = "status", tk_requests'[o].step = "post"
          PROVE  /\ tk_requests'[o].save <= tk_saves'[tk_requests'[o].ticket].made
                 /\ tk_requests'[o].save = tk_saves'[tk_requests'[o].ticket].made =>
                       tk_rows'[tk_requests'[o].ticket].open = tk_requests'[o].open \/ tk_requests'[o].ticket \in tk_reverted'
        <3>1. tk_requests'[o] = tk_requests[o]
            BY <2>4, <1>11
        <3>2. PICK u : u = tk_requests[o].ticket
            OBVIOUS
        <3>3. u \in Tickets
            BY <3>1, <3>2, <2>4, <1>2, AskShape DEF TkTypes, LoadedAsks
        <3>4. (tk_rows'[u].open = tk_rows[u].open /\ (u \in tk_reverted => u \in tk_reverted')) \/ u \in tk_reverted'
            BY <2>1, <3>3
        <3> QED BY <3>1, <3>2, <3>4, <2>2, <2>4, <1>1 DEF Ticket
    <2> QED BY <2>3, <2>4 DEF SavesRight, Ticket
<1>15. EventsRight'
    BY <1>1, <1>2, <1>9, <1>10, EventsKept DEF TkInv
<1>16. PagesRight'
    <2>1. \A o \in TkRequests : tk_requests[o].kind = "write" => tk_requests'[o] = tk_requests[o]
        BY <1>1, <1>7 DEF work
    <2> QED BY <1>1, <1>2, <1>10, <2>1, PagesKept DEF TkInv
<1> QED BY <1>1, <1>9, <1>12, <1>13, <1>14, <1>15, <1>16 DEF TkInv

-----------------------------------------------------------------------------
(* The steps of a page.                                                    *)

\* What a page may show, with the rows, requests and events of now.
Fits(q, excused) ==
    /\ q.at \in {"rendering", "open"} =>
          /\ q.last <= Len(tk_events)
          /\ ~excused /\ ~StatusAfter(q.last, q.ticket) => q.open = tk_saves[q.ticket].value
    /\ q.at = "open" =>
          /\ ~q.early => tk_rows[q.ticket].first # 0
          /\ \A i \in (1 .. tk_rows[q.ticket].messages) \ q.messages :
                ToCome(q.last, q.ticket, i) \/ (q.early /\ tk_rows[q.ticket].first = i)

\* A step of one page changes nothing else.
LEMMA PageStepKeeps ==
    ASSUME TkInv, NEW p \in TkPages, NEW q \in MadePages, Fits(q, p \in tk_excused'),
           tk_pages' = [tk_pages EXCEPT ![p] = q],
           \A o \in TkPages \ {p} : o \in tk_excused' <=> o \in tk_excused,
           ~tk_failed', UNCHANGED <<tk_rows, tk_requests, tk_events, tk_saves, tk_reverted>>
    PROVE  TkInv'
<1>1. TkTypes
    BY DEF TkInv
<1>2. tk_pages'[p] = q /\ \A o \in TkPages \ {p} : tk_pages'[o] = tk_pages[o]
    BY <1>1 DEF TkTypes
<1>3. TkTypes'
    <2>1. tk_pages' \in [TkPages -> {[at |-> "none"]} \cup MadePages]
        BY <1>1 DEF TkTypes
    <2> QED BY <1>1, <2>1 DEF TkTypes
<1>4. NewRight' /\ WriteRight' /\ SavesRight' /\ ~tk_failed'
    BY DEF TkInv, NewRight, WriteRight, SavesRight, Ticket
<1>5. EventsRight'
    BY DEF TkInv, EventsRight, StatusAfter, IsStatus
<1>6. PagesRight'
    <2> SUFFICES ASSUME NEW o \in TkPages PROVE PageRight(o)'
        BY DEF PagesRight
    <2>1. PICK f : f = tk_pages'[o]
        OBVIOUS
    <2>2. Fits(f, o \in tk_excused')
        <3>1. CASE o = p
            BY <3>1, <1>2, <2>1
        <3>2. CASE o # p
            <4>1. PageRight(o) /\ f = tk_pages[o] /\ (o \in tk_excused' <=> o \in tk_excused)
                BY <3>2, <1>2, <2>1 DEF TkInv, PagesRight
            <4> QED BY <4>1 DEF PageRight, Fits
        <3> QED BY <3>1, <3>2
    <2>3. StatusAfter(f.last, f.ticket)' <=> StatusAfter(f.last, f.ticket)
        BY DEF StatusAfter, IsStatus
    <2>4. \A i : ToCome(f.last, f.ticket, i)' <=> ToCome(f.last, f.ticket, i)
        BY DEF ToCome, Ticket
    <2> QED BY <2>1, <2>2, <2>3, <2>4 DEF PageRight, Fits
<1> QED BY <1>3, <1>4, <1>5, <1>6 DEF TkInv

\* So does a page that starts to open.
LEMMA OpenTicketKeeps ==
    ASSUME TkInv, NEW p \in TkPages, NEW t \in Tickets, OpenTicket(p, t)
    PROVE  TkInv'
<1> DEFINE q == [at |-> "loaded", ticket |-> t, open |-> tk_rows[t].open, messages |-> {}, last |-> 0, early |-> FALSE]
<1>1. TkTypes
    BY DEF TkInv
<1>2. q \in MadePages /\ q.at = "loaded"
    BY <1>1, RowNumbers DEF MadePages
<1>3. tk_pages' = [tk_pages EXCEPT ![p] = q]
      /\ UNCHANGED <<tk_rows, tk_requests, tk_events, tk_saves, tk_reverted, tk_excused, tk_failed>>
    BY DEF OpenTicket, TkPage
<1> HIDE DEF q
<1>4. Fits(q, p \in tk_excused')
    BY <1>2 DEF Fits
<1>5. ~tk_failed'
    BY <1>3 DEF TkInv
<1> QED BY <1>2, <1>3, <1>4, <1>5, PageStepKeeps

\* So does the number of the last event, which the page reads before the rows.
LEMMA LastEventKeeps ==
    ASSUME TkInv, NEW p \in TkPages, LastEvent(p)
    PROVE  TkInv'
<1> DEFINE old == tk_pages[p]
           n == Len(tk_events)
           q == [old EXCEPT !.at = "rendering", !.last = n]
<1>1. TkTypes
    BY DEF TkInv
<1>2. old.at = "loaded" /\ old \in MadePages /\ n \in Nat
    BY <1>1, PageShape DEF LastEvent, TkTypes
<1>3. /\ tk_pages' = [tk_pages EXCEPT ![p] = q]
      /\ tk_excused' = IF tk_saves[old.ticket].value # old.open THEN tk_excused \cup {p} ELSE tk_excused
      /\ UNCHANGED <<tk_rows, tk_requests, tk_events, tk_saves, tk_reverted, tk_failed>>
    BY DEF LastEvent, TkPage
<1>4. n = Len(tk_events)
    OBVIOUS
<1> HIDE DEF n, old
<1>5. q \in MadePages /\ q.at = "rendering" /\ q.last = n /\ q.ticket = old.ticket /\ q.open = old.open
    BY <1>2 DEF MadePages
<1> HIDE DEF q
<1>6. Fits(q, p \in tk_excused')
    <2>1. q.last <= Len(tk_events)
        BY <1>2, <1>4, <1>5
    <2>2. p \notin tk_excused' => q.open = tk_saves[q.ticket].value
        BY <1>3, <1>5
    <2> QED BY <1>5, <2>1, <2>2 DEF Fits
<1>7. \A o \in TkPages \ {p} : o \in tk_excused' <=> o \in tk_excused
    BY <1>3
<1>8. ~tk_failed'
    BY <1>3 DEF TkInv
<1> QED BY <1>3, <1>5, <1>6, <1>7, <1>8, PageStepKeeps

\* So does the page with the rows it shows.
LEMMA RenderKeeps ==
    ASSUME TkInv, NEW p \in TkPages, Render(p)
    PROVE  TkInv'
<1> DEFINE old == tk_pages[p]
           n == tk_rows[old.ticket].messages
           early == tk_rows[old.ticket].first = 0
           shown == 1 .. n
           q == [old EXCEPT !.at = "open", !.messages = shown, !.early = early]
<1>1. TkTypes
    BY DEF TkInv
<1>2. old.at = "rendering" /\ old \in MadePages
    BY <1>1, PageShape DEF Render, TkTypes
<1>3. old.ticket \in Tickets
    BY <1>2 DEF MadePages
<1>4. n \in Nat /\ shown \in SUBSET Nat
    BY <1>1, <1>3, RowNumbers
<1>5. early \in BOOLEAN /\ (early <=> tk_rows[old.ticket].first = 0)
    OBVIOUS
<1>6. /\ tk_pages' = [tk_pages EXCEPT ![p] = q]
      /\ UNCHANGED <<tk_rows, tk_requests, tk_events, tk_saves, tk_reverted, tk_excused, tk_failed>>
    BY DEF Render, TkPage
<1>7. /\ old.last <= Len(tk_events)
      /\ p \notin tk_excused /\ ~StatusAfter(old.last, old.ticket) => old.open = tk_saves[old.ticket].value
    BY <1>2 DEF TkInv, PagesRight, PageRight
<1>8. shown = 1 .. tk_rows[old.ticket].messages
    OBVIOUS
<1> HIDE DEF n, old, early, shown
<1>9. q \in MadePages /\ q.at = "open" /\ q.last = old.last /\ q.ticket = old.ticket /\ q.open = old.open
      /\ q.messages = shown /\ q.early = early
    BY <1>2, <1>4, <1>5 DEF MadePages
<1> HIDE DEF q
<1>10. Fits(q, p \in tk_excused')
    <2>1. q.last <= Len(tk_events)
        BY <1>7, <1>9
    <2>2. p \notin tk_excused' /\ ~StatusAfter(q.last, q.ticket) => q.open = tk_saves[q.ticket].value
        BY <1>6, <1>7, <1>9
    <2>3. ~q.early => tk_rows[q.ticket].first # 0
        BY <1>5, <1>9
    <2>4. \A i \in (1 .. tk_rows[q.ticket].messages) \ q.messages : FALSE
        BY <1>8, <1>9
    <2> QED BY <2>1, <2>2, <2>3, <2>4 DEF Fits
<1>11. ~tk_failed'
    BY <1>6 DEF TkInv
<1> QED BY <1>6, <1>9, <1>10, <1>11, PageStepKeeps

\* So does an event that a page receives and fetches the rows for.
LEMMA ReceiveEventKeeps ==
    ASSUME TkInv, NEW p \in TkPages, ReceiveEvent(p)
    PROVE  TkInv'
<1> DEFINE old == tk_pages[p]
           n == old.last + 1
           event == tk_events[n]
           own == event.ticket = old.ticket
           open == IF own /\ event.type = "ticket-status" THEN event.value ELSE old.open
           shown == IF own /\ event.type = "ticket-message" THEN old.messages \cup {event.value} ELSE old.messages
           q == [old EXCEPT !.last = n, !.open = open, !.messages = shown]
<1>1. TkTypes
    BY DEF TkInv
<1>2. old.at = "open" /\ old \in MadePages /\ old.last < Len(tk_events) /\ old.last \in Nat
    BY <1>1, PageShape DEF ReceiveEvent, TkTypes, MadePages
<1>3. n \in 1 .. Len(tk_events) /\ n \in Nat /\ n = old.last + 1 /\ Len(tk_events) \in Nat
    BY <1>1, <1>2 DEF TkTypes
<1>4. event \in TkEvents /\ event = tk_events[n] /\ event.ticket \in Tickets
      /\ (event.type = "ticket-status" => event.value \in BOOLEAN)
      /\ (event.type # "ticket-status" => event.value \in Nat)
    BY <1>1, <1>3, EventShape DEF TkTypes
<1>5. /\ tk_pages' = [tk_pages EXCEPT ![p] = q]
      /\ tk_failed' = (tk_failed \/ (event.type # "ticket-status" /\ event.value \notin 1 .. tk_rows[event.ticket].messages))
      /\ UNCHANGED <<tk_rows, tk_requests, tk_events, tk_saves, tk_reverted, tk_excused>>
    BY DEF ReceiveEvent, TkPage
<1>6. /\ event.type # "ticket-status" => event.value \in 1 .. tk_rows[event.ticket].messages
      /\ event.type = "ticket-status" /\ ~StatusAfter(n, event.ticket) => event.value = tk_saves[event.ticket].value
    BY <1>3 DEF TkInv, EventsRight
<1>7. /\ p \notin tk_excused /\ ~StatusAfter(old.last, old.ticket) => old.open = tk_saves[old.ticket].value
      /\ ~old.early => tk_rows[old.ticket].first # 0
      /\ \A i \in (1 .. tk_rows[old.ticket].messages) \ old.messages :
            ToCome(old.last, old.ticket, i) \/ (old.early /\ tk_rows[old.ticket].first = i)
    BY <1>2 DEF TkInv, PagesRight, PageRight
<1>8. old.ticket \in Tickets /\ old.open \in BOOLEAN /\ old.messages \in SUBSET Nat
    BY <1>2 DEF MadePages
<1>9. open \in BOOLEAN /\ shown \in SUBSET Nat
    BY <1>4, <1>8
<1>10. /\ own <=> event.ticket = old.ticket
       /\ own /\ event.type = "ticket-status" => open = event.value
       /\ ~(own /\ event.type = "ticket-status") => open = old.open
       /\ old.messages \subseteq shown
       /\ own /\ event.type = "ticket-message" => event.value \in shown
    OBVIOUS
<1> HIDE DEF n, old, event, own, open, shown
<1>11. q \in MadePages /\ q.at = "open" /\ q.last = n /\ q.ticket = old.ticket /\ q.open = open
      /\ q.messages = shown /\ q.early = old.early
    BY <1>2, <1>3, <1>9 DEF MadePages
<1> HIDE DEF q
<1>12. n + 1 .. Len(tk_events) \subseteq n .. Len(tk_events) /\ n .. Len(tk_events) = {n} \cup (n + 1 .. Len(tk_events))
       /\ old.last + 1 .. Len(tk_events) = n .. Len(tk_events)
    BY <1>2, <1>3
<1>13. Fits(q, p \in tk_excused')
    <2>1. q.last <= Len(tk_events)
        BY <1>3, <1>11
    <2>2. ASSUME p \notin tk_excused', ~StatusAfter(q.last, q.ticket)
          PROVE  q.open = tk_saves[q.ticket].value
        <3>1. p \notin tk_excused /\ ~StatusAfter(n, old.ticket)
            BY <2>2, <1>5, <1>11
        <3>2. CASE own /\ event.type = "ticket-status"
            BY <3>1, <3>2, <1>6, <1>10, <1>11
        <3>3. CASE ~(own /\ event.type = "ticket-status")
            <4>1. ~StatusAfter(old.last, old.ticket)
                BY <3>1, <3>3, <1>4, <1>10, <1>12 DEF StatusAfter, IsStatus
            <4> QED BY <3>1, <3>3, <4>1, <1>7, <1>10, <1>11
        <3> QED BY <3>2, <3>3
    <2>3. ~q.early => tk_rows[q.ticket].first # 0
        BY <1>7, <1>11
    <2>4. ASSUME NEW i \in (1 .. tk_rows[q.ticket].messages) \ q.messages
          PROVE  ToCome(q.last, q.ticket, i) \/ (q.early /\ tk_rows[q.ticket].first = i)
        <3>1. ToCome(old.last, old.ticket, i) \/ (old.early /\ tk_rows[old.ticket].first = i)
            BY <2>4, <1>7, <1>10, <1>11
        <3>2. ASSUME ToCome(old.last, old.ticket, i)
              PROVE  ToCome(n, old.ticket, i)
            <4>1. ~(event.type = "ticket-message" /\ event.ticket = old.ticket /\ event.value = i)
                BY <2>4, <1>10, <1>11
            <4> QED BY <3>2, <4>1, <1>4, <1>12 DEF ToCome
        <3> QED BY <3>1, <3>2, <1>11
    <2> QED BY <2>1, <2>2, <2>3, <2>4 DEF Fits
<1>14. ~tk_failed'
    BY <1>5, <1>6 DEF TkInv
<1> QED BY <1>5, <1>11, <1>13, <1>14, PageStepKeeps

-----------------------------------------------------------------------------

\* Every step of the requests and pages keeps the invariant.
THEOREM TkStepInv == TkInv /\ [TkNext]_tkvars => TkInv'
<1> SUFFICES ASSUME TkInv, [TkNext]_tkvars PROVE TkInv'
    OBVIOUS
<1>1. ASSUME NEW r \in TkRequests,
             FirstMessage(r) \/ Assign(r) \/ TellNew(r) \/ TellWritten(r) \/ SaveStatus(r) \/ TellStatus(r) \/ SaveNotes(r)
      PROVE  TkInv'
    BY <1>1, FirstMessageKeeps, AssignKeeps, TellNewKeeps, TellWrittenKeeps, SaveStatusKeeps, TellStatusKeeps, SaveNotesKeeps
<1>2. ASSUME NEW r \in TkRequests, NEW t \in Tickets, Write(r, t)
      PROVE  TkInv'
    BY <1>2, WriteKeeps
<1>3. ASSUME NEW r \in TkRequests, NEW t \in Tickets, LoadNotes(r, t)
      PROVE  TkInv'
    <2>1. tk_rows[t].open \in BOOLEAN
        BY RowNumbers DEF TkInv
    <2> QED BY <1>3, <2>1, LoadTicketKeeps DEF LoadNotes
<1>4. ASSUME NEW r \in TkRequests, NEW t \in Tickets, NEW open \in BOOLEAN, LoadStatus(r, t, open)
      PROVE  TkInv'
    BY <1>4, LoadTicketKeeps DEF LoadStatus
<1>5. ASSUME NEW r \in TkRequests, NEW t \in Tickets, NEW assignees \in {"problem", "contest"}, NewTicket(r, t, assignees)
      PROVE  TkInv'
    BY <1>5, NewTicketKeeps
<1>6. ASSUME NEW p \in TkPages, LastEvent(p) \/ Render(p) \/ ReceiveEvent(p)
      PROVE  TkInv'
    BY <1>6, LastEventKeeps, RenderKeeps, ReceiveEventKeeps
<1>7. ASSUME NEW p \in TkPages, NEW t \in Tickets, OpenTicket(p, t)
      PROVE  TkInv'
    BY <1>7, OpenTicketKeeps
<1>8. CASE UNCHANGED tkvars
    BY <1>8 DEF TkInv, TkTypes, NewRight, WriteRight, SavesRight, EventsRight, PagesRight, PageRight, StatusAfter, IsStatus,
                ToCome, Ticket, tkvars
<1> QED BY <1>1, <1>2, <1>3, <1>4, <1>5, <1>6, <1>7, <1>8 DEF TkNext

\* The invariant says what is asked of tickets.
THEOREM TkInvHolds == TkInv => TicketsHold
<1> SUFFICES ASSUME TkInv PROVE TicketsHold
    OBVIOUS
<1>1. EventsNameStored
    BY DEF TkInv, EventsNameStored
<1>2. ChangesStay
    BY DEF TkInv, SavesRight, ChangesStay
<1>3. TicketPagesFollow
    <2> SUFFICES ASSUME NEW p \in TkPages, tk_pages[p].at = "open", tk_pages[p].last = Len(tk_events)
                 PROVE  LET q == tk_pages[p]  t == q.ticket IN
                        /\ ~Announcing(t) /\ tk_saves[t].told = tk_saves[t].made /\ t \notin tk_reverted /\ p \notin tk_excused
                           => q.open = tk_rows[t].open
                        /\ \A i \in (1 .. tk_rows[t].messages) \ q.messages :
                              \/ q.early /\ tk_rows[t].first = i
                              \/ \E r \in TkRequests : tk_requests[r].kind = "write" /\ tk_requests[r].ticket = t /\ tk_requests[r].message = i
        BY DEF TicketPagesFollow
    <2> DEFINE q == tk_pages[p]
               t == q.ticket
    <2>1. TkTypes
        BY DEF TkInv
    <2>2. q \in MadePages /\ t \in Tickets
        BY <2>1, PageShape DEF TkTypes, MadePages
    <2>3. PageRight(p)
        BY DEF TkInv, PagesRight
    <2>4. Len(tk_events) + 1 .. Len(tk_events) = {}
        <3>1. Len(tk_events) \in Nat
            BY <2>1 DEF TkTypes
        <3> QED BY <3>1
    <2>5. ~StatusAfter(q.last, t)
        BY <2>4 DEF StatusAfter
    <2>6. p \notin tk_excused => q.open = tk_saves[t].value
        BY <2>3, <2>5 DEF PageRight
    <2>7. tk_saves[t].told = tk_saves[t].made => tk_rows[t].open = tk_saves[t].value \/ t \in tk_reverted
        BY <2>2 DEF TkInv, SavesRight
    <2>8. ASSUME NEW i \in (1 .. tk_rows[t].messages) \ q.messages
          PROVE  \/ q.early /\ tk_rows[t].first = i
                 \/ \E r \in TkRequests : tk_requests[r].kind = "write" /\ tk_requests[r].ticket = t /\ tk_requests[r].message = i
        <3>1. ToCome(q.last, t, i) \/ (q.early /\ tk_rows[t].first = i)
            BY <2>3 DEF PageRight
        <3>2. ToCome(q.last, t, i) => \E r \in TkRequests : tk_requests[r].kind = "write" /\ tk_requests[r].ticket = t /\ tk_requests[r].message = i
            BY <2>4 DEF ToCome, Ticket
        <3> QED BY <3>1, <3>2
    <2> QED BY <2>6, <2>7, <2>8
<1> QED BY <1>1, <1>2, <1>3 DEF TicketsHold

\* Tickets have their first message and are announced, and an open page shows what is stored but
\* for what is still to come to it, for any number of tickets, requests and pages
\* (judge/views/ticket.py).
THEOREM TicketsCorrect == TkSpec => []TicketsHold
<1>1. TkInit => TkInv
    BY TkInitInv
<1>2. TkInv /\ [TkNext]_tkvars => TkInv'
    BY TkStepInv
<1>3. TkInv => TicketsHold
    BY TkInvHolds
<1> QED BY <1>1, <1>2, <1>3, PTL DEF TkSpec

-----------------------------------------------------------------------------
(* Test data.                                                              *)
(* One pass over the cases.                                                *)

Listed(cases) ==
    /\ cases = [i \in 1 .. Len(cases) |-> cases[i]] /\ Len(cases) \in Nat
    /\ \A i \in 1 .. Len(cases) : cases[i].type \in {"C", "S", "E"} /\ cases[i].points \in BOOLEAN

Begun == [done |-> <<>>, open |-> FALSE, batch |-> <<>>, error |-> FALSE]

Passes(cases, files, n, pass) ==
    pass = [m \in 0 .. n |-> IF m = 0 THEN Begun ELSE Taken(pass[m - 1], cases[m], m, files)]

\* The pass over the cases is a function: there is one for any number of rows.
LEMMA PassExists ==
    ASSUME NEW cases, NEW files
    PROVE  \A n \in Nat : \E pass : Passes(cases, files, n, pass)
<1> DEFINE Bad == {n \in Nat : ~ \E pass : Passes(cases, files, n, pass)}
<1> SUFFICES ASSUME Bad # {} PROVE FALSE
    OBVIOUS
<1>1. PICK n \in Bad : \A m \in Bad : m >= n
    <2>1. Bad \in SUBSET Nat
        OBVIOUS
    <2> HIDE DEF Bad
    <2> QED BY <2>1, SmallestNat
<1>2. n # 0
    <2>1. Passes(cases, files, 0, [m \in 0 .. 0 |-> Begun])
        BY DEF Passes
    <2> QED BY <2>1
<1>3. n - 1 \in Nat /\ ~(n - 1 >= n) /\ n \in Nat
    BY <1>2
<1>4. PICK low : Passes(cases, files, n - 1, low)
    BY <1>1, <1>3
<1> DEFINE pass == [m \in 0 .. n |-> IF m = n THEN Taken(low[n - 1], cases[n], n, files) ELSE low[m]]
<1>5. Passes(cases, files, n, pass)
    <2>1. \A m \in 0 .. n : pass[m] = IF m = 0 THEN Begun ELSE Taken(pass[m - 1], cases[m], m, files)
        <3> SUFFICES ASSUME NEW m \in 0 .. n PROVE pass[m] = IF m = 0 THEN Begun ELSE Taken(pass[m - 1], cases[m], m, files)
            OBVIOUS
        <3>1. CASE m = 0
            BY <3>1, <1>2, <1>3, <1>4 DEF Passes
        <3>2. CASE m # 0
            <4>1. m - 1 \in 0 .. n /\ m - 1 # n /\ m \in 1 .. n
                BY <3>2, <1>3
            <4>2. pass[m - 1] = low[m - 1]
                BY <4>1
            <4>3. CASE m = n
                BY <4>2, <4>3, <3>2
            <4>4. CASE m # n
                <5>1. m \in 0 .. n - 1
                    BY <4>1, <4>4, <1>3
                <5>2. low[m] = Taken(low[m - 1], cases[m], m, files)
                    BY <5>1, <3>2, <1>4 DEF Passes
                <5> QED BY <5>2, <4>2, <4>4, <3>2
            <4> QED BY <4>3, <4>4
        <3> QED BY <3>1, <3>2
    <2> HIDE DEF pass
    <2>2. pass = [m \in 0 .. n |-> pass[m]]
        BY DEF pass
    <2> QED BY <2>1, <2>2 DEF Passes
<1> HIDE DEF pass
<1> QED BY <1>5, <1>3

\* What the pass ends with.
LEMMA CompiledUnfold ==
    ASSUME NEW cases, NEW files, Listed(cases)
    PROVE  \E pass : /\ pass[0] = Begun
                     /\ \A m \in 1 .. Len(cases) : pass[m] = Taken(pass[m - 1], cases[m], m, files)
                     /\ Compiled(cases, files) = IF pass[Len(cases)].open /\ ~pass[Len(cases)].error
                                                 THEN Closed(pass[Len(cases)]) ELSE pass[Len(cases)]
<1> DEFINE pass == CHOOSE pass : Passes(cases, files, Len(cases), pass)
<1>1. Len(cases) \in Nat
    BY DEF Listed
<1>2. Passes(cases, files, Len(cases), pass)
    BY <1>1, PassExists
<1>3. Compiled(cases, files) = IF pass[Len(cases)].open /\ ~pass[Len(cases)].error
                               THEN Closed(pass[Len(cases)]) ELSE pass[Len(cases)]
    BY DEF Compiled, Passes, Begun
<1> HIDE DEF pass
<1>4. pass[0] = Begun
    BY <1>1, <1>2 DEF Passes
<1>5. ASSUME NEW m \in 1 .. Len(cases)
      PROVE  pass[m] = Taken(pass[m - 1], cases[m], m, files)
    <2>1. m \in 0 .. Len(cases) /\ m # 0
        BY <1>1
    <2> QED BY <2>1, <1>2 DEF Passes
<1> QED BY <1>3, <1>4, <1>5

-----------------------------------------------------------------------------
(* The batches there are after n cases.                                    *)

IsCase(cases, i) == cases[i].type = "C"

\* List b has case i.
Has(lists, b, i) == \E k \in DOMAIN lists[b] : lists[b][k] = i

Members(cases, n, lists) ==
    \A b \in DOMAIN lists : \A k \in DOMAIN lists[b] : lists[b][k] \in 1 .. n /\ IsCase(cases, lists[b][k])
Covers(cases, n, lists) == \A i \in 1 .. n : IsCase(cases, i) => \E b \in DOMAIN lists : Has(lists, b, i)
Ordered(lists) ==
    \A b, c \in DOMAIN lists : \A k \in DOMAIN lists[b], l \in DOMAIN lists[c] :
        b < c \/ (b = c /\ k < l) => lists[b][k] < lists[c][l]
Shares(cases, n, lists) ==
    \A i \in 1 .. n - 1 : IsCase(cases, i) /\ IsCase(cases, i + 1) =>
        (InBatch(cases, i) <=> \E b \in DOMAIN lists : Has(lists, b, i) /\ Has(lists, b, i + 1))

Lists(cases, n, lists) == Members(cases, n, lists) /\ Covers(cases, n, lists) /\ Ordered(lists) /\ Shares(cases, n, lists)

\* The last list gets case n.
LEMMA AddCase ==
    ASSUME NEW cases, NEW n \in Nat \ {0}, IsCase(cases, n),
           NEW w \in Seq(Seq(Nat)), NEW x \in Seq(Seq(Nat)), NEW m \in Nat \ {0}, Len(w) = m, Len(x) = m,
           \A b \in 1 .. m - 1 : x[b] = w[b],
           Len(x[m]) = Len(w[m]) + 1, \A k \in 1 .. Len(w[m]) : x[m][k] = w[m][k], x[m][Len(w[m]) + 1] = n,
           Lists(cases, n - 1, w),
           n > 1 /\ IsCase(cases, n - 1) => (InBatch(cases, n - 1) <=> Has(w, m, n - 1))
    PROVE  Lists(cases, n, x)
<1>1. /\ DOMAIN w = 1 .. m /\ DOMAIN x = 1 .. m /\ m \in DOMAIN w
      /\ \A b \in 1 .. m : w[b] \in Seq(Nat) /\ x[b] \in Seq(Nat)
    OBVIOUS
<1> DEFINE l == Len(w[m])
<1>2. l \in Nat /\ DOMAIN w[m] = 1 .. l /\ DOMAIN x[m] = 1 .. l + 1
    BY <1>1
<1>3. /\ x[m][l + 1] = n
      /\ \A k \in 1 .. l : x[m][k] = w[m][k]
    OBVIOUS
<1> HIDE DEF l
<1>4. \A b \in 1 .. m : b # m => x[b] = w[b]
    <2>1. \A b \in 1 .. m : b # m => b \in 1 .. m - 1
        OBVIOUS
    <2> QED BY <2>1
<1>5. \A k \in 1 .. l + 1 : k = l + 1 \/ k \in 1 .. l
    BY <1>2
<1>6. \A b \in 1 .. m : \A i : i # n => (Has(x, b, i) <=> Has(w, b, i))
    <2> SUFFICES ASSUME NEW b \in 1 .. m, NEW i, i # n PROVE Has(x, b, i) <=> Has(w, b, i)
        OBVIOUS
    <2>1. CASE b = m
        <3>1. Has(w, m, i) => Has(x, m, i)
            <4>1. \A k \in 1 .. l : k \in 1 .. l + 1
                BY <1>2
            <4> QED BY <4>1, <1>2, <1>3 DEF Has
        <3>2. Has(x, m, i) => Has(w, m, i)
            BY <1>2, <1>3, <1>5 DEF Has
        <3> QED BY <2>1, <3>1, <3>2
    <2>2. CASE b # m
        BY <2>2, <1>4 DEF Has
    <2> QED BY <2>1, <2>2
<1>7. \A b \in 1 .. m : ~Has(w, b, n)
    <2>1. n \notin 1 .. n - 1
        OBVIOUS
    <2> QED BY <1>1, <2>1 DEF Lists, Members, Has
<1>8. Has(x, m, n)
    <2>1. l + 1 \in DOMAIN x[m]
        BY <1>2
    <2> QED BY <2>1, <1>3 DEF Has
<1>9. \A b \in 1 .. m : Has(x, b, n) => b = m
    BY <1>4, <1>7 DEF Has
<1>10. Members(cases, n, x)
    <2> SUFFICES ASSUME NEW b \in 1 .. m, NEW k \in DOMAIN x[b]
                 PROVE  x[b][k] \in 1 .. n /\ IsCase(cases, x[b][k])
        BY <1>1 DEF Members
    <2>1. \A i \in 1 .. n - 1 : i \in 1 .. n
        OBVIOUS
    <2>2. n \in 1 .. n
        OBVIOUS
    <2>3. Has(x, b, x[b][k])
        BY DEF Has
    <2>4. CASE x[b][k] = n
        BY <2>2, <2>4
    <2>5. CASE x[b][k] # n
        <3>1. Has(w, b, x[b][k])
            BY <2>3, <2>5, <1>6
        <3> QED BY <3>1, <2>1, <1>1 DEF Lists, Members, Has
    <2> QED BY <2>4, <2>5
<1>11. Covers(cases, n, x)
    <2> SUFFICES ASSUME NEW i \in 1 .. n, IsCase(cases, i) PROVE \E b \in DOMAIN x : Has(x, b, i)
        BY DEF Covers
    <2>1. CASE i = n
        BY <2>1, <1>1, <1>8
    <2>2. CASE i # n
        <3>1. i \in 1 .. n - 1
            BY <2>2
        <3> QED BY <3>1, <2>2, <1>1, <1>6 DEF Lists, Covers
    <2> QED BY <2>1, <2>2
<1>12. Ordered(x)
    <2> SUFFICES ASSUME NEW b \in 1 .. m, NEW c \in 1 .. m, NEW k \in DOMAIN x[b], NEW j \in DOMAIN x[c],
                        b < c \/ (b = c /\ k < j)
                 PROVE  x[b][k] < x[c][j]
        BY <1>1 DEF Ordered
    <2>1. \A e \in 1 .. m : \A i \in DOMAIN x[e] : ~(e = m /\ i = l + 1) => i \in DOMAIN w[e] /\ x[e][i] = w[e][i]
        BY <1>2, <1>3, <1>4, <1>5
    <2>2. ~(b = m /\ k = l + 1)
        BY <1>2
    <2>3. k \in DOMAIN w[b] /\ x[b][k] = w[b][k]
        BY <2>1, <2>2
    <2>4. CASE c = m /\ j = l + 1
        <3>1. x[b][k] \in 1 .. n - 1
            BY <2>3, <1>1 DEF Lists, Members
        <3>2. x[c][j] = n
            BY <2>4, <1>3
        <3> QED BY <3>1, <3>2
    <2>5. CASE ~(c = m /\ j = l + 1)
        BY <2>1, <2>3, <2>5, <1>1 DEF Lists, Ordered
    <2> QED BY <2>4, <2>5
<1>13. Shares(cases, n, x)
    <2> SUFFICES ASSUME NEW i \in 1 .. n - 1, IsCase(cases, i), IsCase(cases, i + 1)
                 PROVE  InBatch(cases, i) <=> \E b \in 1 .. m : Has(x, b, i) /\ Has(x, b, i + 1)
        BY <1>1 DEF Shares
    <2>1. i # n /\ i \in Nat
        OBVIOUS
    <2>2. CASE i + 1 = n
        <3>1. i = n - 1 /\ n > 1
            BY <2>2
        <3>2. InBatch(cases, i) <=> Has(w, m, i)
            BY <3>1
        <3>3. (\E b \in 1 .. m : Has(x, b, i) /\ Has(x, b, i + 1)) <=> Has(x, m, i)
            BY <2>2, <1>1, <1>8, <1>9
        <3> QED BY <3>2, <3>3, <2>1, <1>1, <1>6
    <2>3. CASE i + 1 # n
        <3>1. i \in 1 .. (n - 1) - 1
            BY <2>3
        <3>2. InBatch(cases, i) <=> \E b \in 1 .. m : Has(w, b, i) /\ Has(w, b, i + 1)
            BY <3>1, <1>1 DEF Lists, Shares
        <3> QED BY <3>2, <2>1, <2>3, <1>6
    <2> QED BY <2>2, <2>3
<1> QED BY <1>10, <1>11, <1>12, <1>13 DEF Lists

\* A list that is empty adds and takes nothing.
LEMMA AddList ==
    ASSUME NEW cases, NEW n \in Nat, NEW w \in Seq(Seq(Nat)), NEW x, x = Append(w, <<>>)
    PROVE  Lists(cases, n, x) <=> Lists(cases, n, w)
<1> DEFINE m == Len(w)
<1>1. <<>> \in Seq(Nat)
    OBVIOUS
<1> DEFINE S == Seq(Nat)
<1>2. /\ m \in Nat /\ DOMAIN w = 1 .. m /\ DOMAIN x = 1 .. m + 1
      /\ \A b \in 1 .. m : x[b] = w[b]
      /\ x[m + 1] = <<>>
    <2>1. w \in Seq(S) /\ <<>> \in S
        BY <1>1
    <2> HIDE DEF S
    <2> QED BY <2>1
<1> HIDE DEF m
<1>3. 1 .. m + 1 = (1 .. m) \cup {m + 1}
    BY <1>2
<1>4. DOMAIN x[m + 1] = {}
    BY <1>2
<1>5. \A b \in 1 .. m : \A i : Has(x, b, i) <=> Has(w, b, i)
    BY <1>2 DEF Has
<1>6. \A i : ~Has(x, m + 1, i)
    BY <1>4 DEF Has
<1>7. Members(cases, n, x) <=> Members(cases, n, w)
    BY <1>2, <1>3, <1>4 DEF Members
<1>8. Covers(cases, n, x) <=> Covers(cases, n, w)
    BY <1>2, <1>3, <1>5, <1>6 DEF Covers
<1>9. Ordered(x) <=> Ordered(w)
    <2>1. ASSUME Ordered(w) PROVE Ordered(x)
        <3> SUFFICES ASSUME NEW b \in DOMAIN x, NEW c \in DOMAIN x, NEW k \in DOMAIN x[b], NEW l \in DOMAIN x[c],
                            b < c \/ (b = c /\ k < l)
                     PROVE  x[b][k] < x[c][l]
            BY DEF Ordered
        <3>1. b \in 1 .. m /\ c \in 1 .. m
            BY <1>2, <1>3, <1>4
        <3>2. x[b] = w[b] /\ x[c] = w[c] /\ b \in DOMAIN w /\ c \in DOMAIN w
            BY <3>1, <1>2
        <3> QED BY <3>2, <2>1 DEF Ordered
    <2>2. ASSUME Ordered(x) PROVE Ordered(w)
        <3> SUFFICES ASSUME NEW b \in DOMAIN w, NEW c \in DOMAIN w, NEW k \in DOMAIN w[b], NEW l \in DOMAIN w[c],
                            b < c \/ (b = c /\ k < l)
                     PROVE  w[b][k] < w[c][l]
            BY DEF Ordered
        <3>1. x[b] = w[b] /\ x[c] = w[c] /\ b \in DOMAIN x /\ c \in DOMAIN x
            BY <1>2, <1>3
        <3> QED BY <3>1, <2>2 DEF Ordered
    <2> QED BY <2>1, <2>2
<1>10. Shares(cases, n, x) <=> Shares(cases, n, w)
    BY <1>2, <1>3, <1>5, <1>6 DEF Shares
<1> QED BY <1>7, <1>8, <1>9, <1>10 DEF Lists

\* And a row that is no case does not change them.
LEMMA SkipRow ==
    ASSUME NEW cases, NEW n \in Nat \ {0}, ~IsCase(cases, n), NEW w, Lists(cases, n - 1, w)
    PROVE  Lists(cases, n, w)
<1>1. \A i \in 1 .. n - 1 : i \in 1 .. n
    OBVIOUS
<1>2. \A i \in 1 .. n : i # n => i \in 1 .. n - 1
    OBVIOUS
<1>3. Members(cases, n, w)
    BY <1>1 DEF Lists, Members
<1>4. Covers(cases, n, w)
    BY <1>2 DEF Lists, Covers
<1>5. Shares(cases, n, w)
    <2> SUFFICES ASSUME NEW i \in 1 .. n - 1, IsCase(cases, i), IsCase(cases, i + 1)
                 PROVE  InBatch(cases, i) <=> \E b \in DOMAIN w : Has(w, b, i) /\ Has(w, b, i + 1)
        BY DEF Shares
    <2>1. i + 1 # n
        OBVIOUS
    <2>2. i \in 1 .. (n - 1) - 1
        BY <2>1
    <2> QED BY <2>2 DEF Lists, Shares
<1> QED BY <1>3, <1>4, <1>5 DEF Lists

\* Whether a row is in a batch is told by the one before.
LEMMA InBatchUnfold ==
    ASSUME NEW cases
    PROVE  /\ ~InBatch(cases, 1)
           /\ \A n \in Nat \ {0} : InBatch(cases, n + 1) <=> cases[n].type = "S" \/ (cases[n].type = "C" /\ InBatch(cases, n))
<1>1. ~InBatch(cases, 1)
    BY DEF InBatch
<1>2. ASSUME NEW n \in Nat \ {0}
      PROVE  InBatch(cases, n + 1) <=> cases[n].type = "S" \/ (cases[n].type = "C" /\ InBatch(cases, n))
    <2>1. (n + 1) - 1 = n
        OBVIOUS
    <2>2. cases[n].type = "S" => InBatch(cases, n + 1)
        <3>1. n \in 1 .. n /\ n + 1 .. n = {}
            OBVIOUS
        <3> QED BY <3>1, <2>1 DEF InBatch
    <2>3. ASSUME cases[n].type = "C", InBatch(cases, n) PROVE InBatch(cases, n + 1)
        <3>1. PICK b \in 1 .. n - 1 : cases[b].type = "S" /\ \A j \in b + 1 .. n - 1 : cases[j].type = "C"
            BY <2>3 DEF InBatch
        <3>2. b \in 1 .. n /\ \A j \in b + 1 .. n : j = n \/ j \in b + 1 .. n - 1
            OBVIOUS
        <3>3. \A j \in b + 1 .. n : cases[j].type = "C"
            BY <3>1, <3>2, <2>3
        <3> QED BY <3>1, <3>2, <3>3, <2>1 DEF InBatch
    <2>4. ASSUME InBatch(cases, n + 1), cases[n].type # "S" PROVE cases[n].type = "C" /\ InBatch(cases, n)
        <3>1. PICK b \in 1 .. n : cases[b].type = "S" /\ \A j \in b + 1 .. n : cases[j].type = "C"
            BY <2>4, <2>1 DEF InBatch
        <3>2. b # n
            BY <3>1, <2>4
        <3>3. n \in b + 1 .. n /\ b \in 1 .. n - 1 /\ \A j \in b + 1 .. n - 1 : j \in b + 1 .. n
            BY <3>2
        <3> QED BY <3>1, <3>3 DEF InBatch
    <2> QED BY <2>2, <2>3, <2>4
<1> QED BY <1>1, <1>2

-----------------------------------------------------------------------------
(* What the pass holds after n rows.                                       *)

\* The row before i starts a batch.
AfterStart(cases, i) == i > 1 /\ cases[i - 1].type = "S"

\* What make_init asks of row i, given those before it.
Fine(cases, files, i) ==
    /\ cases[i].type = "C" => cases[i].file \in files /\ (cases[i].points \/ InBatch(cases, i))
    /\ cases[i].type = "S" => cases[i].points /\ ~AfterStart(cases, i)
    /\ cases[i].type = "E" => InBatch(cases, i) /\ ~AfterStart(cases, i)

FineTo(cases, files, n) == \A i \in 1 .. n : Fine(cases, files, i)

Pass(done, open, batch, error) == [done |-> done, open |-> open, batch |-> batch, error |-> error]

PassRight(cases, files, n, done, open, batch, error) ==
    /\ done \in Seq(Seq(Nat)) /\ open \in BOOLEAN /\ batch \in Seq(Nat) /\ error \in BOOLEAN
    /\ error <=> ~FineTo(cases, files, n)
    /\ ~error =>
        /\ open <=> InBatch(cases, n + 1)
        /\ open => (batch = <<>> <=> AfterStart(cases, n + 1))
        /\ ~open => batch = <<>>
        /\ \A b \in DOMAIN done : done[b] # <<>>
        /\ open /\ n > 0 /\ IsCase(cases, n) => \E k \in DOMAIN batch : batch[k] = n
        /\ Lists(cases, n, Append(done, batch))

\* Before the first row.
LEMMA BegunRight ==
    ASSUME NEW cases, NEW files
    PROVE  PassRight(cases, files, 0, <<>>, FALSE, <<>>, FALSE)
<1> DEFINE w == Append(<<>>, <<>>)
<1>1. w = << <<>> >> /\ DOMAIN w = {1} /\ DOMAIN w[1] = {}
    OBVIOUS
<1>2. <<>> \in Seq(Seq(Nat)) /\ <<>> \in Seq(Nat)
    OBVIOUS
<1>3. 1 .. 0 = {} /\ 1 .. 0 - 1 = {} /\ 0 + 1 = 1 /\ ~(0 > 0)
    OBVIOUS
<1>4. DOMAIN <<>> = {}
    OBVIOUS
<1> HIDE DEF w
<1>5. Lists(cases, 0, w)
    BY <1>1, <1>3 DEF Lists, Members, Covers, Ordered, Shares
<1>6. FineTo(cases, files, 0)
    BY <1>3 DEF FineTo
<1>7. ~InBatch(cases, 0 + 1)
    BY <1>3, InBatchUnfold
<1> QED BY <1>2, <1>3, <1>4, <1>5, <1>6, <1>7 DEF PassRight, w

\* A pass that has failed takes nothing more, and one more row makes no list fine.
LEMMA FineUnfold ==
    ASSUME NEW cases, NEW files, NEW n \in Nat \ {0}
    PROVE  FineTo(cases, files, n) <=> FineTo(cases, files, n - 1) /\ Fine(cases, files, n)
<1>1. \A i \in 1 .. n : i = n \/ i \in 1 .. n - 1
    OBVIOUS
<1>2. n \in 1 .. n /\ \A i \in 1 .. n - 1 : i \in 1 .. n
    OBVIOUS
<1> QED BY <1>1, <1>2 DEF FineTo

\* A case goes to the batch that is open, or to one of its own.
LEMMA TakenCase ==
    ASSUME NEW cases, NEW files, NEW n \in Nat \ {0}, cases[n].type = "C", cases[n].points \in BOOLEAN,
           NEW done, NEW open, NEW batch, PassRight(cases, files, n - 1, done, open, batch, FALSE)
    PROVE  \E done2, open2, batch2, error2 :
              /\ Taken(Pass(done, open, batch, FALSE), cases[n], n, files) = Pass(done2, open2, batch2, error2)
              /\ PassRight(cases, files, n, done2, open2, batch2, error2)
<1>1. /\ done \in Seq(Seq(Nat)) /\ open \in BOOLEAN /\ batch \in Seq(Nat)
      /\ FineTo(cases, files, n - 1)
      /\ open <=> InBatch(cases, n)
      /\ open => (batch = <<>> <=> AfterStart(cases, n))
      /\ ~open => batch = <<>>
      /\ \A b \in DOMAIN done : done[b] # <<>>
      /\ open /\ n - 1 > 0 /\ IsCase(cases, n - 1) => \E k \in DOMAIN batch : batch[k] = n - 1
      /\ Lists(cases, n - 1, Append(done, batch))
    <2>1. (n - 1) + 1 = n
        OBVIOUS
    <2> QED BY <2>1 DEF PassRight
<1> DEFINE bad == (~open /\ ~cases[n].points) \/ cases[n].file \notin files
<1>2. bad <=> ~FineTo(cases, files, n)
    BY <1>1, FineUnfold DEF Fine
<1>3. InBatch(cases, n + 1) <=> InBatch(cases, n)
    BY InBatchUnfold
<1>4. ~AfterStart(cases, n + 1)
    <2>1. (n + 1) - 1 = n
        OBVIOUS
    <2> QED BY <2>1 DEF AfterStart
<1>5. IsCase(cases, n)
    BY DEF IsCase
<1>6. CASE bad
    <2>1. Taken(Pass(done, open, batch, FALSE), cases[n], n, files) = Pass(done, open, batch, TRUE)
        BY <1>6 DEF Taken, Failed, Pass
    <2>2. PassRight(cases, files, n, done, open, batch, TRUE)
        BY <1>1, <1>2, <1>6 DEF PassRight
    <2> QED BY <2>1, <2>2
<1>5a. n > 1 /\ IsCase(cases, n - 1) => (InBatch(cases, n - 1) <=> InBatch(cases, n))
    <2>1. n > 1 => n - 1 \in Nat \ {0} /\ (n - 1) + 1 = n
        OBVIOUS
    <2> QED BY <2>1, InBatchUnfold DEF IsCase
<1> DEFINE w == Append(done, batch)
           m == Len(done) + 1
           S == Seq(Nat)
<1>7. CASE ~bad /\ open
    <2> DEFINE more == Append(batch, n)
               x == Append(done, more)
    <2>1. Taken(Pass(done, open, batch, FALSE), cases[n], n, files) = Pass(done, open, more, FALSE)
        BY <1>7 DEF Taken, Failed, Pass
    <2>2. more \in S /\ Len(more) = Len(batch) + 1 /\ (\A k \in 1 .. Len(batch) : more[k] = batch[k]) /\ more[Len(batch) + 1] = n
        BY <1>1
    <2>2a. DOMAIN more = 1 .. Len(batch) + 1 /\ Len(batch) \in Nat
        BY <2>2, <1>1
    <2> HIDE DEF more
    <2>3. \E k \in DOMAIN more : more[k] = n
        <3>1. Len(batch) + 1 \in DOMAIN more
            BY <2>2a
        <3> QED BY <3>1, <2>2
    <2>4. more # <<>>
        <3>1. Len(batch) + 1 \in DOMAIN more
            BY <2>2a
        <3>2. DOMAIN <<>> = {}
            OBVIOUS
        <3> QED BY <3>1, <3>2
    <2>5. /\ w \in Seq(S) /\ x \in Seq(S) /\ m \in Nat \ {0} /\ Len(w) = m /\ Len(x) = m
          /\ \A b \in 1 .. m - 1 : x[b] = w[b]
          /\ w[m] = batch /\ x[m] = more
        <3>1. done \in Seq(S) /\ batch \in S /\ more \in S
            BY <1>1, <2>2
        <3> HIDE DEF S
        <3> QED BY <3>1
    <2> HIDE DEF w, x, m
    <2>6. n > 1 /\ IsCase(cases, n - 1) => (InBatch(cases, n - 1) <=> Has(w, m, n - 1))
        <3>1. n > 1 => n - 1 > 0
            OBVIOUS
        <3> QED BY <3>1, <1>1, <1>7, <1>5a, <2>5 DEF Has
    <2>7. Lists(cases, n, x)
        <3>1. Lists(cases, n - 1, w)
            BY <1>1 DEF w
        <3>2. Len(x[m]) = Len(w[m]) + 1 /\ (\A k \in 1 .. Len(w[m]) : x[m][k] = w[m][k]) /\ x[m][Len(w[m]) + 1] = n
            BY <2>2, <2>5
        <3> QED BY <1>5, <2>5, <2>6, <3>1, <3>2, AddCase
    <2>8. PassRight(cases, files, n, done, open, more, FALSE)
        BY <1>1, <1>2, <1>3, <1>4, <1>7, <2>2, <2>3, <2>4, <2>7 DEF PassRight, x
    <2> QED BY <2>1, <2>8
<1>8. CASE ~bad /\ ~open
    <2> DEFINE one == <<n>>
               x == Append(done, one)
               y == Append(x, <<>>)
    <2>1. batch = <<>>
        BY <1>1, <1>8
    <2>2. Taken(Pass(done, open, batch, FALSE), cases[n], n, files) = Pass(x, open, batch, FALSE)
        BY <1>8 DEF Taken, Failed, Pass
    <2>3. one \in S /\ Len(one) = 1 /\ one[1] = n /\ one # <<>> /\ Len(batch) = 0 /\ batch \in S
        BY <2>1
    <2> HIDE DEF one
    <2>5. /\ w \in Seq(S) /\ x \in Seq(S) /\ m \in Nat \ {0} /\ Len(w) = m /\ Len(x) = m
          /\ \A b \in 1 .. m - 1 : x[b] = w[b]
          /\ w[m] = batch /\ x[m] = one
          /\ DOMAIN x = 1 .. m /\ \A b \in 1 .. m : b = m \/ (b \in DOMAIN done /\ x[b] = done[b])
        <3>1. done \in Seq(S) /\ batch \in S /\ one \in S
            BY <1>1, <2>3
        <3> HIDE DEF S
        <3> QED BY <3>1
    <2> HIDE DEF w, m, y, x
    <2>6. n > 1 /\ IsCase(cases, n - 1) => (InBatch(cases, n - 1) <=> Has(w, m, n - 1))
        <3>1. ~Has(w, m, n - 1)
            <4>1. DOMAIN batch = {}
                BY <2>1
            <4> QED BY <4>1, <2>5 DEF Has
        <3> QED BY <3>1, <1>1, <1>8, <1>5a
    <2>7. Lists(cases, n, x)
        <3>1. Lists(cases, n - 1, w)
            BY <1>1 DEF w
        <3>2. Len(x[m]) = Len(w[m]) + 1 /\ (\A k \in 1 .. Len(w[m]) : x[m][k] = w[m][k]) /\ x[m][Len(w[m]) + 1] = n
            BY <2>3, <2>5
        <3> QED BY <1>5, <2>5, <2>6, <3>1, <3>2, AddCase
    <2>8. Lists(cases, n, y)
        BY <2>5, <2>7, AddList DEF y
    <2>9. \A b \in DOMAIN x : x[b] # <<>>
        BY <2>5, <2>3, <1>1
    <2>10. PassRight(cases, files, n, x, open, batch, FALSE)
        <3>1. Append(x, batch) = y
            BY <2>1 DEF y
        <3> QED BY <3>1, <1>1, <1>2, <1>3, <1>4, <1>8, <2>1, <2>5, <2>8, <2>9 DEF PassRight
    <2> QED BY <2>2, <2>10
<1> QED BY <1>6, <1>7, <1>8, <1>1

\* A row that is no case goes on with the lists there are; ending the batch moves its list.
LEMMA TakenMark ==
    ASSUME NEW cases, NEW files, NEW n \in Nat \ {0}, cases[n].type \in {"S", "E"}, cases[n].points \in BOOLEAN,
           NEW done, NEW open, NEW batch, PassRight(cases, files, n - 1, done, open, batch, FALSE)
    PROVE  \E done2, open2, batch2, error2 :
              /\ Taken(Pass(done, open, batch, FALSE), cases[n], n, files) = Pass(done2, open2, batch2, error2)
              /\ PassRight(cases, files, n, done2, open2, batch2, error2)
<1>1. /\ done \in Seq(Seq(Nat)) /\ open \in BOOLEAN /\ batch \in Seq(Nat)
      /\ FineTo(cases, files, n - 1)
      /\ open <=> InBatch(cases, n)
      /\ open => (batch = <<>> <=> AfterStart(cases, n))
      /\ ~open => batch = <<>>
      /\ \A b \in DOMAIN done : done[b] # <<>>
      /\ Lists(cases, n - 1, Append(done, batch))
    <2>1. (n - 1) + 1 = n
        OBVIOUS
    <2> QED BY <2>1 DEF PassRight
<1>2. ~IsCase(cases, n) /\ cases[n].type # "C"
    BY DEF IsCase
<1>3. InBatch(cases, n + 1) <=> cases[n].type = "S"
    BY <1>2, InBatchUnfold
<1>4. cases[n].type = "S" => AfterStart(cases, n + 1)
    <2>1. (n + 1) - 1 = n /\ n + 1 > 1
        OBVIOUS
    <2> QED BY <2>1 DEF AfterStart
<1>5. ~InBatch(cases, n) => ~AfterStart(cases, n)
    <2>1. n > 1 => n - 1 \in Nat \ {0} /\ (n - 1) + 1 = n
        OBVIOUS
    <2> QED BY <2>1, InBatchUnfold DEF AfterStart
<1> DEFINE bad == ~Fine(cases, files, n)
<1>6. bad <=> ~FineTo(cases, files, n)
    BY <1>1, FineUnfold
<1>7. bad <=> \/ cases[n].type = "S" /\ (~cases[n].points \/ (open /\ batch = <<>>))
              \/ cases[n].type = "E" /\ (~open \/ batch = <<>>)
    BY <1>1, <1>2, <1>5 DEF Fine
<1> DEFINE started == cases[n].type = "S"
           result == Taken(Pass(done, open, batch, FALSE), cases[n], n, files)
           joined == Append(done, batch)
<1> HIDE DEF bad
<1>8. CASE bad
    <2> DEFINE lists == IF started /\ open /\ batch # <<>> THEN joined ELSE done
               still == open /\ (~started \/ batch = <<>>)
               left == IF started /\ open THEN <<>> ELSE batch
    <2>1. result = Pass(lists, still, left, TRUE)
        <3>1. CASE ~started
            BY <3>1, <1>1, <1>2, <1>7, <1>8 DEF Taken, Failed, Pass, Closed, PostEnded
        <3>2. CASE started /\ ~open
            BY <3>2, <1>1, <1>2, <1>7, <1>8 DEF Taken, Failed, Pass, Closed, PostEnded
        <3>3. CASE started /\ open /\ batch = <<>>
            BY <3>3, <1>1, <1>2, <1>7, <1>8 DEF Taken, Failed, Pass, Closed, PostEnded
        <3>4. CASE started /\ open /\ batch # <<>>
            BY <3>4, <1>1, <1>2, <1>7, <1>8 DEF Taken, Failed, Pass, Closed, PostEnded
        <3> QED BY <3>1, <3>2, <3>3, <3>4, <1>1
    <2>2. lists \in Seq(Seq(Nat)) /\ still \in BOOLEAN /\ left \in Seq(Nat)
        <3>1. joined \in Seq(Seq(Nat)) /\ <<>> \in Seq(Nat)
            BY <1>1
        <3> QED BY <3>1, <1>1
    <2>3. PassRight(cases, files, n, lists, still, left, TRUE)
        BY <2>2, <1>6, <1>8 DEF PassRight
    <2> HIDE DEF lists, still, left
    <2> QED BY <2>1, <2>3
<1>9. CASE ~bad /\ ~open
    <2>1. started /\ cases[n].points /\ batch = <<>>
        BY <1>1, <1>7, <1>9
    <2>2. result = Pass(done, TRUE, batch, FALSE)
        BY <2>1, <1>9 DEF Taken, Failed, Pass, Closed
    <2>3. Lists(cases, n, Append(done, batch))
        BY <1>1, <1>2, SkipRow
    <2>4. PassRight(cases, files, n, done, TRUE, batch, FALSE)
        BY <2>1, <2>3, <1>1, <1>2, <1>3, <1>4, <1>6, <1>9 DEF PassRight
    <2> QED BY <2>2, <2>4
<1>10. CASE ~bad /\ open
    <2>1. batch # <<>> /\ (started => cases[n].points)
        BY <1>1, <1>7, <1>10
    <2>2. result = Pass(joined, started, <<>>, FALSE)
        <3>1. CASE ~started
            BY <3>1, <2>1, <1>1, <1>2, <1>10 DEF Taken, Failed, Pass, Closed, PostEnded
        <3>2. CASE started
            BY <3>2, <2>1, <1>1, <1>2, <1>10 DEF Taken, Failed, Pass, Closed, PostEnded
        <3> QED BY <3>1, <3>2
    <2>3. /\ joined \in Seq(Seq(Nat)) /\ <<>> \in Seq(Nat)
          /\ \A b \in DOMAIN joined : joined[b] = batch \/ (b \in DOMAIN done /\ joined[b] = done[b])
        <3> DEFINE S == Seq(Nat)
        <3>1. done \in Seq(S) /\ batch \in S /\ <<>> \in S
            BY <1>1
        <3> HIDE DEF S
        <3>2. /\ joined \in Seq(S)
              /\ \A b \in DOMAIN joined : joined[b] = batch \/ (b \in DOMAIN done /\ joined[b] = done[b])
            BY <3>1
        <3> QED BY <3>1, <3>2 DEF S
    <2>4. \A b \in DOMAIN joined : joined[b] # <<>>
        BY <2>1, <2>3, <1>1
    <2> HIDE DEF joined
    <2>5. Lists(cases, n, joined)
        BY <1>1, <1>2, SkipRow DEF joined
    <2> DEFINE y == Append(joined, <<>>)
    <2>6. Lists(cases, n, y)
        BY <2>3, <2>5, AddList
    <2> HIDE DEF y
    <2>7. PassRight(cases, files, n, joined, started, <<>>, FALSE)
        <3>1. started \in BOOLEAN
            OBVIOUS
        <3> QED BY <3>1, <2>3, <2>4, <2>6, <1>1, <1>2, <1>3, <1>4, <1>6, <1>10 DEF PassRight, y
    <2> QED BY <2>2, <2>7
<1> QED BY <1>8, <1>9, <1>10, <1>1

\* One row of the pass: a pass that has failed takes nothing more.
LEMMA TakenRight ==
    ASSUME NEW cases, NEW files, NEW n \in Nat \ {0}, cases[n].type \in {"C", "S", "E"}, cases[n].points \in BOOLEAN,
           NEW done, NEW open, NEW batch, NEW error, PassRight(cases, files, n - 1, done, open, batch, error)
    PROVE  \E done2, open2, batch2, error2 :
              /\ Taken(Pass(done, open, batch, error), cases[n], n, files) = Pass(done2, open2, batch2, error2)
              /\ PassRight(cases, files, n, done2, open2, batch2, error2)
<1>1. error \in BOOLEAN
    BY DEF PassRight
<1>2. CASE error
    <2>1. Taken(Pass(done, open, batch, error), cases[n], n, files) = Pass(done, open, batch, error)
        BY <1>2 DEF Taken, Pass
    <2>2. PassRight(cases, files, n, done, open, batch, error)
        BY <1>2, FineUnfold DEF PassRight
    <2> QED BY <2>1, <2>2
<1>3. CASE error = FALSE
    BY <1>3, TakenCase, TakenMark
<1> QED BY <1>1, <1>2, <1>3

\* The whole pass: make_init accepts the cases that are described as right, and no others; what it
\* writes are the cases, each once, in their order and their batches.
THEOREM CompiledRight ==
    ASSUME NEW cases, NEW files, Listed(cases)
    PROVE  /\ Compiled(cases, files).error \in BOOLEAN
           /\ Compiled(cases, files).error <=> ~IsCompilable(cases, files)
           /\ ~Compiled(cases, files).error => AreBatches(cases, Compiled(cases, files).done)
<1> DEFINE N == Len(cases)
<1>1. N \in Nat /\ DOMAIN cases = 1 .. N
    BY DEF Listed
<1>2. PICK pass : /\ pass[0] = Begun
                  /\ \A m \in 1 .. N : pass[m] = Taken(pass[m - 1], cases[m], m, files)
                  /\ Compiled(cases, files) = IF pass[N].open /\ ~pass[N].error THEN Closed(pass[N]) ELSE pass[N]
    BY CompiledUnfold
<1> DEFINE Right(n) == \E done, open, batch, error :
                          pass[n] = Pass(done, open, batch, error) /\ PassRight(cases, files, n, done, open, batch, error)
           Bad == {n \in Nat : n \in 0 .. N /\ ~Right(n)}
<1> HIDE DEF N
<1>3. Bad = {}
    <2> SUFFICES ASSUME Bad # {} PROVE FALSE
        OBVIOUS
    <2>1. PICK n \in Bad : \A m \in Bad : m >= n
        <3>1. Bad \in SUBSET Nat
            OBVIOUS
        <3> HIDE DEF Bad
        <3> QED BY <3>1, SmallestNat
    <2>2. n # 0
        <3>1. pass[0] = Pass(<<>>, FALSE, <<>>, FALSE)
            BY <1>2 DEF Begun, Pass
        <3>2. Right(0)
            BY <3>1, BegunRight
        <3> QED BY <3>2
    <2>3. n \in Nat \ {0} /\ n \in 1 .. N /\ n - 1 \in Nat /\ n - 1 \in 0 .. N /\ ~(n - 1 >= n)
        BY <2>2, <1>1
    <2>4. Right(n - 1)
        <3>1. n - 1 \notin Bad
            BY <2>1, <2>3
        <3> QED BY <3>1, <2>3
    <2>5. PICK done, open, batch, error :
             pass[n - 1] = Pass(done, open, batch, error) /\ PassRight(cases, files, n - 1, done, open, batch, error)
        BY <2>4
    <2>6. cases[n].type \in {"C", "S", "E"} /\ cases[n].points \in BOOLEAN
        BY <2>3 DEF Listed, N
    <2>7. pass[n] = Taken(pass[n - 1], cases[n], n, files)
        BY <1>2, <2>3
    <2>8. Right(n)
        <3> HIDE DEF Bad
        <3> QED BY <2>3, <2>5, <2>6, <2>7, TakenRight
    <2> QED BY <2>8
<1>4. Right(N)
    BY <1>1, <1>3
<1>5. PICK done, open, batch, error :
         pass[N] = Pass(done, open, batch, error) /\ PassRight(cases, files, N, done, open, batch, error)
    BY <1>4
<1> HIDE DEF Bad, Right
<1> DEFINE undone == AfterStart(cases, N + 1)
           result == Compiled(cases, files)
<1>6. undone <=> N > 0 /\ cases[N].type = "S"
    <2>1. (N + 1) - 1 = N /\ (N + 1 > 1 <=> N > 0)
        BY <1>1
    <2> QED BY <2>1 DEF AfterStart
<1>7. IsCompilable(cases, files) <=> FineTo(cases, files, N) /\ ~undone
    <2>0. \A i \in 1 .. N : cases[i].type \in {"C", "S", "E"}
        BY DEF Listed, N
    <2>1. ASSUME IsCompilable(cases, files) PROVE FineTo(cases, files, N) /\ ~undone
        <3>1. \A i \in 1 .. N : /\ cases[i].type = "C" => cases[i].file \in files /\ (cases[i].points \/ InBatch(cases, i))
                                /\ cases[i].type = "S" => cases[i].points /\ i < N /\ cases[i + 1].type = "C"
                                /\ cases[i].type = "E" => InBatch(cases, i)
            BY <2>0, <2>1, <1>1 DEF IsCompilable, N
        <3>2. ASSUME NEW i \in 1 .. N PROVE cases[i].type # "C" => ~AfterStart(cases, i)
            <4>1. i > 1 => i - 1 \in 1 .. N /\ (i - 1) + 1 = i
                BY <1>1
            <4> QED BY <4>1, <3>1 DEF AfterStart
        <3>3. FineTo(cases, files, N)
            BY <3>1, <3>2 DEF FineTo, Fine
        <3>4. ~undone
            <4>1. N > 0 => N \in 1 .. N /\ ~(N < N)
                BY <1>1
            <4> QED BY <4>1, <3>1, <1>6
        <3> QED BY <3>3, <3>4
    <2>2. ASSUME FineTo(cases, files, N), ~undone PROVE IsCompilable(cases, files)
        <3> SUFFICES ASSUME NEW i \in 1 .. N
                     PROVE  CASE cases[i].type = "C" -> cases[i].file \in files /\ (cases[i].points \/ InBatch(cases, i))
                              [] cases[i].type = "S" -> cases[i].points /\ i < N /\ cases[i + 1].type = "C"
                              [] cases[i].type = "E" -> InBatch(cases, i)
            BY <1>1 DEF IsCompilable, N
        <3>1. Fine(cases, files, i)
            BY <2>2 DEF FineTo
        <3>2. cases[i].type = "S" => i < N /\ cases[i + 1].type = "C"
            <4>1. i # N => i < N /\ i + 1 \in 1 .. N /\ i + 1 > 1 /\ (i + 1) - 1 = i
                BY <1>1
            <4>2. i = N => N > 0
                BY <1>1
            <4>3. i # N => Fine(cases, files, i + 1)
                BY <2>2, <4>1 DEF FineTo
            <4> QED BY <4>1, <4>2, <4>3, <2>0, <2>2, <1>6 DEF Fine, AfterStart
        <3> QED BY <3>1, <3>2, <2>0 DEF Fine
    <2> QED BY <2>1, <2>2
<1>8. /\ done \in Seq(Seq(Nat)) /\ open \in BOOLEAN /\ batch \in Seq(Nat) /\ error \in BOOLEAN
      /\ error <=> ~FineTo(cases, files, N)
      /\ ~error => /\ open <=> InBatch(cases, N + 1)
                   /\ open => (batch = <<>> <=> undone)
                   /\ ~open => batch = <<>>
                   /\ \A b \in DOMAIN done : done[b] # <<>>
                   /\ Lists(cases, N, Append(done, batch))
    BY <1>5 DEF PassRight
<1>9. undone => InBatch(cases, N + 1)
    BY <1>1, <1>6, InBatchUnfold
<1>10. ASSUME NEW lists, Lists(cases, N, lists), \A b \in DOMAIN lists : lists[b] # <<>>
       PROVE  AreBatches(cases, lists)
    <2>1. \A b \in DOMAIN lists : \A k \in DOMAIN lists[b] : lists[b][k] \in DOMAIN cases /\ cases[lists[b][k]].type = "C"
        BY <1>1, <1>10 DEF Lists, Members, IsCase
    <2>2. \A i \in DOMAIN cases : cases[i].type = "C" => \E b \in DOMAIN lists : \E k \in DOMAIN lists[b] : lists[b][k] = i
        BY <1>1, <1>10 DEF Lists, Covers, Has, IsCase
    <2>3. \A b, c \in DOMAIN lists : \A k \in DOMAIN lists[b], l \in DOMAIN lists[c] :
             b < c \/ (b = c /\ k < l) => lists[b][k] < lists[c][l]
        BY <1>10 DEF Lists, Ordered
    <2>4. ASSUME NEW i \in DOMAIN cases, i + 1 \in DOMAIN cases, cases[i].type = "C", cases[i + 1].type = "C"
          PROVE  InBatch(cases, i) <=> \E b \in DOMAIN lists : \E k, l \in DOMAIN lists[b] : lists[b][k] = i /\ lists[b][l] = i + 1
        <3>1. i \in 1 .. N - 1
            BY <1>1, <2>4
        <3>2. InBatch(cases, i) <=> \E b \in DOMAIN lists : Has(lists, b, i) /\ Has(lists, b, i + 1)
            BY <3>1, <2>4, <1>10 DEF Lists, Shares, IsCase
        <3> QED BY <3>2 DEF Has
    <2> QED BY <1>10, <2>1, <2>2, <2>3, <2>4 DEF AreBatches
<1>11. CASE error
    <2>1. result = Pass(done, open, batch, error)
        BY <1>2, <1>5, <1>11 DEF Pass
    <2>2. result.error
        BY <2>1, <1>11 DEF Pass
    <2> QED BY <2>1, <2>2, <1>7, <1>8, <1>11 DEF Pass
<1>12. CASE ~error /\ ~open
    <2>1. result = Pass(done, open, batch, error)
        BY <1>2, <1>5, <1>12 DEF Pass
    <2>2. ~undone
        BY <1>8, <1>9, <1>12
    <2>3. Lists(cases, N, done)
        <3>1. batch = <<>>
            BY <1>8, <1>12
        <3>2. Lists(cases, N, Append(done, <<>>))
            BY <3>1, <1>8, <1>12
        <3> QED BY <3>2, <1>1, <1>8, AddList
    <2>4. AreBatches(cases, done)
        BY <2>3, <1>8, <1>10, <1>12
    <2>5. Compiled(cases, files).error = error /\ Compiled(cases, files).done = done
        BY <2>1 DEF Pass
    <2> HIDE DEF undone
    <2> QED BY <2>2, <2>4, <2>5, <1>7, <1>8, <1>12
<1>13. CASE ~error /\ open
    <2> DEFINE joined == Append(done, batch)
    <2>1. /\ batch = <<>> => result = Pass(done, open, batch, TRUE)
          /\ batch # <<>> => result = Pass(joined, FALSE, <<>>, error)
        <3>1. result = Closed(pass[N])
            <4>1. pass[N].open = open /\ pass[N].error = error
                BY <1>5 DEF Pass
            <4> QED BY <4>1, <1>2, <1>13
        <3>2. open \in BOOLEAN /\ error \in BOOLEAN
            BY <1>8
        <3>3. /\ batch = <<>> => Closed(Pass(done, open, batch, error)) = Pass(done, open, batch, TRUE)
              /\ batch # <<>> => Closed(Pass(done, open, batch, error)) = Pass(joined, FALSE, <<>>, error)
            <4>1. ASSUME batch = <<>> PROVE Closed(Pass(done, open, batch, error)) = Pass(done, open, batch, TRUE)
                BY <4>1, <3>2 DEF Pass, Closed
            <4>2. ASSUME batch # <<>> PROVE Closed(Pass(done, open, batch, error)) = Pass(joined, FALSE, <<>>, error)
                BY <4>2, <3>2 DEF Pass, Closed
            <4> QED BY <4>1, <4>2
        <3> QED BY <3>1, <3>3, <1>5
    <2>2. \A b \in DOMAIN joined : joined[b] = batch \/ (b \in DOMAIN done /\ joined[b] = done[b])
        <3> DEFINE S == Seq(Nat)
        <3>1. done \in Seq(S) /\ batch \in S
            BY <1>8
        <3> HIDE DEF S
        <3> QED BY <3>1
    <2>3. batch # <<>> => AreBatches(cases, joined)
        <3> HIDE DEF joined
        <3>1. batch # <<>> => \A b \in DOMAIN joined : joined[b] # <<>>
            BY <2>2, <1>8, <1>13
        <3>2. Lists(cases, N, joined)
            BY <1>8, <1>13 DEF joined
        <3> QED BY <3>1, <3>2, <1>10
    <2> HIDE DEF joined, undone
    <2>4. CASE batch = <<>>
        <3>1. Compiled(cases, files).error = TRUE
            BY <2>1, <2>4 DEF Pass
        <3> QED BY <3>1, <2>4, <1>7, <1>8, <1>13
    <2>5. CASE batch # <<>>
        <3>1. Compiled(cases, files).error = error /\ Compiled(cases, files).done = joined
            BY <2>1, <2>5 DEF Pass
        <3> QED BY <3>1, <2>3, <2>5, <1>7, <1>8, <1>13
    <2> QED BY <2>4, <2>5
<1> QED BY <1>11, <1>12, <1>13, <1>8

-----------------------------------------------------------------------------
(* What the posts, the rows and the directory have to do with each other   *)
(* while nobody dies and nobody saves what another one has changed.        *)

NoZips == Zips \cup {NoZip}
PdLists == PdForms \cup {<<>>}
ZipsOf(row) == IF row.zip = NoZip THEN {} ELSE {<<row.code, row.zip>>}

\* init.yml of these cases.
InitOf(cases, zip, files) ==
    IF Compiled(cases, files).error \/ (Compiled(cases, files).done = <<>> /\ zip = NoZip) THEN NoInit
    ELSE [archive |-> zip, cases |-> Compiled(cases, files).done]

PdRows == [code : Codes, zip : NoZips, feedback : BOOLEAN]
PdAts == {"delete", "row", "cases", "compile", "init"}
PdFiles == {FilesOf(zip) : zip \in NoZips}
PdInits == {NoInit} \cup {InitOf(cases, zip, files) : cases \in PdLists, zip \in NoZips, files \in PdFiles}
PdPosts ==
    [at : PdAts, was : PdRows, code : Codes, upload : NoZips \cup {"keep"}, lost : NoZips, form : PdForms,
     files : PdFiles, compiled : PdInits, row : PdRows]

\* What a post carries, whoever else is at work.
PostTyped(q) ==
    /\ q.files = ValidFiles(q.row, q.lost)
    /\ q.at = "delete" => q.upload \in NoZips /\ q.row.zip = q.upload /\ q.lost = NoZip

PdTypes ==
    /\ pd_code \in Codes /\ pd_row \in PdRows /\ pd_cases \in PdLists
    /\ pd_inits \in [Codes -> PdInits]
    /\ pd_posts \in [Setters -> PdPosts \cup {NoDataPost}]
    /\ \A s \in Setters : pd_posts[s] # NoDataPost => PostTyped(pd_posts[s])
    /\ pd_gone \in NoZips /\ pd_torn \in BOOLEAN

RowRight(row, code) == row.zip # NoZip => row.code = code

PostRight(q, code) ==
    /\ q.code = code
    /\ RowRight(q.was, code) /\ RowRight(q.row, code)
    /\ q.lost # NoZip => q.row.zip = NoZip
    /\ q.at = "delete" => q.upload # "keep" /\ q.lost = NoZip
    /\ q.at \in {"delete", "row"} =>
          IF q.upload = "keep" THEN q.row = q.was ELSE q.row.zip = q.upload /\ q.row.code = q.code
    /\ q.at \in {"cases", "compile", "init"} => q.was = q.row
    /\ q.at = "init" => q.compiled = InitOf(q.form, q.row.zip, q.files)

\* A post that has deleted the old archive and not stored the new one.
Between(q) == q.at = "row" /\ q.upload # "keep"
Writing(q) == q.at \in {"cases", "compile", "init"}
Compiling(q) == q.at \in {"cases", "compile"}

ZipsRight == pd_zips = ZipsOf(pd_row) \/ (pd_zips = {} /\ \E s \in Setters : Between(pd_posts[s]))
InitRight == pd_inits[pd_code] = InitOf(pd_cases, pd_row.zip, ValidFiles(pd_row, pd_gone)) \/ \E s \in Setters : Writing(pd_posts[s])
FeedbackRight ==
    \/ pd_row.feedback <=> Compiled(pd_cases, ValidFiles(pd_row, pd_gone)).error
    \/ \E s \in Setters : Compiling(pd_posts[s])

PdWhole ==
    /\ RowRight(pd_row, pd_code)
    /\ pd_gone # NoZip => pd_row.zip = NoZip
    /\ \A s \in Setters : pd_posts[s] # NoDataPost => PostRight(pd_posts[s], pd_code)
    /\ ZipsRight
    /\ \A c \in Codes : c # pd_code => pd_inits[c] = NoInit
    /\ InitRight
    /\ FeedbackRight

PdInv == PdTypes /\ (~pd_torn => PdWhole)

\* The rows of a form, and no rows, are lists of rows.
LEMMA PdListed ==
    ASSUME ProblemDataAssumption
    PROVE  \A cases \in PdLists : Listed(cases)
<1>1. Listed(<<>>)
    <2>1. Len(<<>>) = 0 /\ 1 .. 0 = {}
        OBVIOUS
    <2>2. <<>> = [i \in 1 .. 0 |-> <<>>[i]]
        OBVIOUS
    <2> QED BY <2>1, <2>2 DEF Listed
<1>2. \A cases \in PdForms : Listed(cases)
    BY DEF ProblemDataAssumption, Listed
<1> QED BY <1>1, <1>2 DEF PdLists

\* A post that is not there is at no step.
LEMMA NoPostAt == NoDataPost.at = "none"
    BY DEF NoDataPost

\* A post in progress is at one of the steps.
LEMMA PostAt ==
    ASSUME PdTypes, NEW s \in Setters
    PROVE  /\ pd_posts[s] # NoDataPost <=> pd_posts[s] \in PdPosts
           /\ pd_posts[s].at \in PdAts <=> pd_posts[s] # NoDataPost
<1>1. pd_posts[s] \in PdPosts \cup {NoDataPost}
    BY DEF PdTypes
<1>2. \A q \in PdPosts : q.at \in PdAts
    BY DEF PdPosts
<1>3. ~("none" \in PdAts)
    BY DEF PdAts
<1> QED BY <1>1, <1>2, <1>3, NoPostAt

\* The invariant says what is asked of test data: this is where the pass over the cases matters.
LEMMA PdInvHolds ==
    ASSUME ProblemDataAssumption, PdInv
    PROVE  ProblemDataHolds
<1> SUFFICES ASSUME Undisturbed
             PROVE  /\ pd_zips = IF pd_row.zip = NoZip THEN {} ELSE {<<pd_code, pd_row.zip>>}
                    /\ \A c \in Codes : pd_inits[c] # NoInit => c = pd_code /\ pd_inits[c].archive = pd_row.zip
                    /\ pd_gone # NoZip => pd_row.zip = NoZip
                    /\ pd_inits[pd_code] # NoInit =>
                          /\ ~pd_row.feedback /\ IsCompilable(pd_cases, ValidFiles(pd_row, pd_gone))
                          /\ AreBatches(pd_cases, pd_inits[pd_code].cases)
                    /\ pd_inits[pd_code] = NoInit => (pd_row.feedback <=> ~IsCompilable(pd_cases, ValidFiles(pd_row, pd_gone)))
    BY DEF ProblemDataHolds, ArchiveIsThere, InitIsCompiled
<1> DEFINE result == Compiled(pd_cases, ValidFiles(pd_row, pd_gone))
<1>1. \A s \in Setters : pd_posts[s].at = "none"
    BY NoPostAt DEF Undisturbed
<1>2. PdWhole /\ PdTypes
    BY DEF Undisturbed, PdInv
<1>3. pd_zips = ZipsOf(pd_row) /\ pd_inits[pd_code] = InitOf(pd_cases, pd_row.zip, ValidFiles(pd_row, pd_gone)) /\ (pd_row.feedback <=> result.error)
    BY <1>1, <1>2 DEF PdWhole, ZipsRight, InitRight, FeedbackRight, Between, Writing, Compiling
<1>4. pd_zips = IF pd_row.zip = NoZip THEN {} ELSE {<<pd_code, pd_row.zip>>}
    BY <1>2, <1>3 DEF PdWhole, RowRight, ZipsOf
<1>5. Listed(pd_cases)
    BY <1>2, PdListed DEF PdTypes
<1>6. /\ result.error <=> ~IsCompilable(pd_cases, ValidFiles(pd_row, pd_gone))
      /\ ~result.error => AreBatches(pd_cases, result.done)
    BY <1>5, CompiledRight
<1> HIDE DEF result
<1>7. pd_inits[pd_code] # NoInit => /\ pd_inits[pd_code].archive = pd_row.zip
                                    /\ pd_inits[pd_code].cases = result.done
                                    /\ ~result.error
    BY <1>3 DEF InitOf, result
<1>8. /\ \A c \in Codes : c # pd_code => pd_inits[c] = NoInit
      /\ pd_gone # NoZip => pd_row.zip = NoZip
    BY <1>2 DEF PdWhole
<1> QED BY <1>3, <1>4, <1>6, <1>7, <1>8

\* A new problem has neither cases nor an archive nor init.yml.
LEMMA PdInitInv ==
    ASSUME ProblemDataAssumption, PdInit
    PROVE  PdInv
<1>1. pd_row \in PdRows /\ pd_row.zip = NoZip /\ pd_row.feedback = FALSE
    BY DEF PdInit, PdRows, NoZips, ProblemDataAssumption
<1>2. \A s \in Setters : pd_posts[s] = NoDataPost
    BY DEF PdInit
<1>3. PdTypes
    <2>1. pd_code \in Codes /\ pd_cases \in PdLists /\ pd_torn \in BOOLEAN /\ pd_gone \in NoZips
        BY DEF PdInit, PdLists, NoZips, ProblemDataAssumption
    <2>2. pd_inits \in [Codes -> PdInits]
        BY DEF PdInit, PdInits
    <2>3. pd_posts \in [Setters -> PdPosts \cup {NoDataPost}]
        BY DEF PdInit
    <2> QED BY <2>1, <2>2, <2>3, <1>1, <1>2 DEF PdTypes
<1>4. Listed(<<>>)
    BY PdListed DEF PdLists
<1>5. Compiled(<<>>, FilesOf(NoZip)).error = FALSE /\ InitOf(<<>>, NoZip, FilesOf(NoZip)) = NoInit
    <2>1. Len(<<>>) = 0
        OBVIOUS
    <2>2. Compiled(<<>>, FilesOf(NoZip)) = Begun
        <3>1. PICK pass : /\ pass[0] = Begun
                          /\ Compiled(<<>>, FilesOf(NoZip)) = IF pass[0].open /\ ~pass[0].error THEN Closed(pass[0]) ELSE pass[0]
            BY <1>4, <2>1, CompiledUnfold
        <3>2. pass[0].open = FALSE
            BY <3>1 DEF Begun
        <3> QED BY <3>1, <3>2
    <2>3. Begun.error = FALSE /\ Begun.done = <<>>
        BY DEF Begun
    <2> QED BY <2>2, <2>3 DEF InitOf
<1>6. pd_cases = <<>> /\ pd_zips = {} /\ pd_gone = NoZip /\ \A c \in Codes : pd_inits[c] = NoInit
    BY DEF PdInit
<1>7. PdWhole
    BY <1>1, <1>2, <1>3, <1>5, <1>6 DEF PdWhole, PdTypes, RowRight, ZipsRight, ZipsOf, InitRight, FeedbackRight, ValidFiles
<1> QED BY <1>3, <1>7 DEF PdInv

\* What a step leaves of a post that is not its own.
OthersStay(s) == \A t \in Setters : t # s => pd_posts'[t] = pd_posts[t]

\* A post that loads the row keeps the invariant.
LEMMA LoadKeeps ==
    ASSUME ProblemDataAssumption, PdInv, NEW s \in Setters,
           NEW upload \in Zips \cup {"keep", NoZip}, NEW form \in PdForms, Load(s, upload, form)
    PROVE  PdInv'
<1> DEFINE zip == IF upload = "keep" THEN pd_row.zip ELSE upload
           row == IF upload = "keep" THEN pd_row ELSE [pd_row EXCEPT !.code = pd_code, !.zip = upload]
           at == IF upload # "keep" THEN "delete" ELSE "row"
           post == [at |-> at, was |-> pd_row, code |-> pd_code, upload |-> upload, lost |-> NoZip, form |-> form,
                    files |-> FilesOf(zip), compiled |-> NoInit, row |-> row]
<1>1. PdTypes
    BY DEF PdInv
<1>2. /\ pd_posts[s] = NoDataPost /\ pd_posts' = [pd_posts EXCEPT ![s] = post]
      /\ UNCHANGED <<pd_code, pd_row, pd_cases, pd_zips, pd_inits, pd_gone, pd_torn>>
    BY DEF Load, PdStep
<1>3. zip \in NoZips /\ row \in PdRows /\ row.zip = zip /\ at \in PdAts /\ upload \in NoZips \cup {"keep"}
    BY <1>1 DEF PdTypes, PdRows, NoZips, PdAts
<1>4. /\ upload = "keep" => row = pd_row /\ at = "row"
      /\ upload # "keep" => row.zip = upload /\ row.code = pd_code /\ at = "delete"
    BY <1>1 DEF PdTypes, PdRows
<1> HIDE DEF zip, row, at
<1>5. post \in PdPosts /\ post # NoDataPost
    <2>1. FilesOf(zip) \in PdFiles /\ NoInit \in PdInits /\ pd_row \in PdRows /\ pd_code \in Codes /\ NoZip \in NoZips
        BY <1>1, <1>3 DEF PdTypes, PdInits, PdFiles, NoZips
    <2>2. post \in PdPosts
        BY <2>1, <1>3 DEF PdPosts
    <2>3. post.at # "none"
        BY <1>3 DEF PdAts
    <2> QED BY <2>2, <2>3, NoPostAt
<1>6. post.at = at /\ post.was = pd_row /\ post.code = pd_code /\ post.upload = upload /\ post.lost = NoZip /\ post.files = FilesOf(zip) /\ post.row = row
    OBVIOUS
<1> HIDE DEF post
<1>7. pd_posts'[s] = post /\ OthersStay(s)
    BY <1>1, <1>2 DEF PdTypes, OthersStay
<1>8. PdTypes'
    <2>1. (pd_posts \in [Setters -> PdPosts \cup {NoDataPost}])'
        BY <1>1, <1>2, <1>5 DEF PdTypes
    <2>2. (\A t \in Setters : pd_posts[t] # NoDataPost => PostTyped(pd_posts[t]))'
        BY <1>1, <1>3, <1>4, <1>6, <1>7 DEF PdTypes, OthersStay, ValidFiles, PostTyped, NoZips
    <2> QED BY <2>1, <2>2, <1>1, <1>2 DEF PdTypes
<1>9. ASSUME PdWhole PROVE PdWhole'
    <2>1. PostRight(post, pd_code)
        BY <1>3, <1>4, <1>6, <1>9 DEF PostRight, PdWhole, RowRight, PdAts
    <2>2. (\A t \in Setters : pd_posts[t] # NoDataPost => PostRight(pd_posts[t], pd_code))'
        BY <2>1, <1>2, <1>7, <1>9 DEF PdWhole, OthersStay
    <2>3. \A t \in Setters : pd_posts[t].at \in PdAts => pd_posts'[t] = pd_posts[t]
        BY <1>2, <1>7, NoPostAt DEF OthersStay, PdAts
    <2>4. ZipsRight'
        BY <2>3, <1>2, <1>9 DEF PdWhole, ZipsRight, Between, PdAts
    <2>5. InitRight'
        BY <2>3, <1>2, <1>9 DEF PdWhole, InitRight, Writing, PdAts
    <2>6. FeedbackRight'
        BY <2>3, <1>2, <1>9 DEF PdWhole, FeedbackRight, Compiling, PdAts
    <2> QED BY <2>2, <2>4, <2>5, <2>6, <1>2, <1>9 DEF PdWhole
<1> QED BY <1>2, <1>8, <1>9 DEF PdInv

\* A post goes on: the facts about the posts that every later step needs.
LEMMA PostGoesOn ==
    ASSUME PdTypes, NEW s \in Setters, NEW post, pd_posts' = [pd_posts EXCEPT ![s] = post],
           post = NoDataPost \/ (post \in PdPosts /\ PostTyped(post))
    PROVE  /\ pd_posts'[s] = post /\ OthersStay(s)
           /\ pd_posts' \in [Setters -> PdPosts \cup {NoDataPost}]
           /\ \A t \in Setters : pd_posts'[t] # NoDataPost => PostTyped(pd_posts'[t])
<1>1. pd_posts'[s] = post /\ OthersStay(s) /\ pd_posts' \in [Setters -> PdPosts \cup {NoDataPost}]
    BY DEF PdTypes, OthersStay
<1> QED BY <1>1 DEF PdTypes, OthersStay

\* So does one that deletes the old archive.
LEMMA DeleteOldKeeps ==
    ASSUME ProblemDataAssumption, PdInv, NEW s \in Setters, DeleteOld(s)
    PROVE  PdInv'
<1> DEFINE q == pd_posts[s]
           post == [Cleared(q) EXCEPT !.at = "row"]
<1>1. PdTypes
    BY DEF PdInv
<1>2. /\ q.at = "delete" /\ pd_posts' = [pd_posts EXCEPT ![s] = post]
      /\ pd_zips' = pd_zips \ {<<q.was.code, q.was.zip>>}
      /\ pd_torn' = (pd_torn \/ pd_row # q.was)
      /\ UNCHANGED <<pd_code, pd_row, pd_cases, pd_inits, pd_gone>>
    BY DEF DeleteOld, PdStep
<1>3. q \in PdPosts /\ q # NoDataPost
    BY <1>1, <1>2, PostAt DEF PdAts
<1>4. /\ post \in PdPosts /\ post.at = "row" /\ post.was = q.was /\ post.code = q.code /\ post.files = q.files
      /\ IF q.was.zip = NoZip THEN post.upload = q.upload /\ post.lost = q.lost /\ post.row = q.row
         ELSE /\ post.upload = NoZip /\ post.lost = q.upload
              /\ post.row = [q.row EXCEPT !.zip = NoZip] /\ post.row.zip = NoZip /\ post.row.code = q.row.code
    <2>1. NoZip \in NoZips /\ q.row \in PdRows /\ q.upload \in NoZips
        BY <1>1, <1>2, <1>3 DEF PdPosts, NoZips, PdTypes, PostTyped
    <2>2. /\ [q.row EXCEPT !.zip = NoZip] \in PdRows /\ [q.row EXCEPT !.zip = NoZip].zip = NoZip
          /\ [q.row EXCEPT !.zip = NoZip].code = q.row.code
        BY <2>1 DEF PdRows
    <2>3. CASE q.was.zip = NoZip
        <3>1. post = [q EXCEPT !.at = "row"]
            BY <2>3 DEF Cleared
        <3> QED BY <3>1, <2>3, <1>3 DEF PdPosts, PdAts
    <2>4. CASE q.was.zip # NoZip
        <3>1. post = [q EXCEPT !.at = "row", !.lost = q.upload, !.upload = NoZip, !.row = [q.row EXCEPT !.zip = NoZip]]
            BY <2>4, <1>3 DEF Cleared, PdPosts
        <3> HIDE DEF post
        <3> QED BY <3>1, <2>1, <2>2, <2>4, <1>3 DEF PdPosts, PdAts
    <2> QED BY <2>3, <2>4
<1>5. /\ pd_posts'[s] = post /\ OthersStay(s)
      /\ pd_posts' \in [Setters -> PdPosts \cup {NoDataPost}]
      /\ \A t \in Setters : pd_posts'[t] # NoDataPost => PostTyped(pd_posts'[t])
    <2>1. PostTyped(q) /\ q.upload \in NoZips /\ q.row.zip = q.upload /\ q.lost = NoZip
        BY <1>1, <1>2, <1>3 DEF PdTypes, PostTyped
    <2>2. PostTyped(post)
        BY <2>1, <1>4 DEF PostTyped, ValidFiles
    <2> HIDE DEF post
    <2> QED BY <2>2, <1>1, <1>2, <1>4, PostGoesOn
<1> HIDE DEF post
<1>6. PdTypes' /\ pd_torn \in BOOLEAN
    BY <1>1, <1>2, <1>5 DEF PdTypes
<1>7. ASSUME ~pd_torn' PROVE PdWhole'
    <2>1. PdWhole /\ pd_row = q.was
        BY <1>2, <1>6, <1>7 DEF PdInv
    <2>2. PostRight(q, pd_code)
        BY <2>1, <1>3 DEF PdWhole
    <2>3. PostRight(post, pd_code) /\ post.upload # "keep"
        BY <2>2, <1>2, <1>4 DEF PostRight, RowRight, NoZip
    <2>4. (\A t \in Setters : pd_posts[t] # NoDataPost => PostRight(pd_posts[t], pd_code))'
        BY <2>1, <2>3, <1>2, <1>5 DEF PdWhole, OthersStay
    <2>5. ZipsRight'
        <3>1. Between(pd_posts'[s])
            BY <2>3, <1>4, <1>5 DEF Between
        <3>2. pd_zips' = {}
            BY <2>1, <1>2 DEF PdWhole, ZipsRight, ZipsOf
        <3> QED BY <3>1, <3>2 DEF ZipsRight
    <2>6. InitRight'
        BY <2>1, <1>2, <1>5 DEF PdWhole, InitRight, Writing, OthersStay
    <2>7. FeedbackRight'
        BY <2>1, <1>2, <1>5 DEF PdWhole, FeedbackRight, Compiling, OthersStay
    <2> QED BY <2>1, <2>4, <2>5, <2>6, <2>7, <1>2 DEF PdWhole
<1> QED BY <1>6, <1>7 DEF PdInv

\* So does one that stores the new archive and the row.
LEMMA SaveRowKeeps ==
    ASSUME ProblemDataAssumption, PdInv, NEW s \in Setters, SaveRow(s)
    PROVE  PdInv'
<1> DEFINE q == pd_posts[s]
           post == [q EXCEPT !.at = "cases", !.was = q.row]
<1>1. PdTypes
    BY DEF PdInv
<1>2. /\ q.at = "row" /\ pd_posts' = [pd_posts EXCEPT ![s] = post]
      /\ pd_zips' = IF q.upload \in Zips THEN pd_zips \cup {<<q.code, q.upload>>} ELSE pd_zips
      /\ pd_row' = q.row /\ pd_gone' = q.lost
      /\ pd_torn' = (pd_torn \/ pd_row # q.was \/ (q.upload # "keep" /\ <<q.was.code, q.was.zip>> \in pd_zips))
      /\ UNCHANGED <<pd_code, pd_cases, pd_inits>>
    BY DEF SaveRow, PdStep
<1>3. q \in PdPosts /\ q # NoDataPost
    BY <1>1, <1>2, PostAt DEF PdAts
<1>4. /\ post \in PdPosts /\ post.at = "cases" /\ post.was = q.row /\ post.code = q.code /\ post.upload = q.upload
      /\ post.files = q.files /\ post.lost = q.lost /\ post.row = q.row /\ q.row \in PdRows /\ q.upload \in NoZips \cup {"keep"}
    BY <1>3 DEF PdPosts, PdAts
<1>5. /\ pd_posts'[s] = post /\ OthersStay(s)
      /\ pd_posts' \in [Setters -> PdPosts \cup {NoDataPost}]
      /\ \A t \in Setters : pd_posts'[t] # NoDataPost => PostTyped(pd_posts'[t])
    <2>1. PostTyped(post)
        BY <1>1, <1>3, <1>4 DEF PdTypes, PostTyped
    <2> HIDE DEF post
    <2> QED BY <2>1, <1>1, <1>2, <1>4, PostGoesOn
<1> HIDE DEF post
<1>6. PdTypes' /\ pd_torn \in BOOLEAN
    BY <1>1, <1>2, <1>3, <1>4, <1>5 DEF PdTypes, PdPosts
<1>7. ASSUME ~pd_torn' PROVE PdWhole'
    <2>1. PdWhole /\ pd_row = q.was /\ ~(q.upload # "keep" /\ <<q.was.code, q.was.zip>> \in pd_zips)
        BY <1>2, <1>6, <1>7 DEF PdInv
    <2>2. PostRight(q, pd_code)
        BY <2>1, <1>3 DEF PdWhole
    <2>3. PostRight(post, pd_code)
        BY <2>2, <1>4 DEF PostRight
    <2>4. (\A t \in Setters : pd_posts[t] # NoDataPost => PostRight(pd_posts[t], pd_code))'
        BY <2>1, <2>3, <1>2, <1>5 DEF PdWhole, OthersStay
    <2>5. ZipsRight'
        <3>1. CASE q.upload = "keep"
            <4>1. pd_row' = pd_row /\ pd_zips' = pd_zips
                BY <3>1, <2>1, <2>2, <1>2 DEF PostRight, ProblemDataAssumption
            <4>2. \A t \in Setters : Between(pd_posts[t]) => pd_posts'[t] = pd_posts[t]
                BY <3>1, <1>5 DEF Between, OthersStay
            <4> QED BY <4>1, <4>2, <2>1 DEF PdWhole, ZipsRight
        <3>2. CASE q.upload # "keep"
            <4>1. pd_zips = {}
                BY <3>2, <2>1 DEF PdWhole, ZipsRight, ZipsOf
            <4>2. q.row.zip = q.upload /\ q.row.code = q.code
                BY <3>2, <2>2, <1>2 DEF PostRight
            <4>3. q.upload \in Zips <=> q.upload # NoZip
                BY <3>2, <1>4 DEF NoZips, NoZip, ProblemDataAssumption
            <4> QED BY <4>1, <4>2, <4>3, <1>2 DEF ZipsRight, ZipsOf
        <3> QED BY <3>1, <3>2
    <2>6. InitRight' /\ FeedbackRight'
        BY <1>4, <1>5 DEF InitRight, FeedbackRight, Writing, Compiling
    <2>7. RowRight(pd_row, pd_code)' /\ (pd_gone # NoZip => pd_row.zip = NoZip)'
        BY <2>2, <1>2 DEF PostRight
    <2> QED BY <2>1, <2>4, <2>5, <2>6, <2>7, <1>2 DEF PdWhole
<1> QED BY <1>6, <1>7 DEF PdInv

\* So does one that stores the cases.
LEMMA SaveCasesKeeps ==
    ASSUME ProblemDataAssumption, PdInv, NEW s \in Setters, SaveCases(s)
    PROVE  PdInv'
<1> DEFINE q == pd_posts[s]
           post == [q EXCEPT !.at = "compile"]
<1>1. PdTypes
    BY DEF PdInv
<1>2. /\ q.at = "cases" /\ pd_posts' = [pd_posts EXCEPT ![s] = post]
      /\ pd_cases' = q.form
      /\ UNCHANGED <<pd_code, pd_row, pd_zips, pd_inits, pd_gone, pd_torn>>
    BY DEF SaveCases, PdStep
<1>3. q \in PdPosts /\ q # NoDataPost
    BY <1>1, <1>2, PostAt DEF PdAts
<1>4. /\ post \in PdPosts /\ post.at = "compile" /\ post.was = q.was /\ post.code = q.code /\ post.upload = q.upload
      /\ post.files = q.files /\ post.lost = q.lost /\ post.row = q.row /\ q.form \in PdForms
    BY <1>3 DEF PdPosts, PdAts
<1>5. /\ pd_posts'[s] = post /\ OthersStay(s)
      /\ pd_posts' \in [Setters -> PdPosts \cup {NoDataPost}]
      /\ \A t \in Setters : pd_posts'[t] # NoDataPost => PostTyped(pd_posts'[t])
    <2>1. PostTyped(post)
        BY <1>1, <1>3, <1>4 DEF PdTypes, PostTyped
    <2> HIDE DEF post
    <2> QED BY <2>1, <1>1, <1>2, <1>4, PostGoesOn
<1> HIDE DEF post
<1>6. PdTypes' /\ pd_torn \in BOOLEAN
    BY <1>1, <1>2, <1>4, <1>5 DEF PdTypes, PdLists
<1>7. ASSUME ~pd_torn' PROVE PdWhole'
    <2>1. PdWhole
        BY <1>2, <1>7 DEF PdInv
    <2>2. PostRight(q, pd_code)
        BY <2>1, <1>3 DEF PdWhole
    <2>3. PostRight(post, pd_code)
        BY <2>2, <1>2, <1>4 DEF PostRight
    <2>4. (\A t \in Setters : pd_posts[t] # NoDataPost => PostRight(pd_posts[t], pd_code))'
        BY <2>1, <2>3, <1>2, <1>5 DEF PdWhole, OthersStay
    <2>5. ZipsRight'
        <3>1. \A t \in Setters : Between(pd_posts[t]) => pd_posts'[t] = pd_posts[t]
            BY <1>2, <1>5 DEF Between, OthersStay
        <3> QED BY <3>1, <2>1, <1>2 DEF PdWhole, ZipsRight
    <2>6. InitRight' /\ FeedbackRight'
        BY <1>4, <1>5 DEF InitRight, FeedbackRight, Writing, Compiling
    <2> QED BY <2>1, <2>4, <2>5, <2>6, <1>2 DEF PdWhole
<1> QED BY <1>6, <1>7 DEF PdInv

\* So does one that compiles them and stores the feedback.
LEMMA CompileKeeps ==
    ASSUME ProblemDataAssumption, PdInv, NEW s \in Setters, Compile(s)
    PROVE  PdInv'
<1> DEFINE q == pd_posts[s]
           result == Compiled(pd_cases, q.files)
           made == IF result.error \/ (result.done = <<>> /\ q.row.zip = NoZip) THEN NoInit
                   ELSE [archive |-> q.row.zip, cases |-> result.done]
           post == [q EXCEPT !.at = "init", !.compiled = made]
           row == [q.row EXCEPT !.feedback = result.error]
<1>1. PdTypes
    BY DEF PdInv
<1>2. /\ q.at = "compile" /\ pd_posts' = [pd_posts EXCEPT ![s] = post]
      /\ pd_row' = row
      /\ pd_torn' = (pd_torn \/ pd_row # q.was \/ pd_cases # q.form \/ pd_gone # q.lost)
      /\ UNCHANGED <<pd_code, pd_cases, pd_zips, pd_inits, pd_gone>>
    BY DEF Compile, PdStep
<1>3. q \in PdPosts /\ q # NoDataPost
    BY <1>1, <1>2, PostAt DEF PdAts
<1>4. /\ PostTyped(q) /\ q.files = ValidFiles(q.row, q.lost) /\ q.row \in PdRows /\ q.row.zip \in NoZips
      /\ q.lost \in NoZips /\ q.files \in PdFiles
    BY <1>1, <1>3 DEF PdTypes, PdPosts, PdRows, PostTyped
<1>5. made = InitOf(pd_cases, q.row.zip, q.files) /\ made \in PdInits
    <2>1. made = InitOf(pd_cases, q.row.zip, q.files)
        BY DEF InitOf
    <2> HIDE DEF made
    <2> QED BY <2>1, <1>1, <1>4 DEF PdInits, PdTypes
<1>6. result.error \in BOOLEAN
    BY <1>1, PdListed, CompiledRight DEF PdTypes
<1> HIDE DEF made
<1>7. row \in PdRows /\ row.code = q.row.code /\ row.zip = q.row.zip /\ row.feedback = result.error
    <2> DEFINE error == result.error
               old == q.row
    <2>1. row = [old EXCEPT !.feedback = error] /\ error \in BOOLEAN /\ old \in PdRows
        BY <1>4, <1>6
    <2> HIDE DEF error, old, row
    <2>2. row \in PdRows /\ row.code = old.code /\ row.zip = old.zip /\ row.feedback = error
        BY <2>1 DEF PdRows
    <2> QED BY <2>2 DEF error, old
<1>8. /\ post \in PdPosts /\ post.at = "init" /\ post.was = q.was /\ post.code = q.code /\ post.upload = q.upload
      /\ post.files = q.files /\ post.lost = q.lost /\ post.row = q.row /\ post.form = q.form /\ post.compiled = made
    BY <1>3, <1>5 DEF PdPosts, PdAts
<1>9. /\ pd_posts'[s] = post /\ OthersStay(s)
      /\ pd_posts' \in [Setters -> PdPosts \cup {NoDataPost}]
      /\ \A t \in Setters : pd_posts'[t] # NoDataPost => PostTyped(pd_posts'[t])
    <2>1. PostTyped(post)
        BY <1>4, <1>8 DEF PostTyped
    <2> HIDE DEF post
    <2> QED BY <2>1, <1>1, <1>2, <1>8, PostGoesOn
<1> HIDE DEF post, row
<1>10. PdTypes' /\ pd_torn \in BOOLEAN
    BY <1>1, <1>2, <1>7, <1>9 DEF PdTypes
<1>11. ASSUME ~pd_torn' PROVE PdWhole'
    <2>1. PdWhole /\ pd_row = q.was /\ pd_cases = q.form /\ pd_gone = q.lost
        BY <1>2, <1>10, <1>11 DEF PdInv
    <2>2. PostRight(q, pd_code)
        BY <2>1, <1>3 DEF PdWhole
    <2>3. PostRight(post, pd_code) /\ q.was = q.row
        BY <2>1, <2>2, <1>2, <1>5, <1>8 DEF PostRight
    <2>4. (\A t \in Setters : pd_posts[t] # NoDataPost => PostRight(pd_posts[t], pd_code))'
        BY <2>1, <2>3, <1>2, <1>9 DEF PdWhole, OthersStay
    <2>5. row.code = pd_row.code /\ row.zip = pd_row.zip
        BY <2>1, <2>3, <1>7
    <2>6. ZipsRight'
        <3>1. \A t \in Setters : Between(pd_posts[t]) => pd_posts'[t] = pd_posts[t]
            BY <1>2, <1>9 DEF Between, OthersStay
        <3> QED BY <3>1, <2>1, <2>5, <1>2 DEF PdWhole, ZipsRight, ZipsOf
    <2>7. InitRight'
        BY <1>8, <1>9 DEF InitRight, Writing
    <2>8. FeedbackRight'
        <3>1. pd_row'.feedback = Compiled(pd_cases', ValidFiles(pd_row', pd_gone')).error
            BY <2>1, <1>2, <1>4, <1>7 DEF ValidFiles
        <3> QED BY <3>1 DEF FeedbackRight
    <2>9. RowRight(pd_row, pd_code)' /\ (pd_gone # NoZip => pd_row.zip = NoZip)'
        BY <2>1, <2>5, <1>2 DEF PdWhole, RowRight
    <2> QED BY <2>1, <2>4, <2>6, <2>7, <2>8, <2>9, <1>2 DEF PdWhole
<1> QED BY <1>10, <1>11 DEF PdInv

\* So does one that writes init.yml.
LEMMA WriteInitKeeps ==
    ASSUME ProblemDataAssumption, PdInv, NEW s \in Setters, WriteInit(s)
    PROVE  PdInv'
<1> DEFINE q == pd_posts[s]
<1>1. PdTypes
    BY DEF PdInv
<1>2. /\ q.at = "init" /\ pd_posts' = [pd_posts EXCEPT ![s] = NoDataPost]
      /\ pd_inits' = [pd_inits EXCEPT ![q.code] = q.compiled]
      /\ pd_torn' = (pd_torn \/ pd_code # q.code \/ pd_row.zip # q.row.zip \/ pd_cases # q.form \/ pd_gone # q.lost)
      /\ UNCHANGED <<pd_code, pd_row, pd_cases, pd_zips, pd_gone>>
    BY DEF WriteInit, Written, PdStep
<1>3. q \in PdPosts /\ q # NoDataPost /\ q.compiled \in PdInits
    <2>1. q \in PdPosts /\ q # NoDataPost
        BY <1>1, <1>2, PostAt DEF PdAts
    <2> QED BY <2>1 DEF PdPosts
<1>4. /\ pd_posts'[s] = NoDataPost /\ OthersStay(s)
      /\ pd_posts' \in [Setters -> PdPosts \cup {NoDataPost}]
      /\ \A t \in Setters : pd_posts'[t] # NoDataPost => PostTyped(pd_posts'[t])
    BY <1>1, <1>2, PostGoesOn
<1>5. PdTypes' /\ pd_torn \in BOOLEAN
    BY <1>1, <1>2, <1>3, <1>4 DEF PdTypes
<1>6. ASSUME ~pd_torn' PROVE PdWhole'
    <2>1. PdWhole /\ pd_code = q.code /\ pd_row.zip = q.row.zip /\ pd_cases = q.form /\ pd_gone = q.lost
        BY <1>2, <1>5, <1>6 DEF PdInv
    <2>2. q.compiled = InitOf(pd_cases, pd_row.zip, ValidFiles(pd_row, pd_gone))
        BY <2>1, <1>1, <1>2, <1>3 DEF PdWhole, PostRight, PdTypes, PostTyped, ValidFiles
    <2>3. (\A t \in Setters : pd_posts[t] # NoDataPost => PostRight(pd_posts[t], pd_code))'
        BY <2>1, <1>2, <1>4 DEF PdWhole, OthersStay
    <2>4. ZipsRight'
        <3>1. \A t \in Setters : Between(pd_posts[t]) => pd_posts'[t] = pd_posts[t]
            BY <1>2, <1>4 DEF Between, OthersStay
        <3> QED BY <3>1, <2>1, <1>2 DEF PdWhole, ZipsRight
    <2>5. pd_code \in Codes /\ pd_inits \in [Codes -> PdInits]
        BY <1>1 DEF PdTypes
    <2>6. InitRight'
        BY <2>1, <2>2, <2>5, <1>2 DEF InitRight
    <2>7. FeedbackRight'
        <3>1. \A t \in Setters : Compiling(pd_posts[t]) => pd_posts'[t] = pd_posts[t]
            BY <1>2, <1>4 DEF Compiling, OthersStay
        <3> QED BY <3>1, <2>1, <1>2 DEF PdWhole, FeedbackRight
    <2>8. (\A c \in Codes : c # pd_code => pd_inits[c] = NoInit)'
        BY <2>1, <2>5, <1>2 DEF PdWhole
    <2> QED BY <2>1, <2>3, <2>4, <2>6, <2>7, <2>8, <1>2 DEF PdWhole
<1> QED BY <1>5, <1>6 DEF PdInv

\* So does one that dies, which is remembered.
LEMMA PdDiesKeeps ==
    ASSUME ProblemDataAssumption, PdInv, NEW s \in Setters, PdDies(s)
    PROVE  PdInv'
<1>1. PdTypes
    BY DEF PdInv
<1>2. /\ pd_posts' = [pd_posts EXCEPT ![s] = NoDataPost] /\ pd_torn' = TRUE
      /\ UNCHANGED <<pd_code, pd_row, pd_cases, pd_zips, pd_inits, pd_gone>>
    BY DEF PdDies, PdStep
<1>3. /\ pd_posts' \in [Setters -> PdPosts \cup {NoDataPost}]
      /\ \A t \in Setters : pd_posts'[t] # NoDataPost => PostTyped(pd_posts'[t])
    BY <1>1, <1>2, PostGoesOn
<1>4. PdTypes'
    BY <1>1, <1>2, <1>3 DEF PdTypes
<1> QED BY <1>2, <1>4 DEF PdInv

\* So does a new code of the problem, which moves the directory.
LEMMA ChangeCodeKeeps ==
    ASSUME ProblemDataAssumption, PdInv, NEW c \in Codes, ChangeCode(c)
    PROVE  PdInv'
<1>1. PdTypes
    BY DEF PdInv
<1>2. /\ c # pd_code
      /\ pd_inits' = [pd_inits EXCEPT ![c] = pd_inits[pd_code], ![pd_code] = NoInit]
      /\ pd_zips' = {<<IF f[1] = pd_code THEN c ELSE f[1], f[2]>> : f \in pd_zips}
      /\ UNCHANGED <<pd_cases, pd_posts, pd_gone>>
    BY DEF ChangeCode, Moved
<1>3. \/ /\ pd_code' = c
         /\ pd_row' = IF pd_row.zip = NoZip THEN pd_row ELSE [pd_row EXCEPT !.code = c]
         /\ pd_torn' = (pd_torn \/ \E s \in Setters : pd_posts[s] # NoDataPost)
      \/ pd_torn' = TRUE /\ UNCHANGED <<pd_code, pd_row>>
    BY DEF ChangeCode
<1>4. /\ pd_code \in Codes /\ pd_row \in PdRows /\ pd_inits \in [Codes -> PdInits] /\ pd_torn \in BOOLEAN /\ NoInit \in PdInits
    BY <1>1 DEF PdTypes, PdInits
<1>5. /\ pd_inits' \in [Codes -> PdInits] /\ pd_inits'[c] = pd_inits[pd_code] /\ pd_inits'[pd_code] = NoInit
      /\ \A d \in Codes : d # c /\ d # pd_code => pd_inits'[d] = pd_inits[d]
    BY <1>2, <1>4
<1>6. PdTypes'
    <2>1. pd_code' \in Codes /\ pd_row' \in PdRows
        BY <1>3, <1>4 DEF PdRows
    <2>2. pd_torn' \in BOOLEAN
        BY <1>3, <1>4
    <2> QED BY <2>1, <2>2, <1>1, <1>2, <1>5 DEF PdTypes
<1>7. ASSUME ~pd_torn' PROVE PdWhole'
    <2>1. /\ pd_code' = c /\ pd_row' = IF pd_row.zip = NoZip THEN pd_row ELSE [pd_row EXCEPT !.code = c]
          /\ PdWhole /\ \A s \in Setters : pd_posts[s] = NoDataPost
        BY <1>3, <1>4, <1>7 DEF PdInv
    <2>2. pd_row'.zip = pd_row.zip /\ pd_row'.feedback = pd_row.feedback /\ (pd_row.zip # NoZip => pd_row'.code = c)
        BY <2>1, <1>4 DEF PdRows
    <2>3. \A s \in Setters : ~Between(pd_posts[s]) /\ ~Writing(pd_posts[s]) /\ ~Compiling(pd_posts[s])
        BY <2>1, NoPostAt DEF Between, Writing, Compiling
    <2>4. pd_zips = ZipsOf(pd_row)
        BY <2>1, <2>3 DEF PdWhole, ZipsRight
    <2>5. ZipsRight'
        <3>1. CASE pd_row.zip = NoZip
            BY <3>1, <2>2, <2>4, <1>2 DEF ZipsRight, ZipsOf
        <3>2. CASE pd_row.zip # NoZip
            <4>1. pd_zips = {<<pd_code, pd_row.zip>>}
                BY <3>2, <2>1, <2>4 DEF ZipsOf, PdWhole, RowRight
            <4>2. pd_zips' = {<<c, pd_row.zip>>}
                BY <4>1, <1>2
            <4> QED BY <3>2, <4>2, <2>2 DEF ZipsRight, ZipsOf
        <3> QED BY <3>1, <3>2
    <2>6. InitRight'
        <3>1. pd_inits[pd_code] = InitOf(pd_cases, pd_row.zip, ValidFiles(pd_row, pd_gone))
            BY <2>1, <2>3 DEF PdWhole, InitRight
        <3> QED BY <3>1, <2>1, <2>2, <1>2, <1>5 DEF InitRight, ValidFiles
    <2>7. FeedbackRight'
        <3>1. pd_row.feedback <=> Compiled(pd_cases, ValidFiles(pd_row, pd_gone)).error
            BY <2>1, <2>3 DEF PdWhole, FeedbackRight
        <3> QED BY <3>1, <2>2, <1>2 DEF FeedbackRight, ValidFiles
    <2>8. (\A d \in Codes : d # pd_code => pd_inits[d] = NoInit)'
        BY <2>1, <1>5 DEF PdWhole
    <2>9. RowRight(pd_row, pd_code)'
        BY <2>1, <2>2 DEF RowRight
    <2>10. (\A s \in Setters : pd_posts[s] # NoDataPost => PostRight(pd_posts[s], pd_code))'
        BY <2>1, <1>2
    <2>11. (pd_gone # NoZip => pd_row.zip = NoZip)'
        BY <2>1, <2>2, <1>2 DEF PdWhole
    <2> QED BY <2>5, <2>6, <2>7, <2>8, <2>9, <2>10, <2>11 DEF PdWhole
<1> QED BY <1>6, <1>7 DEF PdInv

\* Every step of the posts keeps the invariant.
LEMMA PdStepInv ==
    ASSUME ProblemDataAssumption, PdInv, [PdNext]_pdvars
    PROVE  PdInv'
<1>1. CASE PdNext
    BY <1>1, LoadKeeps, DeleteOldKeeps, SaveRowKeeps, SaveCasesKeeps, CompileKeeps, WriteInitKeeps, PdDiesKeeps,
       ChangeCodeKeeps DEF PdNext
<1>2. CASE UNCHANGED pdvars
    BY <1>2 DEF pdvars, PdInv, PdTypes, PdWhole, ZipsRight, InitRight, FeedbackRight
<1> QED BY <1>1, <1>2

-----------------------------------------------------------------------------
(* Clones.                                                                 *)

CnItem == [public : BOOLEAN, orgs : SUBSET CnOrgs, there : BOOLEAN]
CnRequest == [at : {"none", "loaded", "failed", "done"}, from : CnCodes, to : CnCodes]
CnRow == [of : CnCodes, what : CnParts, first : CnCodes]

CnTypes ==
    /\ cn_items \in [CnCodes -> CnItem]
    /\ cn_requests \in [CnRequests -> CnRequest]
    /\ cn_rows \subseteq CnRow
    /\ cn_parent \in [CnCodes -> CnCodes]
    /\ cn_should \in [CnCodes -> SUBSET CnParts]

\* A code is in use when it is the first one or that of a request that ended well.
CnMade(r, c) == cn_requests[r].at = "done" /\ cn_requests[r].to = c

CodesRight ==
    /\ ItemExists(CnFirst)
    /\ \A c \in CnCodes \ {CnFirst} : ItemExists(c) <=> \E r \in CnRequests : CnMade(r, c)
    /\ \A r, o \in CnRequests, c \in CnCodes \ {CnFirst} : CnMade(r, c) /\ CnMade(o, c) => r = o
    /\ \A r \in CnRequests : cn_requests[r].at = "loaded" => ItemExists(cn_requests[r].from)

HasPart(code, p) == \E row \in cn_rows : row.of = code /\ row.what = p

\* The parts of an item are those of its rows.
LEMMA PartsAre == \A code, p : p \in PartsOf(code) <=> HasPart(code, p)
BY DEF PartsOf, HasPart

PartsRight ==
    \A code \in CnCodes :
        /\ \A p : HasPart(code, p) => p \in cn_should[code]
        /\ \A p \in cn_should[code] : ~HasPart(code, p) =>
             /\ cn_kind = "problem"
             /\ \E clone \in CnCodes \ {CnFirst} : cn_parent[clone] = code /\ ItemExists(clone)

CnInv == CnTypes /\ CodesRight /\ RowsApart /\ PartsRight

\* The first item has its parts, and there are no clones.
THEOREM CnInitInv == ClonesAssumption /\ CnInit => CnInv
<1> SUFFICES ASSUME ClonesAssumption, CnInit PROVE CnInv
    OBVIOUS
<1>1. NoItem \in CnItem /\ [NoItem EXCEPT !.there = TRUE] \in CnItem /\ ~NoItem.there
      /\ [NoItem EXCEPT !.there = TRUE].there
    BY DEF NoItem, CnItem
<1>2. NotCloning \in CnRequest /\ NotCloning.at = "none"
    BY DEF NotCloning, CnRequest, ClonesAssumption
<1>3. CnFirst \in CnCodes
    BY DEF ClonesAssumption
<1>4. cn_items \in [CnCodes -> CnItem] /\ cn_items[CnFirst].there /\ \A c \in CnCodes \ {CnFirst} : ~cn_items[c].there
    BY <1>1, <1>3 DEF CnInit
<1>5. cn_rows \subseteq CnRow /\ \A row \in cn_rows : row.of = CnFirst /\ row.what \in CnParts
    BY <1>3 DEF CnInit, CnRow
<1>6. CnTypes
    BY <1>2, <1>3, <1>4, <1>5 DEF CnInit, CnTypes
<1>7. \A r \in CnRequests : cn_requests[r].at = "none"
    BY <1>2 DEF CnInit
<1>8. CodesRight
    BY <1>4, <1>7 DEF CodesRight, CnMade, ItemExists
<1>9. RowsApart
    BY <1>4 DEF RowsApart, ItemExists, CnInit
<1>10. PartsRight
    <2>1. \A c \in CnCodes : cn_should[c] = IF c = CnFirst THEN CnParts ELSE {}
        BY DEF CnInit
    <2>2. \A p \in CnParts : HasPart(CnFirst, p)
        <3> TAKE p \in CnParts
        <3> DEFINE row == [of |-> CnFirst, what |-> p, first |-> CnFirst]
        <3>1. row \in cn_rows /\ row.of = CnFirst /\ row.what = p
            BY DEF CnInit
        <3> HIDE DEF row
        <3> QED BY <3>1 DEF HasPart
    <2>3. \A c, p : HasPart(c, p) => c = CnFirst /\ p \in CnParts
        BY <1>5 DEF HasPart
    <2> QED BY <2>1, <2>2, <2>3 DEF PartsRight
<1> QED BY <1>6, <1>8, <1>9, <1>10 DEF CnInv

\* A step of a request replaces its own entry alone.
LEMMA CloneRequests ==
    ASSUME CnTypes, NEW r \in CnRequests, NEW request \in CnRequest, cn_requests' = [cn_requests EXCEPT ![r] = request]
    PROVE  /\ cn_requests' \in [CnRequests -> CnRequest]
           /\ cn_requests'[r] = request
           /\ \A o \in CnRequests \ {r} : cn_requests'[o] = cn_requests[o]
BY DEF CnTypes

\* A request that loads the item keeps the invariant.
LEMMA LoadCloneKeeps ==
    ASSUME CnInv, NEW r \in CnRequests, NEW from \in CnCodes, NEW to \in CnCodes, LoadClone(r, from, to)
    PROVE  CnInv'
<1> DEFINE request == [at |-> "loaded", from |-> from, to |-> to]
<1>1. /\ cn_requests[r].at = "none" /\ ItemExists(from) /\ cn_requests' = [cn_requests EXCEPT ![r] = request]
      /\ UNCHANGED <<cn_kind, cn_items, cn_rows, cn_parent, cn_should>>
    BY DEF LoadClone
<1>2. CnTypes
    BY DEF CnInv
<1>3. request \in CnRequest /\ request.at = "loaded" /\ request.from = from
    BY DEF CnRequest
<1> HIDE DEF request
<1>4. /\ cn_requests' \in [CnRequests -> CnRequest] /\ cn_requests'[r] = request
      /\ \A o \in CnRequests \ {r} : cn_requests'[o] = cn_requests[o]
    BY <1>1, <1>2, <1>3, CloneRequests
<1>5. CnTypes'
    BY <1>1, <1>2, <1>4 DEF CnTypes
<1>6. \A o \in CnRequests, c \in CnCodes : CnMade(o, c)' <=> CnMade(o, c)
    BY <1>1, <1>3, <1>4 DEF CnMade
<1>7. CodesRight'
    <2>1. \A c : ItemExists(c)' <=> ItemExists(c)
        BY <1>1 DEF ItemExists
    <2>2. \A o \in CnRequests : cn_requests'[o].at = "loaded" => ItemExists(cn_requests'[o].from)
        BY <1>1, <1>3, <1>4 DEF CnInv, CodesRight
    <2>3. /\ ItemExists(CnFirst)'
          /\ \A c \in CnCodes \ {CnFirst} : ItemExists(c)' <=> \E o \in CnRequests : CnMade(o, c)'
          /\ \A i, o \in CnRequests, c \in CnCodes \ {CnFirst} : CnMade(i, c)' /\ CnMade(o, c)' => i = o
        BY <1>6, <2>1 DEF CnInv, CodesRight
    <2>4. \A o \in CnRequests : cn_requests'[o].at = "loaded" => cn_items'[cn_requests'[o].from].there
        BY <2>2, <1>1 DEF ItemExists
    <2> QED BY <2>3, <2>4 DEF CodesRight, ItemExists
<1>8. RowsApart' /\ PartsRight'
    BY <1>1 DEF CnInv, RowsApart, PartsRight, HasPart, ItemExists
<1> QED BY <1>5, <1>7, <1>8 DEF CnInv

\* So does an editor who changes an item.
LEMMA EditItemKeeps ==
    ASSUME CnInv, NEW code \in CnCodes, NEW public \in BOOLEAN, NEW orgs \in SUBSET CnOrgs, NEW parts \in SUBSET CnParts,
           EditItem(code, public, orgs, parts)
    PROVE  CnInv'
<1> DEFINE item == [cn_items[code] EXCEPT !.public = public, !.orgs = orgs]
           kept == {row \in cn_rows : row.of # code \/ row.what \in parts}
           new == {[of |-> code, what |-> p, first |-> code] : p \in parts \ PartsOf(code)}
<1>1. /\ ItemExists(code) /\ cn_items' = [cn_items EXCEPT ![code] = item]
      /\ cn_rows' = kept \cup new /\ cn_should' = [cn_should EXCEPT ![code] = parts]
      /\ UNCHANGED <<cn_kind, cn_requests, cn_parent>>
    BY DEF EditItem
<1>2. CnTypes
    BY DEF CnInv
<1>3. item \in CnItem /\ item.there = cn_items[code].there
    <2> DEFINE old == cn_items[code]
    <2>1. old \in CnItem /\ item = [old EXCEPT !.public = public, !.orgs = orgs]
        BY <1>2 DEF CnTypes
    <2> HIDE DEF old, item
    <2>2. item \in CnItem /\ item.there = old.there
        BY <2>1 DEF CnItem
    <2> QED BY <2>2 DEF old
<1>4. /\ kept \subseteq CnRow /\ kept \subseteq cn_rows
      /\ \A row \in cn_rows : row \in kept <=> row.of # code \/ row.what \in parts
    BY <1>2 DEF CnTypes
<1>5. /\ new \subseteq CnRow
      /\ \A row \in new : row.of = code /\ row.what \in parts /\ ~HasPart(code, row.what)
                          /\ row = [of |-> code, what |-> row.what, first |-> code]
      /\ \A p \in parts : ~HasPart(code, p) => \E row \in new : row.of = code /\ row.what = p
    <2>1. \A p \in parts : [of |-> code, what |-> p, first |-> code] \in CnRow
        BY DEF CnRow
    <2>2. \A row : row \in new <=> \E p \in parts : ~HasPart(code, p) /\ row = [of |-> code, what |-> p, first |-> code]
        BY PartsAre
    <2> HIDE DEF new
    <2>3. new \subseteq CnRow
        BY <2>1, <2>2
    <2>4. \A row \in new : row.of = code /\ row.what \in parts /\ ~HasPart(code, row.what)
                            /\ row = [of |-> code, what |-> row.what, first |-> code]
        BY <2>2
    <2>5. \A p \in parts : ~HasPart(code, p) => \E row \in new : row.of = code /\ row.what = p
        <3> TAKE p \in parts
        <3>1. ~HasPart(code, p) => [of |-> code, what |-> p, first |-> code] \in new
            BY <2>2
        <3> QED BY <3>1
    <2> QED BY <2>3, <2>4, <2>5
<1> HIDE DEF item, kept, new
<1>6. /\ cn_items' \in [CnCodes -> CnItem] /\ \A c \in CnCodes : ItemExists(c)' <=> ItemExists(c)
    BY <1>1, <1>2, <1>3 DEF CnTypes, ItemExists
<1>7. cn_should' \in [CnCodes -> SUBSET CnParts] /\ cn_should'[code] = parts
      /\ \A c \in CnCodes \ {code} : cn_should'[c] = cn_should[c]
    BY <1>1, <1>2 DEF CnTypes
<1>8. CnTypes'
    BY <1>1, <1>2, <1>4, <1>5, <1>6, <1>7 DEF CnTypes
<1>9. CodesRight'
    <2>1. \A o \in CnRequests, c \in CnCodes : CnMade(o, c)' <=> CnMade(o, c)
        BY <1>1 DEF CnMade
    <2>2. \A o \in CnRequests : cn_requests[o].from \in CnCodes
        BY <1>2 DEF CnTypes, CnRequest
    <2>3. \A o \in CnRequests : cn_requests'[o].at = "loaded" => cn_items'[cn_requests'[o].from].there
        BY <1>1, <1>6, <2>2 DEF CnInv, CodesRight, ItemExists
    <2>4. cn_items[CnFirst].there = cn_items'[CnFirst].there
        BY <1>1, <1>2, <1>3 DEF CnTypes
    <2>5. ItemExists(CnFirst)'
        BY <2>4 DEF CnInv, CodesRight, ItemExists
    <2>6. /\ \A c \in CnCodes \ {CnFirst} : ItemExists(c)' <=> \E o \in CnRequests : CnMade(o, c)'
          /\ \A i, o \in CnRequests, c \in CnCodes \ {CnFirst} : CnMade(i, c)' /\ CnMade(o, c)' => i = o
        BY <1>6, <2>1 DEF CnInv, CodesRight
    <2> QED BY <2>3, <2>5, <2>6 DEF CodesRight, ItemExists
<1>10. RowsApart'
    <2>1. \A row \in cn_rows' : cn_items'[row.of].there
        BY <1>1, <1>2, <1>4, <1>5, <1>6 DEF CnInv, RowsApart, ItemExists, CnTypes, CnRow
    <2>2. ASSUME NEW one \in cn_rows', NEW other \in cn_rows', one.of = other.of, one.what = other.what
          PROVE  one = other
        <3>1. CASE one \in kept /\ other \in kept
            BY <2>2, <3>1, <1>4 DEF CnInv, RowsApart
        <3>2. CASE one \in new /\ other \in new
            BY <2>2, <3>2, <1>5
        <3>3. CASE one \in kept /\ other \in new
            BY <2>2, <3>3, <1>4, <1>5 DEF HasPart
        <3>4. CASE one \in new /\ other \in kept
            BY <2>2, <3>4, <1>4, <1>5 DEF HasPart
        <3> QED BY <3>1, <3>2, <3>3, <3>4, <1>1
    <2> QED BY <2>1, <2>2 DEF RowsApart, ItemExists
<1>11. PartsRight'
    <2>1. \A p : HasPart(code, p)' <=> p \in parts
        BY <1>1, <1>4, <1>5 DEF HasPart
    <2>2. \A c \in CnCodes \ {code} : \A p : HasPart(c, p)' <=> HasPart(c, p)
        BY <1>1, <1>4, <1>5 DEF HasPart
    <2> SUFFICES ASSUME NEW c \in CnCodes
                 PROVE  /\ \A p : HasPart(c, p)' => p \in cn_should'[c]
                        /\ \A p \in cn_should'[c] : ~HasPart(c, p)' =>
                             /\ cn_kind' = "problem"
                             /\ \E clone \in CnCodes \ {CnFirst} : cn_parent'[clone] = c /\ ItemExists(clone)'
        BY DEF PartsRight, HasPart, ItemExists
    <2>3. CASE c = code
        BY <2>1, <2>3, <1>7
    <2>4. CASE c # code
        BY <2>2, <2>4, <1>1, <1>6, <1>7 DEF CnInv, PartsRight
    <2> QED BY <2>3, <2>4
<1> QED BY <1>8, <1>9, <1>10, <1>11 DEF CnInv

\* A request that fails leaves no trace.
LEMMA CloneFails ==
    ASSUME CnInv, NEW r \in CnRequests, cn_requests[r].at = "loaded", EndClone(r, "failed"),
           UNCHANGED <<cn_kind, cn_items, cn_rows, cn_parent, cn_should>>
    PROVE  CnInv'
<1> DEFINE request == [cn_requests[r] EXCEPT !.at = "failed"]
<1>1. CnTypes
    BY DEF CnInv
<1>2. request \in CnRequest /\ request.at = "failed"
    BY <1>1 DEF CnRequest, CnTypes
<1>3. cn_requests' = [cn_requests EXCEPT ![r] = request]
    BY DEF EndClone
<1> HIDE DEF request
<1>4. /\ cn_requests' \in [CnRequests -> CnRequest] /\ cn_requests'[r] = request
      /\ \A o \in CnRequests \ {r} : cn_requests'[o] = cn_requests[o]
    BY <1>1, <1>2, <1>3, CloneRequests
<1>5. CnTypes'
    BY <1>1, <1>4 DEF CnTypes
<1>6. \A o \in CnRequests, c \in CnCodes : CnMade(o, c)' <=> CnMade(o, c)
    BY <1>2, <1>4 DEF CnMade
<1>7. CodesRight'
    <2>1. \A o \in CnRequests : cn_requests'[o].at = "loaded" => cn_items'[cn_requests'[o].from].there
        BY <1>2, <1>4 DEF CnInv, CodesRight, ItemExists
    <2>2. /\ ItemExists(CnFirst)'
          /\ \A c \in CnCodes \ {CnFirst} : ItemExists(c)' <=> \E o \in CnRequests : CnMade(o, c)'
          /\ \A i, o \in CnRequests, c \in CnCodes \ {CnFirst} : CnMade(i, c)' /\ CnMade(o, c)' => i = o
        BY <1>6 DEF CnInv, CodesRight, ItemExists
    <2> QED BY <2>1, <2>2 DEF CodesRight, ItemExists
<1>8. RowsApart' /\ PartsRight'
    BY DEF CnInv, RowsApart, PartsRight, HasPart, ItemExists
<1> QED BY <1>5, <1>7, <1>8 DEF CnInv

\* And one that ends well stores the row and what it takes or copies.
LEMMA CloneEnds ==
    ASSUME CnInv, NEW r \in CnRequests, NEW from \in CnCodes, NEW to \in CnCodes, NEW given, NEW kind,
           from = cn_requests[r].from, to = cn_requests[r].to, given = PartsOf(from), kind = cn_kind,
           cn_requests[r].at = "loaded", FormValid(r), ~ItemExists(to), ~cn_lessons
    PROVE  CnInv'
<1> DEFINE request == [cn_requests[r] EXCEPT !.at = "done"]
           item == HiddenItem(from)
<1>1. /\ cn_requests' = [cn_requests EXCEPT ![r] = request]
      /\ cn_items' = [cn_items EXCEPT ![to] = item]
      /\ cn_rows' = RowsAfter(from, to)
      /\ cn_parent' = [cn_parent EXCEPT ![to] = from]
      /\ cn_should' = [cn_should EXCEPT ![to] = given]
      /\ cn_kind' = cn_kind
    BY DEF FormValid, EndClone
<1>2. CnTypes
    BY DEF CnInv
<1>4. request \in CnRequest /\ request.at = "done" /\ request.to = to
    BY <1>2 DEF CnRequest, CnTypes
<1>5. ItemExists(from) /\ ~ItemExists(to) /\ from # to /\ to # CnFirst
    BY DEF CnInv, CodesRight
<1>6. item \in CnItem /\ item.there
    <2> DEFINE old == cn_items[from]
    <2>1. old \in CnItem /\ old.there /\ item = [old EXCEPT !.public = FALSE]
        BY <1>2, <1>5 DEF CnTypes, ItemExists, HiddenItem
    <2> HIDE DEF old, item
    <2> QED BY <2>1 DEF CnItem
<1>7. \A p : p \in given <=> HasPart(from, p)
    BY PartsAre
<1>8. given \in SUBSET CnParts
    BY <1>2, <1>7 DEF HasPart, CnTypes, CnRow
<1>9. ~\E row \in cn_rows : row.of = to
    BY <1>5 DEF CnInv, RowsApart
<1>11. cn_rows' = IF kind = "problem"
                  THEN {IF row.of = from THEN [row EXCEPT !.of = to] ELSE row : row \in cn_rows}
                  ELSE cn_rows \cup {[of |-> to, what |-> p, first |-> to] : p \in given}
    BY <1>1 DEF RowsAfter
<1> HIDE DEF request, item
<1>12. /\ cn_requests' \in [CnRequests -> CnRequest] /\ cn_requests'[r] = request
       /\ \A o \in CnRequests \ {r} : cn_requests'[o] = cn_requests[o]
    BY <1>1, <1>2, <1>4, CloneRequests
<1>13. /\ cn_items' \in [CnCodes -> CnItem] /\ cn_items'[to].there /\ \A c \in CnCodes \ {to} : cn_items'[c] = cn_items[c]
    BY <1>1, <1>2, <1>6 DEF CnTypes
<1>14. /\ cn_parent' \in [CnCodes -> CnCodes] /\ cn_parent'[to] = from
       /\ \A c \in CnCodes \ {to} : cn_parent'[c] = cn_parent[c]
       /\ cn_should' \in [CnCodes -> SUBSET CnParts] /\ cn_should'[to] = given
       /\ \A c \in CnCodes \ {to} : cn_should'[c] = cn_should[c]
    BY <1>1, <1>2, <1>8 DEF CnTypes
<1> DEFINE New(row) == [of |-> to, what |-> row.what, first |-> IF kind = "problem" THEN row.first ELSE to]
<1>15. cn_rows' = IF kind = "problem" THEN {row \in cn_rows : row.of # from} \cup {New(row) : row \in {w \in cn_rows : w.of = from}}
                  ELSE cn_rows \cup {New(row) : row \in {w \in cn_rows : w.of = from}}
    <2>1. CASE kind = "problem"
        <3> DEFINE Put(row) == IF row.of = from THEN [row EXCEPT !.of = to] ELSE row
        <3>1. \A row \in cn_rows : Put(row) = IF row.of = from THEN New(row) ELSE row
            BY <2>1, <1>2 DEF CnTypes, CnRow
        <3>4. cn_rows' = {Put(row) : row \in cn_rows}
            BY <2>1, <1>11
        <3> HIDE DEF Put
        <3>2. cn_rows' = {IF row.of = from THEN New(row) ELSE row : row \in cn_rows}
            BY <3>1, <3>4
        <3> HIDE DEF New
        <3>3. cn_rows' = {row \in cn_rows : row.of # from} \cup {New(row) : row \in {w \in cn_rows : w.of = from}}
            BY <3>2
        <3> QED BY <2>1, <3>3
    <2>2. CASE kind # "problem"
        <3>1. {[of |-> to, what |-> p, first |-> to] : p \in given} = {New(row) : row \in {w \in cn_rows : w.of = from}}
            BY <2>2, <1>7 DEF HasPart
        <3> QED BY <2>2, <3>1, <1>11
    <2> QED BY <2>1, <2>2
<1>16. \A row \in cn_rows : New(row) \in CnRow /\ New(row).of = to /\ New(row).what = row.what
    BY <1>2 DEF CnTypes, CnRow
<1>17. \A one, other \in cn_rows : one.of = other.of /\ one.what = other.what => one = other
    BY DEF CnInv, RowsApart
<1> HIDE DEF New
<1>18. cn_rows' \subseteq CnRow
    BY <1>2, <1>15, <1>16 DEF CnTypes
<1>19. CnTypes'
    BY <1>12, <1>13, <1>14, <1>18 DEF CnTypes
<1>20. CodesRight'
    <2>1. \A o \in CnRequests, c \in CnCodes \ {to} : CnMade(o, c)' <=> CnMade(o, c)
        BY <1>4, <1>12 DEF CnMade
    <2>2. \A o \in CnRequests : CnMade(o, to)' <=> o = r
        <3>1. \A o \in CnRequests : ~CnMade(o, to)
            BY <1>5 DEF CnInv, CodesRight
        <3> QED BY <3>1, <1>4, <1>12 DEF CnMade
    <2>3. \A c \in CnCodes \ {to} : ItemExists(c)' <=> ItemExists(c)
        BY <1>13 DEF ItemExists
    <2>4. ItemExists(CnFirst)'
        <3>1. CnFirst \in CnCodes => cn_items'[CnFirst] = cn_items[CnFirst]
            BY <1>5, <1>13
        <3>2. CnFirst \notin CnCodes => cn_items'[CnFirst] = cn_items[CnFirst]
            BY <1>1
        <3> QED BY <3>1, <3>2 DEF CnInv, CodesRight, ItemExists
    <2>5. \A c \in CnCodes \ {CnFirst} : ItemExists(c)' <=> \E o \in CnRequests : CnMade(o, c)'
        <3> TAKE c \in CnCodes \ {CnFirst}
        <3>1. CASE c = to
            <4>1. CnMade(r, to)' /\ ItemExists(to)'
                BY <2>2, <1>13 DEF ItemExists
            <4> QED BY <3>1, <4>1
        <3>2. CASE c # to
            BY <3>2, <2>1, <2>3 DEF CnInv, CodesRight
        <3> QED BY <3>1, <3>2
    <2>6. ASSUME NEW i \in CnRequests, NEW o \in CnRequests, NEW c \in CnCodes \ {CnFirst}, CnMade(i, c)', CnMade(o, c)'
          PROVE  i = o
        <3>1. CASE c = to
            BY <3>1, <2>2, <2>6
        <3>2. CASE c # to
            BY <3>2, <2>1, <2>6 DEF CnInv, CodesRight
        <3> QED BY <3>1, <3>2
    <2>7. \A o \in CnRequests : cn_requests'[o].at = "loaded" => cn_items'[cn_requests'[o].from].there
        <3> SUFFICES ASSUME NEW o \in CnRequests, cn_requests'[o].at = "loaded" PROVE cn_items'[cn_requests'[o].from].there
            OBVIOUS
        <3>1. cn_requests'[o] = cn_requests[o]
            BY <1>4, <1>12
        <3>2. PICK f \in CnCodes : f = cn_requests[o].from
            BY <1>2 DEF CnTypes, CnRequest
        <3>3. ItemExists(f)
            BY <3>1, <3>2 DEF CnInv, CodesRight
        <3>4. cn_items'[f] = cn_items[f]
            BY <3>3, <1>5, <1>13
        <3> QED BY <3>1, <3>2, <3>3, <3>4 DEF ItemExists
    <2> QED BY <2>4, <2>5, <2>6, <2>7 DEF CodesRight, ItemExists
<1>21. RowsApart'
    <2>1. \A row \in cn_rows' : cn_items'[row.of].there
        <3>1. \A row \in cn_rows : row.of # to /\ cn_items'[row.of].there
            BY <1>2, <1>9, <1>13 DEF CnInv, RowsApart, ItemExists, CnTypes, CnRow
        <3> QED BY <3>1, <1>13, <1>15, <1>16
    <2>2. \A one, other \in cn_rows : one.of = from /\ other.of = from /\ New(one).what = New(other).what => New(one) = New(other)
        BY <1>16, <1>17
    <2>3. \A one, other \in cn_rows' : one.of = other.of /\ one.what = other.what => one = other
        BY <2>2, <1>9, <1>15, <1>16, <1>17
    <2> QED BY <2>1, <2>3 DEF RowsApart, ItemExists
<1>22. PartsRight'
    <2>1. \A p : HasPart(to, p)' <=> p \in given
        BY <1>7, <1>9, <1>15, <1>16 DEF HasPart
    <2>2. \A c \in CnCodes \ {to, from} : \A p : HasPart(c, p)' <=> HasPart(c, p)
        BY <1>15, <1>16 DEF HasPart
    <2>3. kind # "problem" => \A p : HasPart(from, p)' <=> HasPart(from, p)
        BY <1>5, <1>15, <1>16 DEF HasPart
    <2>4. kind = "problem" => \A p : ~HasPart(from, p)'
        BY <1>5, <1>15, <1>16 DEF HasPart
    <2> SUFFICES ASSUME NEW c \in CnCodes
                 PROVE  /\ \A p : HasPart(c, p)' => p \in cn_should'[c]
                        /\ \A p \in cn_should'[c] : ~HasPart(c, p)' =>
                             /\ cn_kind' = "problem"
                             /\ \E clone \in CnCodes \ {CnFirst} : cn_parent'[clone] = c /\ ItemExists(clone)'
        BY DEF PartsRight, HasPart, ItemExists
    <2>5. CASE c = to
        BY <2>1, <2>5, <1>14
    <2>6. CASE c # to
        <3>1. cn_should'[c] = cn_should[c]
            BY <2>6, <1>14
        <3>2. \A p : HasPart(c, p)' => HasPart(c, p)
            BY <2>2, <2>3, <2>4, <2>6
        <3>3. \A p : HasPart(c, p) => p \in cn_should[c]
            BY DEF CnInv, PartsRight
        <3>4. ASSUME NEW p \in cn_should[c], ~HasPart(c, p)'
              PROVE  /\ cn_kind' = "problem"
                     /\ \E clone \in CnCodes \ {CnFirst} : cn_parent'[clone] = c /\ ItemExists(clone)'
            <4>1. CASE HasPart(c, p)
                <5>1. c = from /\ kind = "problem"
                    BY <2>2, <2>3, <2>6, <3>4, <4>1
                <5>2. ItemExists(to)'
                    BY <1>13 DEF ItemExists
                <5> QED BY <5>1, <5>2, <1>1, <1>5, <1>14
            <4>2. CASE ~HasPart(c, p)
                <5>1. cn_kind = "problem" /\ \E clone \in CnCodes \ {CnFirst} : cn_parent[clone] = c /\ ItemExists(clone)
                    BY <3>4, <4>2 DEF CnInv, PartsRight
                <5>2. PICK clone \in CnCodes \ {CnFirst} : cn_parent[clone] = c /\ ItemExists(clone)
                    BY <5>1
                <5>3. clone # to
                    BY <5>2, <1>5
                <5>4. cn_parent'[clone] = c /\ ItemExists(clone)'
                    BY <5>2, <5>3, <1>13, <1>14 DEF ItemExists
                <5> QED BY <5>1, <5>4, <1>1
            <4> QED BY <4>1, <4>2
        <3> QED BY <3>1, <3>2, <3>3, <3>4
    <2> QED BY <2>5, <2>6
<1> QED BY <1>19, <1>20, <1>21, <1>22 DEF CnInv

\* Every step of the requests keeps the invariant.
THEOREM CnStepInv == CnInv /\ [CnNext]_cnvars => CnInv'
<1> SUFFICES ASSUME CnInv, [CnNext]_cnvars PROVE CnInv'
    OBVIOUS
<1>1. ASSUME NEW r \in CnRequests, FormValid(r)
      PROVE  CnInv'
    <2>1. PICK from \in CnCodes, to \in CnCodes : from = cn_requests[r].from /\ to = cn_requests[r].to
        BY DEF CnInv, CnTypes, CnRequest
    <2>2. PICK given, kind : given = PartsOf(from) /\ kind = cn_kind
        OBVIOUS
    <2>3. cn_requests[r].at = "loaded"
        BY <1>1 DEF FormValid
    <2>4. CASE ItemExists(to) \/ cn_lessons
        <3>1. EndClone(r, "failed") /\ UNCHANGED <<cn_kind, cn_items, cn_rows, cn_parent, cn_should>>
            BY <1>1, <2>1, <2>4 DEF FormValid
        <3> QED BY <2>3, <3>1, CloneFails
    <2>5. CASE ~(ItemExists(to) \/ cn_lessons)
        BY <1>1, <2>1, <2>2, <2>3, <2>5, CloneEnds
    <2> QED BY <2>4, <2>5
<1>2. ASSUME NEW r \in CnRequests, NEW from \in CnCodes, NEW to \in CnCodes, LoadClone(r, from, to)
      PROVE  CnInv'
    BY <1>2, LoadCloneKeeps
<1>3. ASSUME NEW c \in CnCodes, NEW public \in BOOLEAN, NEW orgs \in SUBSET CnOrgs, NEW parts \in SUBSET CnParts,
             EditItem(c, public, orgs, parts)
      PROVE  CnInv'
    BY <1>3, EditItemKeeps
<1>4. CASE UNCHANGED cnvars
    BY <1>4 DEF CnInv, CnTypes, CodesRight, CnMade, RowsApart, PartsRight, HasPart, ItemExists, cnvars
<1> QED BY <1>1, <1>2, <1>3, <1>4 DEF CnNext

\* The invariant says what is asked of clones.
THEOREM CnInvHolds == CnInv => ClonesHold
<1> SUFFICES ASSUME CnInv PROVE ClonesHold
    OBVIOUS
<1>1. PartsKept
    BY PartsAre DEF CnInv, PartsRight, PartsKept
<1>2. RowsApart
    BY DEF CnInv
<1>3. ClonesWhole
    <2> SUFFICES ASSUME NEW c \in CnCodes \ {CnFirst}
                 PROVE  ItemExists(c) <=> Cardinality({r \in CnRequests : cn_requests[r].at = "done" /\ cn_requests[r].to = c}) = 1
        BY DEF ClonesWhole
    <2> DEFINE S == {r \in CnRequests : cn_requests[r].at = "done" /\ cn_requests[r].to = c}
    <2>1. \A r : r \in S <=> r \in CnRequests /\ CnMade(r, c)
        BY DEF CnMade
    <2> HIDE DEF S
    <2>2. ItemExists(c) <=> S # {}
        BY <2>1 DEF CnInv, CodesRight
    <2>3. \A r, o \in S : r = o
        BY <2>1 DEF CnInv, CodesRight
    <2>4. Cardinality({}) = 0
        BY FS_EmptySet
    <2>5. ASSUME S # {} PROVE Cardinality(S) = 1
        <3>1. PICK r : r \in S
            BY <2>5
        <3>2. S = {r}
            BY <2>3, <3>1
        <3> QED BY <3>2, FS_Singleton
    <2>6. ItemExists(c) <=> Cardinality(S) = 1
        <3>1. CASE S = {}
            BY <2>2, <2>4, <3>1
        <3>2. CASE S # {}
            BY <2>2, <2>5, <3>2
        <3> QED BY <3>1, <3>2
    <2> QED BY <2>6 DEF S
<1> QED BY <1>1, <1>2, <1>3 DEF ClonesHold

-----------------------------------------------------------------------------
(* Side by side.                                                           *)

\* However posts of the test data overlap: unless one died or saved what another had changed, the archive
\* the row names is on disk, and init.yml has the cases in their order and their batches, or the page
\* shows that they have errors (judge/views/problem_data.py, judge/utils/problem_data.py).
THEOREM ProblemDataCorrect == ASSUME ProblemDataAssumption PROVE PdSpec => []ProblemDataHolds
<1>1. PdInit => PdInv
    BY PdInitInv
<1>2. PdInv /\ [PdNext]_pdvars => PdInv'
    BY PdStepInv
<1>3. PdInv => ProblemDataHolds
    BY PdInvHolds
<1> QED BY <1>1, <1>2, <1>3, PTL DEF PdSpec

\* A clone has the parts its request found, or is not there, and belongs to the organizations it should
\* (judge/views/problem.py, judge/views/contests.py, judge/views/courses.py).
THEOREM ClonesCorrect == ASSUME ClonesAssumption PROVE CnSpec => []ClonesHold
<1>1. CnInit => CnInv
    BY CnInitInv
<1>2. CnInv /\ [CnNext]_cnvars => CnInv'
    BY CnStepInv
<1>3. CnInv => ClonesHold
    BY CnInvHolds
<1> QED BY <1>1, <1>2, <1>3, PTL DEF CnSpec

\* What is invariant of the component a behaviour is of.
ContentInv ==
    /\ part = "comments" => DcInv
    /\ part = "votes" => VtInv
    /\ part = "tickets" => TkInv
    /\ part = "problem data" => PdInv
    /\ part = "clones" => CnInv

\* A step is of the component the behaviour is of, or of none.
LEMMA ContentSteps ==
    ASSUME [PeopleNext]_ppvars
    PROVE  /\ part' = part
           /\ part = "comments" => [DcNext]_dcvars
           /\ part = "votes" => [VtNext]_vtvars
           /\ part = "tickets" => [TkNext]_tkvars
           /\ part = "problem data" => [PdNext]_pdvars
           /\ part = "clones" => [CnNext]_cnvars
BY DEF PeopleNext, ppvars

\* Whichever component a behaviour is of, what is said of what people write holds, for any number of
\* users, rows and requests.
THEOREM ContentIsRight == ASSUME PeopleAssumption PROVE PeopleSpec => []ContentHolds
<1>1. PeopleInit => ContentInv
    BY DcInitInv, VtInitInv, TkInitInv, PdInitInv, CnInitInv DEF PeopleInit, ContentInv, PeopleAssumption
<1>2. ContentInv /\ [PeopleNext]_ppvars => ContentInv'
    <2> SUFFICES ASSUME ContentInv, [PeopleNext]_ppvars PROVE ContentInv'
        OBVIOUS
    <2> QED BY ContentSteps, DcStepInv, VtStepInv, TkStepInv, PdStepInv, CnStepInv DEF ContentInv, PeopleAssumption
<1>3. ContentInv => ContentHolds
    <2>1. VtInv => OneVoteEach
        BY VtInvHolds
    <2> QED BY <2>1, TkInvHolds, PdInvHolds, CnInvHolds DEF ContentInv, ContentHolds, DcInv, PeopleAssumption
<1> QED BY <1>1, <1>2, <1>3, PTL DEF PeopleSpec
=============================================================================
