---------------------------- MODULE QueueProofs -----------------------------
(***************************************************************************)
(* What holds of the claims of any number of people, images and heartbeats. *)
(***************************************************************************)
EXTENDS Queue, TLAPS

\* The tracker's part of the invariant.
ClaimsOK(c) ==
  /\ c \in [Image -> ClaimRecord]
  /\ \A i, k \in Image : c[i].by = c[k].by /\ i # k => c[i].by = NoOne

ClaimsInv == ClaimsOK(claims)

-----------------------------------------------------------------------------
(***************************************************************************)
(* The operations of the tracker.                                          *)
(***************************************************************************)
\* A fresh tracker has no claims.
LEMMA NoClaimsOK == ClaimsOK(NoClaims)
BY ClaimsAssumption DEF ClaimsOK, NoClaims, Unclaimed, ClaimRecord

\* Nor has a tracker with some of those who are away anything else.
LEMMA StartsOK == \A c \in Starts : ClaimsOK(c)
<1> SUFFICES ASSUME NEW c \in Starts PROVE ClaimsOK(c) OBVIOUS
<1>1. c \in [Image -> {Unclaimed} \cup {[by |-> a, age |-> 0] : a \in Away}]
  BY QueueAssumption
<1>2. Unclaimed \in ClaimRecord /\ \A a \in Away : [by |-> a, age |-> 0] \in ClaimRecord
  BY ClaimsAssumption, QueueAssumption DEF Unclaimed, ClaimRecord
<1>3. c \in [Image -> ClaimRecord] BY <1>1, <1>2
<1>4. QED BY <1>3, QueueAssumption DEF ClaimsOK

\* Expiry only takes claims away.
LEMMA ExpireOK == ASSUME NEW c, ClaimsOK(c) PROVE ClaimsOK(Expire(c))
<1>1. Expire(c) \in [Image -> ClaimRecord]
  BY ClaimsAssumption DEF ClaimsOK, Expire, Unclaimed, ClaimRecord
<1>2. ASSUME NEW i \in Image PROVE Expire(c)[i].by \in {c[i].by, NoOne}
  BY DEF Expire, Unclaimed
<1>3. QED BY <1>1, <1>2 DEF ClaimsOK

\* A claim that is granted takes the user's other ones away.
LEMMA ClaimOK ==
  ASSUME NEW c, ClaimsOK(c), NEW u \in User, NEW i \in Image
  PROVE  ClaimsOK(Claim(c, u, i))
<1> DEFINE e == Expire(c)
           d == Claim(c, u, i)
<1>1. ClaimsOK(e) BY ExpireOK
<1>2. CASE Refused(c, u, i) BY <1>1, <1>2 DEF Claim
<1>3. CASE ~Refused(c, u, i)
  <2>1. d = [k \in Image |-> IF k = i THEN [by |-> u, age |-> 0]
                             ELSE IF e[k].by = u THEN Unclaimed ELSE e[k]]
    BY <1>3 DEF Claim
  <2> HIDE DEF d, e
  <2>2. d \in [Image -> ClaimRecord]
    BY <1>1, <2>1, ClaimsAssumption DEF ClaimsOK, Unclaimed, ClaimRecord
  <2>3. d[i].by = u BY <2>1
  <2>4. ASSUME NEW k \in Image \ {i} PROVE d[k].by # u /\ d[k].by \in {e[k].by, NoOne}
    BY <2>1, ClaimsAssumption DEF Unclaimed
  <2>5. ASSUME NEW k \in Image, NEW l \in Image, d[k].by = d[l].by, k # l
        PROVE  d[k].by = NoOne
    <3>1. k # i /\ l # i BY <2>3, <2>4, <2>5
    <3>2. d[k].by \in {e[k].by, NoOne} /\ d[l].by \in {e[l].by, NoOne} BY <3>1, <2>4
    <3>3. QED BY <1>1, <2>5, <3>2 DEF ClaimsOK
  <2>6. ClaimsOK(d) BY <2>2, <2>5 DEF ClaimsOK
  <2>7. QED BY <2>6 DEF d
<1>4. QED BY <1>2, <1>3

\* A release takes at most one claim away.
LEMMA ReleaseOK ==
  ASSUME NEW c, ClaimsOK(c), NEW u \in User, NEW i
  PROVE  ClaimsOK(Release(c, u, i))
<1> DEFINE d == Release(c, u, i)
<1>1. CASE i \in Image
  <2>1. d \in [Image -> ClaimRecord]
    BY <1>1, ClaimsAssumption DEF ClaimsOK, Release, Unclaimed, ClaimRecord
  <2>2. ASSUME NEW k \in Image PROVE d[k].by \in {c[k].by, NoOne}
    BY <1>1 DEF ClaimsOK, Release, Unclaimed
  <2>3. QED BY <2>1, <2>2 DEF ClaimsOK
<1>2. CASE i \notin Image
  <2>1. d = c BY <1>2 DEF Release, ClaimsOK
  <2>2. QED BY <2>1
<1>3. QED BY <1>1, <1>2

\* Time changes no holder.
LEMMA TickOK ==
  ASSUME NEW c, ClaimsOK(c)
  PROVE  ClaimsOK([i \in Image |-> IF c[i].by \in Away THEN c[i] ELSE Older(c)[i]])
<1> DEFINE d == [i \in Image |-> IF c[i].by \in Away THEN c[i] ELSE Older(c)[i]]
<1>1. ASSUME NEW i \in Image PROVE d[i] \in ClaimRecord /\ d[i].by = c[i].by
  BY ClaimsAssumption DEF ClaimsOK, Older, ClaimRecord
<1>2. d \in [Image -> ClaimRecord] BY <1>1
<1>3. QED BY <1>1, <1>2 DEF ClaimsOK

-----------------------------------------------------------------------------
\* Nobody ever keeps two images (claims.go:66-68), whatever the order in which
\* the claims, saves, polls, failures and restarts of any number of people come.
THEOREM OneClaimEach == Spec => []OneImageEach
<1>1. Init => ClaimsInv BY StartsOK DEF Init, ClaimsInv
<1>2. ClaimsInv /\ [Next]_vars => ClaimsInv'
  <2> SUFFICES ASSUME ClaimsOK(claims), [Next]_vars PROVE ClaimsOK(claims') BY DEF ClaimsInv
  <2>1. CASE UNCHANGED claims BY <2>1
  <2>2. ASSUME NEW u \in User, SaveLabel(u) PROVE ClaimsOK(claims')
    BY <2>2, ReleaseOK DEF SaveLabel
  <2>3. ASSUME NEW u \in User, NEW i \in Image, Answer(u, i) PROVE ClaimsOK(claims')
    BY <2>3, ClaimOK DEF Answer
  <2>4. ASSUME NEW u \in User, NEW i \in Image, Fails(u, i) PROVE ClaimsOK(claims')
    BY <2>4, ClaimOK DEF Fails
  <2>5. ASSUME NEW u \in User, Poll(u) PROVE ClaimsOK(claims') BY <2>5, ExpireOK DEF Poll
  <2>6. CASE RestartAPI BY <2>6, NoClaimsOK DEF RestartAPI
  <2>7. CASE Tick BY <2>7, TickOK DEF Tick
  <2>8. QED
    BY <2>1, <2>2, <2>3, <2>4, <2>5, <2>6, <2>7
       DEF Next, vars, server, Open, Close, GoToImage, Heartbeat
<1>3. ClaimsInv => OneImageEach BY DEF ClaimsInv, ClaimsOK, OneImageEach
<1>4. QED BY <1>1, <1>2, <1>3, PTL DEF Spec

-----------------------------------------------------------------------------
(***************************************************************************)
(* Types.                                                                  *)
(***************************************************************************)
\* The tracker, by its operations.
LEMMA TrackerType ==
  ASSUME NEW c \in [Image -> ClaimRecord], NEW u \in User, NEW i
  PROVE  /\ Expire(c) \in [Image -> ClaimRecord]
         /\ Claim(c, u, i) \in [Image -> ClaimRecord]
         /\ Release(c, u, i) \in [Image -> ClaimRecord]
<1>1. Unclaimed \in ClaimRecord /\ [by |-> u, age |-> 0] \in ClaimRecord
  BY ClaimsAssumption DEF Unclaimed, ClaimRecord
<1>2. Expire(c) \in [Image -> ClaimRecord] BY <1>1 DEF Expire
<1>3. Claim(c, u, i) \in [Image -> ClaimRecord]
  <2> DEFINE e == Expire(c)
  <2>1. e \in [Image -> ClaimRecord] BY <1>2
  <2> HIDE DEF e
  <2>2. [k \in Image |-> IF k = i THEN [by |-> u, age |-> 0]
                         ELSE IF e[k].by = u THEN Unclaimed ELSE e[k]] \in [Image -> ClaimRecord]
    BY <1>1, <2>1
  <2>3. QED BY <1>2, <2>2 DEF Claim, e
<1>4. Release(c, u, i) \in [Image -> ClaimRecord]
  BY <1>1 DEF Release
<1>5. QED BY <1>2, <1>3, <1>4

\* What a tab hears is names.
LEMMA NamesType ==
  ASSUME NEW c \in [Image -> ClaimRecord]
  PROVE  NamedClaims(c) \in [Image -> Names]
<1>1. ASSUME NEW i \in Image
      PROVE  (IF c[i].by = NoOne THEN NoOne ELSE Name(c[i].by)) \in Names
  <2>1. c[i].by \in User \cup {NoOne} BY DEF ClaimRecord
  <2>2. QED BY <2>1 DEF Names
<1>2. QED BY <1>1 DEF NamedClaims

LEMMA NextType ==
  ASSUME NEW u, NEW finished, NEW exclude
  PROVE  \A i \in NextTodo(u, finished, exclude) :
           (i \in Image \cup {NoImage} /\ i # exclude) \/ i = NoImage
BY DEF NextTodo

\* What the claim effect leaves.
LEMMA EffectType ==
  ASSUME TypeOK, NEW u \in User, NEW sent \in SUBSET Image, ClaimEffect(u, sent),
         cur' \in [User -> Image \cup {NoImage}]
  PROVE  /\ calls' \in [User -> SUBSET Image]
         /\ live' \in [User -> Image \cup {NoImage}]
         /\ \A v \in User : live'[v] \in calls'[v] \cup {NoImage}
         /\ due' \in [User -> BOOLEAN]
         /\ granted' \in [User -> Image \cup {NoImage}]
         /\ doubt' \in [User -> {"none", "displaced", "late"}]
<1> DEFINE take == cur'[u] # NoImage /\ cur'[u] \notin known'[u]
<1>1. take => cur'[u] \in Image OBVIOUS
<1>2. /\ calls' = [calls EXCEPT ![u] = sent \cup (IF take THEN {cur'[u]} ELSE {})]
      /\ live' = [live EXCEPT ![u] = IF take THEN cur'[u] ELSE NoImage]
      /\ due' = [due EXCEPT ![u] = FALSE]
      /\ granted' = [granted EXCEPT ![u] = IF take /\ @ = cur'[u] THEN @ ELSE NoImage]
      /\ doubt' = [doubt EXCEPT ![u] = IF granted'[u] = NoImage THEN "none" ELSE @]
  BY DEF ClaimEffect
<1> HIDE DEF take
<1>3. calls' \in [User -> SUBSET Image] BY <1>1, <1>2 DEF TypeOK
<1>4. live' \in [User -> Image \cup {NoImage}] BY <1>1, <1>2 DEF TypeOK
<1>5. due' \in [User -> BOOLEAN] BY <1>2 DEF TypeOK
<1>6. granted' \in [User -> Image \cup {NoImage}] BY <1>2 DEF TypeOK
<1>7. ASSUME NEW v \in User PROVE live'[v] \in calls'[v] \cup {NoImage}
  <2>1. CASE v = u BY <1>2, <2>1 DEF TypeOK
  <2>2. CASE v # u BY <1>2, <2>2 DEF TypeOK
  <2>3. QED BY <2>1, <2>2
<1>8. doubt' \in [User -> {"none", "displaced", "late"}] BY <1>2 DEF TypeOK
<1>9. QED BY <1>3, <1>4, <1>5, <1>6, <1>7, <1>8

\* What people do.
LEMMA UserType ==
  ASSUME TypeOK, NEW u \in User, Open(u) \/ Close(u) \/ GoToImage(u) \/ SaveLabel(u)
  PROVE  TypeOK'
<1>1. events' \in 0..MaxEvents
  <2>1. events < MaxEvents /\ events' = events + 1 BY DEF Open, Close, GoToImage, SaveLabel, Event
  <2>2. QED BY <2>1, QueueAssumption DEF TypeOK
<1>2. CASE Open(u)
  <2>1. PICK i \in Image : cur' = [cur EXCEPT ![u] = i] BY <1>2 DEF Open
  <2>2. cur' \in [User -> Image \cup {NoImage}] BY <2>1 DEF TypeOK
  <2>3. /\ view' = [view EXCEPT ![u] = NobodySeen] /\ known' = [known EXCEPT ![u] = done]
        /\ open' = [open EXCEPT ![u] = TRUE] /\ UNCHANGED server /\ ClaimEffect(u, calls[u])
    BY <1>2 DEF Open
  <2>4. NobodySeen \in [Image -> Names] BY DEF NobodySeen, Names
  <2>5. view' \in [User -> [Image -> Names]] /\ known' \in [User -> SUBSET Image]
        /\ open' \in [User -> BOOLEAN]
    BY <2>3, <2>4 DEF TypeOK
  <2>6. calls[u] \in SUBSET Image BY DEF TypeOK
  <2>7. QED BY <1>1, <2>2, <2>3, <2>5, <2>6, EffectType DEF TypeOK, server
<1>3. CASE Close(u)
  <2>1. NobodySeen \in [Image -> Names] BY DEF NobodySeen, Names
  <2>2. /\ open' = [open EXCEPT ![u] = FALSE] /\ cur' = [cur EXCEPT ![u] = NoImage]
        /\ view' = [view EXCEPT ![u] = NobodySeen] /\ known' = [known EXCEPT ![u] = {}]
        /\ live' = [live EXCEPT ![u] = NoImage] /\ due' = [due EXCEPT ![u] = FALSE]
        /\ granted' = [granted EXCEPT ![u] = NoImage] /\ doubt' = [doubt EXCEPT ![u] = "none"]
        /\ UNCHANGED <<server, calls>>
    BY <1>3 DEF Close
  <2>3. \A v \in User : live'[v] \in {live[v], NoImage} BY <2>2 DEF TypeOK
  <2>4. view' \in [User -> [Image -> Names]] BY <2>1, <2>2 DEF TypeOK
  <2>5. /\ open' \in [User -> BOOLEAN] /\ cur' \in [User -> Image \cup {NoImage}]
        /\ known' \in [User -> SUBSET Image] /\ live' \in [User -> Image \cup {NoImage}]
        /\ due' \in [User -> BOOLEAN] /\ granted' \in [User -> Image \cup {NoImage}]
        /\ doubt' \in [User -> {"none", "displaced", "late"}]
    BY <2>2 DEF TypeOK
  <2>6. QED BY <1>1, <2>2, <2>3, <2>4, <2>5 DEF TypeOK, server
<1>4. CASE GoToImage(u)
  <2>1. PICK i \in Image : cur' = [cur EXCEPT ![u] = i] BY <1>4 DEF GoToImage
  <2>2. cur' \in [User -> Image \cup {NoImage}] BY <2>1 DEF TypeOK
  <2>3. UNCHANGED <<view, known, server, open>> /\ ClaimEffect(u, calls[u]) BY <1>4 DEF GoToImage
  <2>4. calls[u] \in SUBSET Image BY DEF TypeOK
  <2>5. QED BY <1>1, <2>2, <2>3, <2>4, EffectType DEF TypeOK, server
<1>5. CASE SaveLabel(u)
  <2>1. /\ cur[u] # NoImage /\ done' = done \cup {cur[u]} /\ claims' = Release(claims, u, cur[u])
        /\ known' = [known EXCEPT ![u] = done'] /\ UNCHANGED <<view, open>>
        /\ ClaimEffect(u, calls[u])
    BY <1>5 DEF SaveLabel
  <2>2. PICK i \in NextTodo(u, done', cur[u]) : cur' = [cur EXCEPT ![u] = i] BY <1>5 DEF SaveLabel
  <2>3. i \in Image \cup {NoImage} BY NextType
  <2>4. cur' \in [User -> Image \cup {NoImage}] BY <2>2, <2>3 DEF TypeOK
  <2>5. done' \subseteq Image BY <2>1 DEF TypeOK
  <2>6. claims' \in [Image -> ClaimRecord] BY <2>1, TrackerType DEF TypeOK
  <2>7. known' \in [User -> SUBSET Image] BY <2>1, <2>5 DEF TypeOK
  <2>8. calls[u] \in SUBSET Image BY DEF TypeOK
  <2>9. QED BY <1>1, <2>1, <2>4, <2>5, <2>6, <2>7, <2>8, EffectType DEF TypeOK
<1>6. QED BY <1>2, <1>3, <1>4, <1>5

\* The claim is refused or fails: on to the next image.
LEMMA MovesOnType ==
  ASSUME TypeOK, NEW u \in User, NEW i \in Image, NEW sent \in SUBSET Image, MovesOn(u, i, sent)
  PROVE  /\ cur' \in [User -> Image \cup {NoImage}] /\ UNCHANGED <<view, known>>
         /\ calls' \in [User -> SUBSET Image]
         /\ live' \in [User -> Image \cup {NoImage}]
         /\ \A v \in User : live'[v] \in calls'[v] \cup {NoImage}
         /\ due' \in [User -> BOOLEAN]
         /\ granted' \in [User -> Image \cup {NoImage}]
         /\ doubt' \in [User -> {"none", "displaced", "late"}]
<1>1. PICK k \in NextTodo(u, known[u], i) : cur' = [cur EXCEPT ![u] = k] BY DEF MovesOn
<1>2. k \in Image \cup {NoImage} BY NextType
<1>3. cur' \in [User -> Image \cup {NoImage}] BY <1>1, <1>2 DEF TypeOK
<1>4. QED BY <1>3, EffectType DEF MovesOn

\* An answer nobody wants.
LEMMA UnwantedType ==
  ASSUME TypeOK, NEW u \in User, NEW i \in calls[u], i # live[u], Unwanted(u, i, calls[u] \ {i})
  PROVE  /\ UNCHANGED <<cur, view, known, live, due, granted>>
         /\ calls' \in [User -> SUBSET Image]
         /\ \A v \in User : live'[v] \in calls'[v] \cup {NoImage}
         /\ doubt' \in [User -> {"none", "displaced", "late"}]
<1>1. /\ calls' = [calls EXCEPT ![u] = calls[u] \ {i}]
      /\ UNCHANGED <<cur, view, known, live, due, granted>>
  BY DEF Unwanted, screen
<1>2. calls' \in [User -> SUBSET Image] BY <1>1 DEF TypeOK
<1>3. \A v \in User : live'[v] \in calls'[v] \cup {NoImage} BY <1>1 DEF TypeOK
<1>4. doubt' \in [User -> {"none", "displaced", "late"}] BY DEF Unwanted, Displaced, TypeOK
<1>5. QED BY <1>1, <1>2, <1>3, <1>4

\* What a claim that is granted leaves: the claims of the project arrive, and
\* where they are news the effect runs once more.
GrantedAnswer(u, i, same, names, sent) ==
  /\ view' = [view EXCEPT ![u] = names]
  /\ granted' = [granted EXCEPT ![u] = i]
  /\ doubt' = [doubt EXCEPT ![u] = "none"]
  /\ calls' = [calls EXCEPT ![u] = IF same THEN sent ELSE sent \cup {i}]
  /\ live' = [live EXCEPT ![u] = IF same THEN NoImage ELSE i]
  /\ due' = [due EXCEPT ![u] = same /\ @]
  /\ UNCHANGED <<cur, known>>

LEMMA AnswerShape ==
  ASSUME NEW u \in User, NEW i \in Image, Answer(u, i)
  PROVE  /\ i \in calls[u] /\ claims' = Claim(claims, u, i)
         /\ UNCHANGED <<done, open, events>>
         /\ \/ i # live[u] /\ Unwanted(u, i, calls[u] \ {i})
            \/ i = live[u] /\ Refused(claims, u, i) /\ MovesOn(u, i, calls[u] \ {i})
            \/ /\ i = live[u] /\ ~Refused(claims, u, i)
               /\ \E same \in BOOLEAN :
                    GrantedAnswer(u, i, same, NamedClaims(claims'), calls[u] \ {i})
<1> DEFINE same == Same(NamedClaims(claims'), view[u])
<1>1. same \in BOOLEAN BY DEF Same
<1>2. \/ i # live[u] /\ Unwanted(u, i, calls[u] \ {i})
      \/ i = live[u] /\ Refused(claims, u, i) /\ MovesOn(u, i, calls[u] \ {i})
      \/ /\ i = live[u] /\ ~Refused(claims, u, i)
         /\ GrantedAnswer(u, i, same, NamedClaims(claims'), calls[u] \ {i})
  BY DEF Answer, GrantedAnswer
<1>3. /\ i \in calls[u] /\ claims' = Claim(claims, u, i)
      /\ UNCHANGED <<done, open, events>>
  BY DEF Answer
<1> HIDE DEF same
<1>4. QED BY <1>1, <1>2, <1>3

LEMMA GrantedType ==
  ASSUME TypeOK, NEW u \in User, NEW i \in Image, NEW same \in BOOLEAN,
         NEW names \in [Image -> Names], NEW sent \in SUBSET Image,
         GrantedAnswer(u, i, same, names, sent)
  PROVE  /\ UNCHANGED <<cur, known>>
         /\ view' \in [User -> [Image -> Names]]
         /\ granted' \in [User -> Image \cup {NoImage}]
         /\ calls' \in [User -> SUBSET Image]
         /\ live' \in [User -> Image \cup {NoImage}]
         /\ \A v \in User : live'[v] \in calls'[v] \cup {NoImage}
         /\ due' \in [User -> BOOLEAN]
         /\ doubt' \in [User -> {"none", "displaced", "late"}]
<1>1. /\ view' = [view EXCEPT ![u] = names]
      /\ granted' = [granted EXCEPT ![u] = i]
      /\ calls' = [calls EXCEPT ![u] = IF same THEN sent ELSE sent \cup {i}]
      /\ live' = [live EXCEPT ![u] = IF same THEN NoImage ELSE i]
      /\ due' = [due EXCEPT ![u] = same /\ @]
      /\ UNCHANGED <<cur, known>>
  BY DEF GrantedAnswer
<1>2. view' \in [User -> [Image -> Names]] BY <1>1 DEF TypeOK
<1>3. granted' \in [User -> Image \cup {NoImage}] BY <1>1 DEF TypeOK
<1>4. calls' \in [User -> SUBSET Image] BY <1>1 DEF TypeOK
<1>5. live' \in [User -> Image \cup {NoImage}] BY <1>1 DEF TypeOK
<1>6. ASSUME NEW v \in User PROVE live'[v] \in calls'[v] \cup {NoImage}
  <2>1. CASE v = u BY <1>1, <2>1 DEF TypeOK
  <2>2. CASE v # u BY <1>1, <2>2 DEF TypeOK
  <2>3. QED BY <2>1, <2>2
<1>7. due' \in [User -> BOOLEAN]
  <2>1. due[u] \in BOOLEAN /\ due \in [User -> BOOLEAN] BY DEF TypeOK
  <2>2. CASE same
    <3>1. due' = [due EXCEPT ![u] = due[u]] BY <1>1, <2>1, <2>2
    <3>2. QED BY <2>1, <3>1
  <2>3. CASE ~same
    <3>1. due' = [due EXCEPT ![u] = FALSE] BY <1>1, <2>1, <2>3
    <3>2. QED BY <2>1, <3>1
  <2>4. QED BY <2>2, <2>3
<1>8. doubt' \in [User -> {"none", "displaced", "late"}] BY DEF GrantedAnswer, TypeOK
<1>9. QED BY <1>1, <1>2, <1>3, <1>4, <1>5, <1>6, <1>7, <1>8

\* A tab that waits for a claim, whose heartbeat is due, or that was told that
\* an image is its user's: it is open, and shows that unfinished image.
Shows(u, i) == open[u] /\ cur[u] = i /\ i # NoImage /\ i \notin known[u]

\* A tab that was told so, with nothing since to doubt it.
Sure(u) == granted[u] # NoImage /\ doubt[u] = "none"

\* What a sure tab was told holds in the tracker, and no heartbeat is late: the
\* claim is fresh, or its renewal is due or on its way.  A tab that is late is
\* about to find out.
Holds(u) ==
  /\ granted[u] # NoImage => Shows(u, granted[u])
  /\ doubt[u] # "none" => granted[u] # NoImage
  /\ doubt[u] = "late" => Renews(u)
  /\ Sure(u) =>
       /\ claims[granted[u]].by = u
       /\ claims[granted[u]].age = 0 \/ (claims[granted[u]].age = 1 /\ Renews(u))

Tab(u) ==
  /\ live[u] # NoImage => Shows(u, live[u])
  /\ due[u] => Shows(u, cur[u])

\* What the API and the tabs do by themselves.
LEMMA SystemType ==
  ASSUME TypeOK, \A u \in User : Tab(u),
         \/ \E u \in User : Heartbeat(u) \/ Poll(u) \/ \E i \in Image : Answer(u, i) \/ Fails(u, i)
         \/ RestartAPI \/ Tick
  PROVE  TypeOK'
<1>1. ASSUME NEW u \in User, Heartbeat(u) PROVE TypeOK'
  <2>1. /\ due[u] /\ calls' = [calls EXCEPT ![u] = @ \cup {cur[u]}]
        /\ live' = [live EXCEPT ![u] = cur[u]] /\ due' = [due EXCEPT ![u] = FALSE]
        /\ UNCHANGED <<claims, done, open, cur, view, known, events, granted, doubt>>
    BY <1>1 DEF Heartbeat, server, screen, told
  <2>2. cur[u] \in Image BY <2>1 DEF Tab, Shows, TypeOK
  <2>3. calls' \in [User -> SUBSET Image] /\ live' \in [User -> Image \cup {NoImage}]
        /\ due' \in [User -> BOOLEAN]
    BY <2>1, <2>2 DEF TypeOK
  <2>4. \A v \in User : live'[v] \in calls'[v] \cup {NoImage} BY <2>1, <2>2 DEF TypeOK
  <2>5. QED BY <2>1, <2>3, <2>4 DEF TypeOK
<1>2. ASSUME NEW u \in User, Poll(u) PROVE TypeOK'
  <2>1. /\ claims' = Expire(claims) /\ See(u, NamedClaims(claims'), done)
        /\ UNCHANGED <<done, open, events>>
    BY <1>2 DEF Poll
  <2>2. claims' \in [Image -> ClaimRecord]
    <3>1. claims \in [Image -> ClaimRecord] BY DEF TypeOK
    <3>2. Expire(claims) \in [Image -> ClaimRecord] BY <3>1, TrackerType
    <3>3. QED BY <2>1, <3>2
  <2>3. NamedClaims(claims') \in [Image -> Names] BY <2>2, NamesType
  <2>4. /\ view' = [view EXCEPT ![u] = NamedClaims(claims')]
        /\ known' = [known EXCEPT ![u] = done] /\ UNCHANGED cur
        /\ UNCHANGED effect \/ ClaimEffect(u, calls[u])
    BY <2>1 DEF See
  <2>5. view' \in [User -> [Image -> Names]] /\ known' \in [User -> SUBSET Image]
    BY <2>3, <2>4 DEF TypeOK
  <2>6. calls[u] \in SUBSET Image /\ cur' \in [User -> Image \cup {NoImage}] BY <2>4 DEF TypeOK
  <2>7. CASE UNCHANGED effect BY <2>1, <2>2, <2>4, <2>5, <2>7 DEF TypeOK, effect, told
  <2>8. CASE ClaimEffect(u, calls[u]) BY <2>1, <2>2, <2>4, <2>5, <2>6, <2>8, EffectType DEF TypeOK
  <2>9. QED BY <2>4, <2>7, <2>8
<1>3. ASSUME NEW u \in User, NEW i \in Image, Answer(u, i) PROVE TypeOK'
  <2> DEFINE sent == calls[u] \ {i}
  <2>1. /\ i \in calls[u] /\ claims' = Claim(claims, u, i)
        /\ UNCHANGED <<done, open, events>>
        /\ \/ i # live[u] /\ Unwanted(u, i, sent)
           \/ i = live[u] /\ Refused(claims, u, i) /\ MovesOn(u, i, sent)
           \/ /\ i = live[u] /\ ~Refused(claims, u, i)
              /\ \E same \in BOOLEAN : GrantedAnswer(u, i, same, NamedClaims(claims'), sent)
    BY <1>3, AnswerShape
  <2>2. claims' \in [Image -> ClaimRecord] BY <2>1, TrackerType DEF TypeOK
  <2>3. sent \in SUBSET Image BY DEF TypeOK
  <2>4. CASE i # live[u] /\ Unwanted(u, i, sent)
    BY <2>1, <2>2, <2>4, UnwantedType DEF TypeOK
  <2>5. CASE MovesOn(u, i, sent)
    BY <2>1, <2>2, <2>3, <2>5, MovesOnType DEF TypeOK
  <2>6. CASE \E same \in BOOLEAN : GrantedAnswer(u, i, same, NamedClaims(claims'), sent)
    <3>1. PICK same \in BOOLEAN : GrantedAnswer(u, i, same, NamedClaims(claims'), sent) BY <2>6
    <3>2. NamedClaims(claims') \in [Image -> Names] BY <2>2, NamesType
    <3>3. /\ UNCHANGED <<cur, known>>
          /\ view' \in [User -> [Image -> Names]]
          /\ granted' \in [User -> Image \cup {NoImage}]
          /\ calls' \in [User -> SUBSET Image]
          /\ live' \in [User -> Image \cup {NoImage}]
          /\ \A v \in User : live'[v] \in calls'[v] \cup {NoImage}
          /\ due' \in [User -> BOOLEAN]
          /\ doubt' \in [User -> {"none", "displaced", "late"}]
      BY <2>3, <3>1, <3>2, GrantedType
    <3>4. QED BY <2>1, <2>2, <3>3 DEF TypeOK
  <2>7. QED BY <2>1, <2>4, <2>5, <2>6
<1>4. ASSUME NEW u \in User, NEW i \in Image, Fails(u, i) PROVE TypeOK'
  <2> DEFINE sent == calls[u] \ {i}
  <2>1. /\ i \in calls[u] /\ claims' \in {claims, Claim(claims, u, i)}
        /\ UNCHANGED <<done, open>> /\ events < MaxEvents /\ events' = events + 1
        /\ \/ i # live[u] /\ Unwanted(u, i, sent)
           \/ i = live[u] /\ MovesOn(u, i, sent)
    BY <1>4 DEF Fails, Event
  <2>2. claims' \in [Image -> ClaimRecord]
    <3>1. claims \in [Image -> ClaimRecord] BY DEF TypeOK
    <3>2. Claim(claims, u, i) \in [Image -> ClaimRecord] BY <3>1, TrackerType
    <3>3. QED BY <2>1, <3>1, <3>2
  <2>3. sent \in SUBSET Image BY DEF TypeOK
  <2>4. events' \in 0..MaxEvents BY <2>1, QueueAssumption DEF TypeOK
  <2>5. CASE i # live[u] /\ Unwanted(u, i, sent)
    BY <2>1, <2>2, <2>4, <2>5, UnwantedType DEF TypeOK
  <2>6. CASE MovesOn(u, i, sent)
    BY <2>1, <2>2, <2>3, <2>4, <2>6, MovesOnType DEF TypeOK
  <2>7. QED BY <2>1, <2>5, <2>6
<1>5. CASE RestartAPI
  <2>1. NoClaims \in [Image -> ClaimRecord] BY NoClaimsOK DEF ClaimsOK
  <2>2. /\ events' = events + 1 /\ events < MaxEvents /\ claims' = NoClaims
        /\ UNCHANGED <<done, open, cur, view, known, calls, live, due, granted>>
    BY <1>5 DEF RestartAPI, Event, screen
  <2>3. events' \in 0..MaxEvents BY <2>2, QueueAssumption DEF TypeOK
  <2>4. doubt' \in [User -> {"none", "displaced", "late"}]
    <3>1. \A u \in User :
            (IF granted[u] = NoImage \/ doubt[u] # "none" THEN doubt[u] ELSE "displaced")
              \in {"none", "displaced", "late"}
      BY DEF TypeOK
    <3>2. QED BY <1>5, <3>1 DEF RestartAPI
  <2>5. QED BY <2>1, <2>2, <2>3, <2>4 DEF TypeOK
<1>6. CASE Tick
  <2>1. /\ claims' = [i \in Image |-> IF claims[i].by \in Away THEN claims[i] ELSE Older(claims)[i]]
        /\ due' = [u \in User |-> open[u] /\ cur[u] # NoImage /\ cur[u] \notin known[u]]
        /\ events' \in {0, 1}
        /\ UNCHANGED <<done, open, cur, view, known, calls, live, granted>>
    BY <1>6 DEF Tick, screen, Spent
  <2>2. ASSUME NEW i \in Image PROVE Older(claims)[i] \in ClaimRecord
    BY ClaimsAssumption DEF Older, ClaimRecord, TypeOK
  <2>3. claims' \in [Image -> ClaimRecord] BY <2>1, <2>2 DEF TypeOK
  <2>4. due' \in [User -> BOOLEAN]
    <3>1. ASSUME NEW u \in User
          PROVE  (open[u] /\ cur[u] # NoImage /\ cur[u] \notin known[u]) \in BOOLEAN
      OBVIOUS
    <3>2. QED BY <2>1, <3>1
  <2>5. events' \in 0..MaxEvents BY <2>1, QueueAssumption
  <2>6. doubt' \in [User -> {"none", "displaced", "late"}] BY <1>6 DEF Tick
  <2>7. QED BY <2>1, <2>3, <2>4, <2>5, <2>6 DEF TypeOK
<1>7. QED BY <1>1, <1>2, <1>3, <1>4, <1>5, <1>6

\* The tabs at the start.
LEMMA InitType == Init => TypeOK /\ \A u \in User : Tab(u) /\ Holds(u)
<1> SUFFICES ASSUME Init PROVE TypeOK /\ \A u \in User : Tab(u) /\ Holds(u) OBVIOUS
<1>1. claims \in [Image -> ClaimRecord] BY StartsOK DEF Init, ClaimsOK
<1>2. NobodySeen \in [Image -> Names] BY DEF NobodySeen, Names
<1>3. events \in 0..MaxEvents BY QueueAssumption DEF Init, Spent
<1>4. TypeOK BY <1>1, <1>2, <1>3 DEF Init, TypeOK
<1>5. \A u \in User : Tab(u) /\ Holds(u) BY DEF Init, Tab, Holds, Sure
<1>6. QED BY <1>4, <1>5

-----------------------------------------------------------------------------
(***************************************************************************)
(* The tabs.                                                               *)
(***************************************************************************)
\* A tab to which nothing happens.
SameTab(v) ==
  /\ open'[v] = open[v] /\ cur'[v] = cur[v] /\ known'[v] = known[v]
  /\ calls'[v] = calls[v] /\ live'[v] = live[v] /\ due'[v] = due[v]
  /\ granted'[v] = granted[v] /\ doubt'[v] = doubt[v]

LEMMA SameTabKeeps ==
  ASSUME NEW v \in User, SameTab(v)
  PROVE  /\ Tab(v) => Tab(v)'
         /\ Holds(v) /\ (Sure(v) => claims'[granted[v]] = claims[granted[v]])
              => Holds(v)'
BY DEF SameTab, Tab, Holds, Shows, Sure, Renews

\* Where the effect ran.
LEMMA EffectTab ==
  ASSUME TypeOK, NEW u \in User, NEW sent \in SUBSET calls[u], ClaimEffect(u, sent),
         open'[u]
  PROVE  /\ Tab(u)'
         /\ Holds(u)
            /\ (Sure(u) /\ granted'[u] = granted[u] =>
                  /\ claims'[granted[u]].by = u
                  /\ claims'[granted[u]].age \in {0, 1})
              => Holds(u)'
         /\ \A v \in User \ {u} :
              /\ calls'[v] = calls[v] /\ live'[v] = live[v] /\ due'[v] = due[v]
              /\ granted'[v] = granted[v] /\ doubt'[v] = doubt[v]
<1> DEFINE take == cur'[u] # NoImage /\ cur'[u] \notin known'[u]
<1>1. /\ calls' = [calls EXCEPT ![u] = sent \cup (IF take THEN {cur'[u]} ELSE {})]
      /\ live' = [live EXCEPT ![u] = IF take THEN cur'[u] ELSE NoImage]
      /\ due' = [due EXCEPT ![u] = FALSE]
      /\ granted' = [granted EXCEPT ![u] = IF take /\ @ = cur'[u] THEN @ ELSE NoImage]
      /\ doubt' = [doubt EXCEPT ![u] = IF granted'[u] = NoImage THEN "none" ELSE @]
  BY DEF ClaimEffect
<1>2. take => cur'[u] # NoImage /\ cur'[u] \notin known'[u] OBVIOUS
<1> HIDE DEF take
<1>3. /\ calls'[u] = sent \cup (IF take THEN {cur'[u]} ELSE {})
      /\ live'[u] = (IF take THEN cur'[u] ELSE NoImage)
      /\ due'[u] = FALSE
      /\ granted'[u] = (IF take /\ granted[u] = cur'[u] THEN granted[u] ELSE NoImage)
      /\ doubt'[u] = (IF granted'[u] = NoImage THEN "none" ELSE doubt[u])
  BY <1>1 DEF TypeOK
<1>4. Tab(u)'
  <2>1. live'[u] # NoImage => take /\ live'[u] = cur'[u] BY <1>3
  <2>2. QED BY <1>2, <1>3, <2>1 DEF Tab, Shows
<1>5. ASSUME Holds(u),
             Sure(u) /\ granted'[u] = granted[u] =>
               claims'[granted[u]].by = u /\ claims'[granted[u]].age \in {0, 1}
      PROVE  Holds(u)'
  <2>1. CASE granted'[u] = NoImage
    BY <1>3, <2>1 DEF Holds, Sure
  <2>2. CASE granted'[u] # NoImage
    <3>1. take /\ granted'[u] = granted[u] /\ granted[u] = cur'[u] /\ live'[u] = cur'[u]
          /\ doubt'[u] = doubt[u]
      BY <1>3, <2>2
    <3>2. Shows(u, granted[u])' BY <1>2, <3>1 DEF Shows
    <3>3. Renews(u)' BY <3>1 DEF Renews
    <3>4. Sure(u)' => Sure(u) BY <3>1 DEF Sure
    <3>5. QED BY <1>5, <2>2, <3>1, <3>2, <3>3, <3>4 DEF Holds
  <2>3. QED BY <2>1, <2>2
<1>6. \A v \in User \ {u} :
        /\ calls'[v] = calls[v] /\ live'[v] = live[v] /\ due'[v] = due[v]
        /\ granted'[v] = granted[v] /\ doubt'[v] = doubt[v]
  BY <1>1 DEF TypeOK
<1>7. QED BY <1>4, <1>5, <1>6

-----------------------------------------------------------------------------
(***************************************************************************)
(* A claim that is fresh, or one heartbeat old, is safe from everybody.    *)
(***************************************************************************)
Safe(c, u, i) == i \in Image /\ c[i].by = u /\ c[i].age \in {0, 1}

\* It does not expire.
LEMMA SafeStays ==
  ASSUME TTL # 0, NEW c, NEW u \in User, NEW i, Safe(c, u, i)
  PROVE  Expire(c)[i] = c[i] /\ ~Refused(c, u, i)
<1>1. ~(c[i].age > TTL) BY ClaimsAssumption DEF Safe
<1>2. Expire(c)[i] = c[i] BY <1>1 DEF Safe, Expire
<1>3. QED BY <1>2 DEF Refused, Holder, Safe

\* Others' claims and releases pass it by.
LEMMA SafeFromOthers ==
  ASSUME TTL # 0, NEW c \in [Image -> ClaimRecord], NEW u \in User, NEW i, Safe(c, u, i),
         NEW v \in User \ {u}, NEW k \in Image
  PROVE  Claim(c, v, k)[i] = c[i] /\ Release(c, v, k)[i] = c[i]
<1>1. Expire(c)[i] = c[i] BY SafeStays
<1>2. c[i].by = u /\ i \in Image /\ u # NoOne BY ClaimsAssumption DEF Safe
<1>3. Release(c, v, k)[i] = c[i] BY <1>2 DEF Release
<1>4. CASE Refused(c, v, k) BY <1>1, <1>3, <1>4 DEF Claim
<1>5. CASE ~Refused(c, v, k)
  <2>1. k # i BY <1>1, <1>2, <1>5 DEF Refused, Holder
  <2>2. Claim(c, v, k)[i] = IF Expire(c)[i].by = v THEN Unclaimed ELSE Expire(c)[i]
    BY <1>2, <1>5, <2>1 DEF Claim
  <2>3. QED BY <1>1, <1>2, <1>3, <2>2
<1>6. QED BY <1>4, <1>5

\* One's own claim makes it fresh.
LEMMA OwnClaim ==
  ASSUME NEW c, NEW u \in User, NEW i \in Image, ~Refused(c, u, i)
  PROVE  Claim(c, u, i)[i].by = u /\ Claim(c, u, i)[i].age = 0
BY DEF Claim

LEMMA HoldsSafe == ASSUME TypeOK, NEW u \in User, Holds(u), Sure(u)
                   PROVE  Safe(claims, u, granted[u])
BY DEF Holds, Safe, Sure, TypeOK

-----------------------------------------------------------------------------
(***************************************************************************)
(* The invariant.                                                          *)
(***************************************************************************)
QueueInv == TypeOK /\ \A u \in User : Tab(u) /\ Holds(u)

\* A step of one tab that reaches the tracker only by that user's claims.
LEMMA OneTab ==
  ASSUME QueueInv, TTL # 0, NEW u \in User,
         \A v \in User \ {u} : SameTab(v),
         \A v \in User \ {u} : Sure(v) => claims'[granted[v]] = claims[granted[v]],
         Tab(u)', Holds(u)'
  PROVE  \A v \in User : (Tab(v) /\ Holds(v))'
<1>1. ASSUME NEW v \in User \ {u} PROVE Tab(v)' /\ Holds(v)'
  BY <1>1, SameTabKeeps DEF QueueInv
<1>2. QED BY <1>1

\* Claims of u and their failures leave what others were told true.
LEMMA OthersKeep ==
  ASSUME QueueInv, TTL # 0, NEW u \in User, NEW i \in Image,
         NEW v \in User \ {u}, Sure(v)
  PROVE  /\ Claim(claims, u, i)[granted[v]] = claims[granted[v]]
         /\ Release(claims, u, i)[granted[v]] = claims[granted[v]]
<1>1. claims \in [Image -> ClaimRecord] BY DEF QueueInv, TypeOK
<1>2. Safe(claims, v, granted[v]) BY HoldsSafe DEF QueueInv
<1>3. u \in User \ {v} OBVIOUS
<1>4. QED BY <1>1, <1>2, <1>3, SafeFromOthers

\* What people do.
LEMMA UserTabs ==
  ASSUME QueueInv, TTL # 0, NEW u \in User, Open(u) \/ Close(u) \/ GoToImage(u) \/ SaveLabel(u)
  PROVE  \A v \in User : (Tab(v) /\ Holds(v))'
<1>1. TypeOK /\ Tab(u) /\ Holds(u) BY DEF QueueInv
<1>2. calls[u] \in SUBSET calls[u] OBVIOUS
<1>3. CASE Open(u)
  <2>1. /\ ~open[u] /\ open' = [open EXCEPT ![u] = TRUE] /\ known' = [known EXCEPT ![u] = done]
        /\ \E i \in Image : cur' = [cur EXCEPT ![u] = i]
        /\ ClaimEffect(u, calls[u]) /\ UNCHANGED claims
    BY <1>3 DEF Open, server
  <2>2. open'[u] = TRUE BY <1>1, <2>1 DEF TypeOK
  <2>3. granted[u] = NoImage BY <1>1, <2>1 DEF Holds, Shows
  <2>4. ~Sure(u) BY <2>3 DEF Sure
  <2>5. Tab(u)' /\ Holds(u)' BY <1>1, <1>2, <2>1, <2>2, <2>4, EffectTab
  <2>6. \A v \in User \ {u} : SameTab(v)
    BY <1>1, <1>2, <2>1, <2>2, EffectTab DEF SameTab, TypeOK
  <2>7. QED BY <2>1, <2>5, <2>6, OneTab
<1>4. CASE Close(u)
  <2>1. /\ open' = [open EXCEPT ![u] = FALSE] /\ cur' = [cur EXCEPT ![u] = NoImage]
        /\ known' = [known EXCEPT ![u] = {}]
        /\ live' = [live EXCEPT ![u] = NoImage] /\ due' = [due EXCEPT ![u] = FALSE]
        /\ granted' = [granted EXCEPT ![u] = NoImage] /\ doubt' = [doubt EXCEPT ![u] = "none"]
        /\ UNCHANGED <<claims, calls>>
    BY <1>4 DEF Close, server
  <2>2. /\ live'[u] = NoImage /\ due'[u] = FALSE /\ granted'[u] = NoImage /\ doubt'[u] = "none"
    BY <1>1, <2>1 DEF TypeOK
  <2>3. Tab(u)' /\ Holds(u)' BY <2>2 DEF Tab, Holds, Sure
  <2>4. \A v \in User \ {u} : SameTab(v) BY <1>1, <2>1 DEF SameTab, TypeOK
  <2>5. QED BY <2>1, <2>3, <2>4, OneTab
<1>5. CASE GoToImage(u)
  <2>1. /\ open[u] /\ UNCHANGED <<open, known, claims>>
        /\ \E i \in Image \ {cur[u]} : cur' = [cur EXCEPT ![u] = i]
        /\ ClaimEffect(u, calls[u])
    BY <1>5 DEF GoToImage, server
  <2>2. open'[u] BY <2>1
  <2>3. Sure(u) => claims'[granted[u]].by = u /\ claims'[granted[u]].age \in {0, 1}
    BY <1>1, <2>1 DEF Holds
  <2>4. Tab(u)' /\ Holds(u)' BY <1>1, <1>2, <2>1, <2>2, <2>3, EffectTab
  <2>5. \A v \in User \ {u} : SameTab(v)
    BY <1>1, <1>2, <2>1, <2>2, EffectTab DEF SameTab, TypeOK
  <2>6. QED BY <2>1, <2>4, <2>5, OneTab
<1>6. CASE SaveLabel(u)
  <2>1. /\ open[u] /\ cur[u] # NoImage /\ claims' = Release(claims, u, cur[u])
        /\ known' = [known EXCEPT ![u] = done'] /\ UNCHANGED open
        /\ ClaimEffect(u, calls[u])
    BY <1>6 DEF SaveLabel
  <2>2. PICK i \in NextTodo(u, done', cur[u]) : cur' = [cur EXCEPT ![u] = i] BY <1>6 DEF SaveLabel
  <2>3. cur[u] \in Image BY <1>1, <2>1 DEF TypeOK
  <2>4. cur'[u] # cur[u]
    <3>1. i # cur[u] BY <2>1, NextType
    <3>2. QED BY <1>1, <2>2, <3>1 DEF TypeOK
  <2>5. granted'[u] = NoImage
    <3>1. granted'[u] = NoImage \/ (granted'[u] = granted[u] /\ granted[u] = cur'[u])
      BY <1>1, <2>1 DEF ClaimEffect, TypeOK
    <3>2. granted[u] \in {NoImage, cur[u]} BY <1>1 DEF Holds, Shows
    <3>3. QED BY <2>4, <3>1, <3>2
  <2>6. open'[u] BY <2>1
  <2>7. Tab(u)' BY <1>1, <1>2, <2>1, <2>6, EffectTab
  <2>8. Holds(u)'
    <3>1. ~(Sure(u) /\ granted'[u] = granted[u]) BY <2>5 DEF Sure
    <3>2. QED BY <1>1, <1>2, <2>1, <2>6, <3>1, EffectTab
  <2>9. \A v \in User \ {u} : SameTab(v)
    <3>1. \A v \in User \ {u} : cur'[v] = cur[v] /\ known'[v] = known[v]
      BY <1>1, <2>1, <2>2 DEF TypeOK
    <3>2. QED BY <1>1, <1>2, <2>1, <2>6, <3>1, EffectTab DEF SameTab
  <2>10. \A v \in User \ {u} : Sure(v) => claims'[granted[v]] = claims[granted[v]]
    BY <2>1, <2>3, OthersKeep
  <2>11. QED BY <2>7, <2>8, <2>9, <2>10, OneTab
<1>7. QED BY <1>3, <1>4, <1>5, <1>6

\* On to the next image, after a refusal or a failure of the claim of tab u.
LEMMA MovesOnTab ==
  ASSUME QueueInv, TTL # 0, NEW u \in User, NEW i \in calls[u], i = live[u], UNCHANGED open,
         MovesOn(u, i, calls[u] \ {i}),
         claims' \in {claims, Claim(claims, u, i)}
  PROVE  \A v \in User : (Tab(v) /\ Holds(v))'
<1>1. TypeOK /\ Tab(u) /\ Holds(u) BY DEF QueueInv
<1>2. i \in Image BY <1>1 DEF TypeOK
<1>3. i # NoImage BY <1>2, QueueAssumption
<1>4. Shows(u, i) BY <1>1, <1>3 DEF Tab
<1>5. PICK k \in NextTodo(u, known[u], i) : cur' = [cur EXCEPT ![u] = k] BY DEF MovesOn
<1>6. k # i BY <1>3, NextType
<1>7. cur'[u] # cur[u] BY <1>1, <1>4, <1>5, <1>6 DEF TypeOK, Shows
<1>8. /\ ClaimEffect(u, calls[u] \ {i}) /\ UNCHANGED known /\ open'[u]
      /\ calls[u] \ {i} \in SUBSET calls[u]
  BY <1>4 DEF MovesOn, Shows
<1>9. granted'[u] = NoImage
  <2>1. granted'[u] = NoImage \/ (granted'[u] = granted[u] /\ granted[u] = cur'[u])
    BY <1>1, <1>8 DEF ClaimEffect, TypeOK
  <2>2. granted[u] \in {NoImage, cur[u]} BY <1>1 DEF Holds, Shows
  <2>3. QED BY <1>7, <2>1, <2>2
<1>10. Tab(u)' BY <1>1, <1>8, EffectTab
<1>11. Holds(u)'
  <2>1. ~(Sure(u) /\ granted'[u] = granted[u]) BY <1>9 DEF Sure
  <2>2. QED BY <1>1, <1>8, <2>1, EffectTab
<1>12. \A v \in User \ {u} : SameTab(v)
  <2>1. \A v \in User \ {u} : cur'[v] = cur[v] BY <1>1, <1>5 DEF TypeOK
  <2>2. QED BY <1>1, <1>8, <2>1, EffectTab DEF SameTab
<1>13. \A v \in User \ {u} : Sure(v) => claims'[granted[v]] = claims[granted[v]]
  BY <1>2, OthersKeep
<1>14. QED BY <1>10, <1>11, <1>12, <1>13, OneTab

\* An answer nobody wants: of what the tab asked for, and no longer shows.
LEMMA UnwantedTab ==
  ASSUME QueueInv, TTL # 0, NEW u \in User, NEW i \in calls[u], i # live[u], UNCHANGED open,
         Unwanted(u, i, calls[u] \ {i}),
         claims' \in {claims, Claim(claims, u, i)}
  PROVE  \A v \in User : (Tab(v) /\ Holds(v))'
<1>1. TypeOK /\ Tab(u) /\ Holds(u) BY DEF QueueInv
<1>2. i \in Image BY <1>1 DEF TypeOK
<1>3. /\ calls' = [calls EXCEPT ![u] = calls[u] \ {i}]
      /\ UNCHANGED <<cur, known, live, due, granted, open>>
  BY DEF Unwanted, screen
<1>4. Tab(u)' BY <1>1, <1>3 DEF Tab, Shows
<1>5. /\ doubt' \in {doubt, [doubt EXCEPT ![u] = "displaced"]}
      /\ doubt'[u] \in {doubt[u], "displaced"}
      /\ doubt'[u] # doubt[u] => Sure(u)
      /\ Sure(u) /\ doubt'[u] = "none" =>
           claims' = claims \/ Refused(claims, u, i) \/ granted[u] = i
  <2>1. CASE claims' = claims \/ Refused(claims, u, i)
    <3>1. doubt' = doubt BY <2>1 DEF Unwanted
    <3>2. QED BY <2>1, <3>1
  <2>2. CASE ~(claims' = claims \/ Refused(claims, u, i)) /\ (granted[u] \in {NoImage, i} \/ doubt[u] # "none")
    <3>1. doubt' = doubt BY <1>1, <2>2 DEF Unwanted, Displaced, TypeOK
    <3>2. QED BY <2>2, <3>1 DEF Sure
  <2>3. CASE ~(claims' = claims \/ Refused(claims, u, i)) /\ granted[u] \notin {NoImage, i} /\ doubt[u] = "none"
    <3>1. doubt' = [doubt EXCEPT ![u] = "displaced"] BY <1>1, <2>3 DEF Unwanted, Displaced, TypeOK
    <3>2. doubt'[u] = "displaced" BY <1>1, <3>1 DEF TypeOK
    <3>3. QED BY <2>3, <3>1, <3>2 DEF Sure
  <2>4. QED BY <2>1, <2>2, <2>3
<1>6. Holds(u)'
  <2>1. ASSUME Sure(u)'
        PROVE  /\ claims'[granted[u]].by = u
               /\ claims'[granted[u]].age = 0 \/ claims'[granted[u]].age = claims[granted[u]].age
    <3>1. doubt[u] = "none" BY <1>5, <2>1 DEF Sure
    <3>2. Sure(u) BY <1>3, <2>1, <3>1 DEF Sure
    <3>3. Safe(claims, u, granted[u]) BY <1>1, <3>2, HoldsSafe
    <3>4. Expire(claims)[granted[u]] = claims[granted[u]] BY <3>3, SafeStays
    <3>5. CASE claims' = claims BY <3>3, <3>5 DEF Safe
    <3>6. CASE Refused(claims, u, i) /\ claims' # claims
      <4>1. claims' = Expire(claims) BY <3>6 DEF Claim
      <4>2. QED BY <3>3, <3>4, <4>1 DEF Safe
    <3>7. CASE ~Refused(claims, u, i) /\ claims' # claims
      <4>1. granted[u] = i BY <1>5, <2>1, <3>2, <3>7 DEF Sure
      <4>2. QED BY <1>2, <3>7, <4>1, OwnClaim
    <3>8. QED BY <3>5, <3>6, <3>7
  <2>2. doubt'[u] # "none" => granted[u] # NoImage BY <1>1, <1>5 DEF Holds, Sure
  <2>3. doubt'[u] = "late" => doubt[u] = "late" BY <1>5
  <2>4. Renews(u)' <=> Renews(u) BY <1>3 DEF Renews
  <2>5. (Shows(u, granted[u]) => Shows(u, granted[u])') /\ granted'[u] = granted[u]
    BY <1>3 DEF Shows
  <2>6. Sure(u)' => Sure(u) BY <1>3, <1>5 DEF Sure
  <2>7. QED BY <1>1, <2>1, <2>2, <2>3, <2>4, <2>5, <2>6 DEF Holds
<1>7. \A v \in User \ {u} : SameTab(v) BY <1>1, <1>3, <1>5 DEF SameTab, TypeOK
<1>8. \A v \in User \ {u} : Sure(v) => claims'[granted[v]] = claims[granted[v]]
  BY <1>2, OthersKeep
<1>9. QED BY <1>4, <1>6, <1>7, <1>8, OneTab

\* The tab is told that the image on screen is its user's.
LEMMA GrantedTab ==
  ASSUME QueueInv, TTL # 0, NEW u \in User, NEW i \in calls[u], i = live[u],
         UNCHANGED open, ~Refused(claims, u, i), claims' = Claim(claims, u, i),
         NEW same \in BOOLEAN, NEW names, GrantedAnswer(u, i, same, names, calls[u] \ {i})
  PROVE  \A v \in User : (Tab(v) /\ Holds(v))'
<1>1. TypeOK /\ Tab(u) /\ Holds(u) BY DEF QueueInv
<1>2. i \in Image /\ i # NoImage BY <1>1, QueueAssumption DEF TypeOK
<1>3. Shows(u, i) BY <1>1, <1>2 DEF Tab
<1>4. /\ granted' = [granted EXCEPT ![u] = i]
      /\ calls' = [calls EXCEPT ![u] = IF same THEN calls[u] \ {i} ELSE (calls[u] \ {i}) \cup {i}]
      /\ live' = [live EXCEPT ![u] = IF same THEN NoImage ELSE i]
      /\ due' = [due EXCEPT ![u] = same /\ @]
      /\ doubt' = [doubt EXCEPT ![u] = "none"]
      /\ UNCHANGED <<cur, known>>
  BY DEF GrantedAnswer
<1>5. Shows(u, i)' BY <1>3, <1>4 DEF Shows
<1>6. granted'[u] = i /\ live'[u] \in {NoImage, i} /\ doubt'[u] = "none"
  BY <1>1, <1>4 DEF TypeOK
<1>7. Tab(u)'
  <2>1. cur'[u] = i BY <1>5 DEF Shows
  <2>2. QED BY <1>5, <1>6, <2>1 DEF Tab
<1>8. claims'[i].by = u /\ claims'[i].age = 0 BY <1>2, OwnClaim
<1>9. Holds(u)' BY <1>5, <1>6, <1>8 DEF Holds, Sure
<1>10. \A v \in User \ {u} : SameTab(v) BY <1>1, <1>4 DEF SameTab, TypeOK
<1>11. \A v \in User \ {u} : Sure(v) => claims'[granted[v]] = claims[granted[v]]
  BY <1>2, OthersKeep
<1>12. QED BY <1>7, <1>9, <1>10, <1>11, OneTab

\* What the tabs, the API and time do.
LEMMA SystemTabs ==
  ASSUME QueueInv, TTL # 0,
         \/ \E u \in User : Heartbeat(u) \/ Poll(u) \/ \E i \in Image : Answer(u, i) \/ Fails(u, i)
         \/ RestartAPI \/ Tick
  PROVE  \A v \in User : (Tab(v) /\ Holds(v))'
<1>1. TypeOK /\ \A v \in User : Tab(v) /\ Holds(v) BY DEF QueueInv
<1>2. ASSUME NEW u \in User, Heartbeat(u) PROVE \A v \in User : (Tab(v) /\ Holds(v))'
  <2>1. /\ due[u] /\ calls' = [calls EXCEPT ![u] = @ \cup {cur[u]}]
        /\ live' = [live EXCEPT ![u] = cur[u]] /\ due' = [due EXCEPT ![u] = FALSE]
        /\ UNCHANGED <<claims, open, cur, known, granted, doubt>>
    BY <1>2 DEF Heartbeat, server, screen, told
  <2>2. Shows(u, cur[u]) BY <1>1, <2>1 DEF Tab
  <2>3. /\ calls'[u] = calls[u] \cup {cur[u]} /\ live'[u] = cur[u] /\ due'[u] = FALSE
    BY <1>1, <2>1 DEF TypeOK
  <2>4. Tab(u)' BY <2>1, <2>2, <2>3 DEF Tab, Shows
  <2>5. Holds(u)'
    <3>1. granted[u] # NoImage => granted[u] = cur[u] BY <1>1 DEF Holds, Shows
    <3>2. granted[u] # NoImage => Renews(u)' BY <2>1, <2>3, <3>1 DEF Renews
    <3>3. (Sure(u)' <=> Sure(u)) /\ (Shows(u, granted[u]) <=> Shows(u, granted[u])')
      BY <2>1 DEF Sure, Shows
    <3>4. Sure(u) => granted[u] # NoImage BY DEF Sure
    <3>5. QED BY <1>1, <2>1, <3>2, <3>3, <3>4 DEF Holds
  <2>6. \A v \in User \ {u} : SameTab(v) BY <1>1, <2>1 DEF SameTab, TypeOK
  <2>7. QED BY <2>1, <2>4, <2>5, <2>6, OneTab
<1>3. ASSUME NEW u \in User, Poll(u) PROVE \A v \in User : (Tab(v) /\ Holds(v))'
  <2>1. /\ open[u] /\ claims' = Expire(claims) /\ See(u, NamedClaims(claims'), done)
        /\ UNCHANGED open
    BY <1>3 DEF Poll
  <2>2. \A v \in User : Sure(v) => claims'[granted[v]] = claims[granted[v]]
    BY <1>1, <2>1, HoldsSafe, SafeStays
  <2>3. /\ known' = [known EXCEPT ![u] = done] /\ UNCHANGED cur
        /\ \/ Same(done, known[u]) /\ UNCHANGED effect
           \/ ClaimEffect(u, calls[u])
    BY <2>1 DEF See
  <2>4. \A v \in User \ {u} : known'[v] = known[v] /\ cur'[v] = cur[v] /\ open'[v] = open[v]
    BY <1>1, <2>1, <2>3 DEF TypeOK
  <2>5. CASE Same(done, known[u]) /\ UNCHANGED effect
    <3>1. known'[u] = known[u] BY <1>1, <2>3, <2>5 DEF Same, TypeOK
    <3>2. \A v \in User : SameTab(v) BY <2>1, <2>3, <2>4, <2>5, <3>1 DEF SameTab, effect, told
    <3>3. QED BY <1>1, <2>2, <3>2, SameTabKeeps
  <2>6. CASE ClaimEffect(u, calls[u])
    <3>1. open'[u] /\ calls[u] \in SUBSET calls[u] BY <2>1
    <3>2. Sure(u) => claims'[granted[u]].by = u /\ claims'[granted[u]].age \in {0, 1}
      BY <1>1, <2>2, HoldsSafe DEF Safe
    <3>3. Tab(u)' /\ Holds(u)' BY <1>1, <2>6, <3>1, <3>2, EffectTab
    <3>4. \A v \in User \ {u} : SameTab(v) BY <1>1, <2>4, <2>6, <3>1, EffectTab DEF SameTab
    <3>5. QED BY <2>2, <3>3, <3>4, OneTab
  <2>7. QED BY <2>3, <2>5, <2>6
<1>4. ASSUME NEW u \in User, NEW i \in Image, Answer(u, i)
      PROVE  \A v \in User : (Tab(v) /\ Holds(v))'
  <2>1. /\ i \in calls[u] /\ claims' = Claim(claims, u, i) /\ UNCHANGED open
        /\ \/ i # live[u] /\ Unwanted(u, i, calls[u] \ {i})
           \/ i = live[u] /\ Refused(claims, u, i) /\ MovesOn(u, i, calls[u] \ {i})
           \/ /\ i = live[u] /\ ~Refused(claims, u, i)
              /\ \E same \in BOOLEAN :
                   GrantedAnswer(u, i, same, NamedClaims(claims'), calls[u] \ {i})
    BY <1>4, AnswerShape
  <2>2. CASE i # live[u] /\ Unwanted(u, i, calls[u] \ {i}) BY <2>1, <2>2, UnwantedTab
  <2>3. CASE i = live[u] /\ MovesOn(u, i, calls[u] \ {i}) BY <2>1, <2>3, MovesOnTab
  <2>4. CASE /\ i = live[u] /\ ~Refused(claims, u, i)
             /\ \E same \in BOOLEAN :
                  GrantedAnswer(u, i, same, NamedClaims(claims'), calls[u] \ {i})
    <3>1. PICK same \in BOOLEAN : GrantedAnswer(u, i, same, NamedClaims(claims'), calls[u] \ {i})
      BY <2>4
    <3>2. QED BY <2>1, <2>4, <3>1, GrantedTab
  <2>5. QED BY <2>1, <2>2, <2>3, <2>4
<1>5. ASSUME NEW u \in User, NEW i \in Image, Fails(u, i)
      PROVE  \A v \in User : (Tab(v) /\ Holds(v))'
  <2>1. /\ i \in calls[u] /\ claims' \in {claims, Claim(claims, u, i)} /\ UNCHANGED open
        /\ \/ i # live[u] /\ Unwanted(u, i, calls[u] \ {i})
           \/ i = live[u] /\ MovesOn(u, i, calls[u] \ {i})
    BY <1>5 DEF Fails
  <2>2. CASE i # live[u] /\ Unwanted(u, i, calls[u] \ {i}) BY <2>1, <2>2, UnwantedTab
  <2>3. CASE i = live[u] /\ MovesOn(u, i, calls[u] \ {i}) BY <2>1, <2>3, MovesOnTab
  <2>4. QED BY <2>1, <2>2, <2>3
<1>6. CASE RestartAPI
  <2>1. /\ doubt' = [u \in User |->
             IF granted[u] = NoImage \/ doubt[u] # "none" THEN doubt[u] ELSE "displaced"]
        /\ UNCHANGED <<open, cur, known, live, due, granted>>
    BY <1>6 DEF RestartAPI, screen
  <2>2. ASSUME NEW v \in User PROVE Tab(v)' BY <1>1, <2>1 DEF Tab, Shows
  <2>3. ASSUME NEW v \in User PROVE Holds(v)'
    <3>1. ~Sure(v)' /\ (doubt'[v] # "none" => granted[v] # NoImage)
          /\ (doubt'[v] = "late" => doubt[v] = "late")
      BY <1>1, <2>1 DEF Sure, Holds
    <3>2. (Renews(v)' <=> Renews(v)) /\ (Shows(v, granted[v]) => Shows(v, granted[v])')
      BY <2>1 DEF Renews, Shows
    <3>3. QED BY <1>1, <2>1, <3>1, <3>2 DEF Holds
  <2>4. QED BY <2>2, <2>3
<1>7. CASE Tick
  <2>1. /\ claims' = [i \in Image |-> IF claims[i].by \in Away THEN claims[i] ELSE Older(claims)[i]]
        /\ due' = [u \in User |-> open[u] /\ cur[u] # NoImage /\ cur[u] \notin known[u]]
        /\ doubt' = [u \in User |->
             IF granted[u] # NoImage /\ (Renews(u) \/ doubt[u] # "none") THEN "late" ELSE "none"]
        /\ UNCHANGED <<open, cur, known, calls, live, granted>>
    BY <1>7 DEF Tick, screen
  <2>2. ASSUME NEW v \in User PROVE Tab(v)' BY <1>1, <2>1 DEF Tab, Shows
  <2>3. ASSUME NEW v \in User, granted[v] # NoImage PROVE Holds(v)'
    <3>1. granted[v] \in Image /\ v # NoOne /\ 0 <= TTL
      BY <1>1, <2>3, ClaimsAssumption DEF TypeOK
    <3>2. Shows(v, granted[v]) BY <1>1, <2>3 DEF Holds
    <3>3. due'[v] /\ granted'[v] = granted[v] /\ Shows(v, granted[v])'
      BY <2>1, <3>2 DEF Shows
    <3>4. Renews(v)' BY <3>3 DEF Renews
    <3>5. ASSUME Sure(v)'
          PROVE  claims'[granted[v]].by = v /\ claims'[granted[v]].age \in {0, 1}
      <4>1. ~Renews(v) /\ doubt[v] = "none" BY <1>1, <2>1, <2>3, <3>5 DEF Sure
      <4>2. claims[granted[v]].by = v /\ claims[granted[v]].age = 0
        BY <1>1, <2>3, <4>1 DEF Holds, Sure
      <4>3. Older(claims)[granted[v]] = [claims[granted[v]] EXCEPT !.age = @ + 1]
        BY <3>1, <4>2 DEF Older
      <4>4. claims[granted[v]] \in ClaimRecord BY <1>1, <3>1 DEF TypeOK
      <4>5. Older(claims)[granted[v]].by = v /\ Older(claims)[granted[v]].age = 1
        BY <4>2, <4>3, <4>4 DEF ClaimRecord
      <4>6. claims'[granted[v]] \in {claims[granted[v]], Older(claims)[granted[v]]}
        BY <2>1, <3>1
      <4>7. QED BY <4>2, <4>5, <4>6
    <3>6. QED BY <2>3, <3>3, <3>4, <3>5 DEF Holds
  <2>4. ASSUME NEW v \in User, granted[v] = NoImage PROVE Holds(v)'
    BY <2>1, <2>4 DEF Holds, Sure
  <2>5. QED BY <2>2, <2>3, <2>4
<1>8. QED BY <1>2, <1>3, <1>4, <1>5, <1>6, <1>7

LEMMA QueueInvStep == TTL # 0 /\ QueueInv /\ [Next]_vars => QueueInv'
<1> SUFFICES ASSUME TTL # 0, QueueInv, [Next]_vars PROVE QueueInv' OBVIOUS
<1>1. TypeOK /\ \A u \in User : Tab(u) /\ Holds(u) BY DEF QueueInv
<1>2. CASE UNCHANGED vars
  BY <1>1, <1>2
     DEF QueueInv, vars, server, screen, effect, told, TypeOK, Tab, Holds, Shows, Sure, Renews
<1>3. CASE \E u \in User : Open(u) \/ Close(u) \/ GoToImage(u) \/ SaveLabel(u)
  BY <1>1, <1>3, UserType, UserTabs DEF QueueInv
<1>4. CASE \/ \E u \in User : Heartbeat(u) \/ Poll(u) \/ \E i \in Image : Answer(u, i) \/ Fails(u, i)
           \/ RestartAPI \/ Tick
  BY <1>1, <1>4, SystemType, SystemTabs DEF QueueInv
<1>5. QED BY <1>2, <1>3, <1>4 DEF Next

LEMMA QueueInvInit == Init => QueueInv
BY InitType DEF QueueInv

\* The tracker and the tabs stay well-typed, if claims outlive a heartbeat.
THEOREM TypeCorrect == ASSUME TTL # 0 PROVE Spec => []TypeOK
<1>1. QueueInv /\ [Next]_vars => QueueInv' BY QueueInvStep
<1>2. QueueInv => TypeOK BY DEF QueueInv
<1>3. QED BY <1>1, <1>2, QueueInvInit, PTL DEF Spec

\* FR-49: for any number of people and images, in whatever order the requests of
\* a tab arrive, and whatever is saved, closed, lost or slept through, two people
\* are both told that one image is theirs only while one of them cannot know yet
\* that it is lost: until the next heartbeat's time after an older request or a
\* restart took the claim away, and from then, or from a heartbeat slept through,
\* while a renewal is due or under way (claims.go:36-44, session.ts:615-640).
THEOREM NeverTwoOnOneImage == ASSUME TTL # 0 PROVE Spec => []NoTwoOnOneImage
<1>1. QueueInv /\ [Next]_vars => QueueInv' BY QueueInvStep
<1>2. QueueInv => NoTwoOnOneImage
  <2> SUFFICES ASSUME QueueInv, NEW u \in User, NEW v \in User, u # v,
                      granted[u] = granted[v], granted[u] # NoImage
               PROVE  \E w \in {u, v} : doubt[w] = "displaced" \/ (doubt[w] = "late" /\ Renews(w))
    BY DEF NoTwoOnOneImage
  <2>1. TypeOK /\ Holds(u) /\ Holds(v) BY DEF QueueInv
  <2>2. ~(Sure(u) /\ Sure(v)) BY <2>1 DEF Holds
  <2>3. PICK w \in {u, v} : doubt[w] # "none" BY <2>2 DEF Sure
  <2>4. doubt[w] \in {"displaced", "late"} BY <2>1, <2>3 DEF TypeOK
  <2>5. QED BY <2>1, <2>3, <2>4 DEF Holds
<1>3. QED BY <1>1, <1>2, QueueInvInit, PTL DEF Spec
=============================================================================
