-------------------------------- MODULE Queue --------------------------------
(***************************************************************************)
(* Several people labeling one project: the claims tracker, the two         *)
(* endpoints of transport/httpapi/state.go, and in each browser the part of *)
(* useSession (frontend, session.ts) that decides which image is on screen: *)
(* the queue, the poll, the claim effect and its heartbeat.                 *)
(*                                                                         *)
(* A tab re-runs its claim effect whenever the image on screen, its view of *)
(* the claims or its view of the finished images changes: the previous run  *)
(* is cancelled, its request is not.                                        *)
(***************************************************************************)
EXTENDS Claims, FiniteSets

CONSTANTS
  Named,        \* users whose display name is not their subject
  MaxEvents,    \* bound: what users do, failures and restarts in a heartbeat's time
  Away,         \* bound: users who stay on one image and renew, whose tabs are left out
  Starts,       \* the trackers a behaviour may begin with: claims of theirs
  NoImage       \* nothing on screen

ASSUME QueueAssumption ==
  /\ Named \subseteq User
  /\ Away \subseteq User
  /\ \A c \in Starts :
       /\ c \in [Image -> {Unclaimed} \cup {[by |-> a, age |-> 0] : a \in Away}]
       /\ \A i, k \in Image : c[i].by = c[k].by /\ i # k => c[i].by = NoOne
  /\ MaxEvents \in Nat \ {0}
  /\ NoImage \notin Image

VARIABLES
  claims,       \* the tracker
  done,         \* finished images, in the database
  open,         \* tabs that are open
  cur,          \* the image on screen
  view,         \* the claims as the tab knows them: image -> name
  known,        \* the finished images the tab knows of
  calls,        \* images for which a POST /api/claim of the tab is under way
  live,         \* the one of them whose answer the tab still wants
  due,          \* tabs whose heartbeat is due
  events,       \* how much of that happened since the last heartbeat
  granted,      \* history: the image on screen, once the API said it is the user's
  doubt         \* history: how a tab that was told so may have lost it since

server == <<claims, done>>
screen == <<cur, view, known>>
told == <<granted, doubt>>
effect == <<calls, live, due, told>>
vars == <<server, open, screen, effect, events>>

\* What UserNames makes of a subject; without a row it stays the subject.
Name(u) == IF u \in Named THEN <<"name", u>> ELSE u
Names == {Name(u) : u \in User} \cup {NoOne}

\* Deliberate bug: the subjects themselves leave the API.
HeldSubjects(c) == [i \in Image |-> c[i].by]

NamedClaims(c) == [i \in Image |-> IF c[i].by = NoOne THEN NoOne ELSE Name(c[i].by)]

NobodySeen == [i \in Image |-> NoOne]

\* Bound: with somebody away about, one event less.
Spent(c) == IF \E i \in Image : c[i].by \in Away THEN 1 ELSE 0

Init ==
  /\ claims \in Starts
  /\ done = {}
  /\ open = [u \in User |-> FALSE]
  /\ cur = [u \in User |-> NoImage]
  /\ view = [u \in User |-> NobodySeen]
  /\ known = [u \in User |-> {}]
  /\ calls = [u \in User |-> {}]
  /\ live = [u \in User |-> NoImage]
  /\ due = [u \in User |-> FALSE]
  /\ events = Spent(claims)
  /\ granted = [u \in User |-> NoImage]
  /\ doubt = [u \in User |-> "none"]

-----------------------------------------------------------------------------
(***************************************************************************)
(* Choosing the next image.                                                 *)
(***************************************************************************)
\* The holder's name is compared with the subject of the reader.
HeldByOthers(u) == {i \in Image : view[u][i] \notin {NoOne, u}}

\* Any order of the queue: it depends on scores that each tab computes.
NextTodo(u, finished, exclude) ==
  LET left == (Image \ finished) \ {exclude}
      free == left \ HeldByOthers(u)
  IN  IF free # {} THEN free ELSE IF left # {} THEN left ELSE {NoImage}

\* The claim effect of tab u re-runs with what is on screen now: it cancels the
\* answer it waited for, and sends the claim of an unfinished image.  `sent` are
\* the tab's requests under way; two for one image count as one.
ClaimEffect(u, sent) ==
  LET take == cur'[u] # NoImage /\ cur'[u] \notin known'[u]
  IN  /\ calls' = [calls EXCEPT ![u] = sent \cup (IF take THEN {cur'[u]} ELSE {})]
      /\ live' = [live EXCEPT ![u] = IF take THEN cur'[u] ELSE NoImage]
      /\ due' = [due EXCEPT ![u] = FALSE]
      /\ granted' = [granted EXCEPT ![u] = IF take /\ @ = cur'[u] THEN @ ELSE NoImage]
      /\ doubt' = [doubt EXCEPT ![u] = IF granted'[u] = NoImage THEN "none" ELSE @]

\* Deliberate bug: to React a fresh object is a change.
FreshObject(a, b) == FALSE

\* sameClaims, sameList: the old reference is kept when the content matches.
Same(a, b) == a = b

\* The tab learns the state of the project; the effect re-runs if it changed.
See(u, names, finished) ==
  /\ view' = [view EXCEPT ![u] = names]
  /\ known' = [known EXCEPT ![u] = finished]
  /\ UNCHANGED cur
  /\ IF Same(names, view[u]) /\ Same(finished, known[u])
     THEN UNCHANGED effect ELSE ClaimEffect(u, calls[u])

\* Something happens that nobody in the model decides.
Event ==
  /\ events < MaxEvents
  /\ events' = events + 1

-----------------------------------------------------------------------------
(***************************************************************************)
(* What a user does.                                                        *)
(***************************************************************************)
\* The page loads and opens the session.
Open(u) ==
  /\ ~open[u] /\ Event
  /\ open' = [open EXCEPT ![u] = TRUE]
  /\ view' = [view EXCEPT ![u] = NobodySeen]
  /\ known' = [known EXCEPT ![u] = done]
  /\ \E i \in IF done = Image THEN Image ELSE Image \ done : cur' = [cur EXCEPT ![u] = i]
  /\ ClaimEffect(u, calls[u])
  /\ UNCHANGED server

\* The tab is closed; its requests are under way still.
Close(u) ==
  /\ open[u] /\ Event
  /\ open' = [open EXCEPT ![u] = FALSE]
  /\ cur' = [cur EXCEPT ![u] = NoImage]
  /\ view' = [view EXCEPT ![u] = NobodySeen]
  /\ known' = [known EXCEPT ![u] = {}]
  /\ live' = [live EXCEPT ![u] = NoImage]
  /\ due' = [due EXCEPT ![u] = FALSE]
  /\ granted' = [granted EXCEPT ![u] = NoImage]
  /\ doubt' = [doubt EXCEPT ![u] = "none"]
  /\ UNCHANGED <<server, calls>>

GoToImage(u) ==
  /\ open[u] /\ Event
  /\ \E i \in Image \ {cur[u]} : cur' = [cur EXCEPT ![u] = i]
  /\ UNCHANGED <<view, known>>
  /\ ClaimEffect(u, calls[u])
  /\ UNCHANGED <<server, open>>

\* POST /api/label releases the claim; the answer moves on to the next image.
SaveLabel(u) ==
  /\ open[u] /\ Event
  /\ cur[u] # NoImage
  /\ done' = done \cup {cur[u]}
  /\ claims' = Release(claims, u, cur[u])
  /\ known' = [known EXCEPT ![u] = done']
  /\ \E i \in NextTodo(u, done', cur[u]) : cur' = [cur EXCEPT ![u] = i]
  /\ UNCHANGED view
  /\ ClaimEffect(u, calls[u])
  /\ UNCHANGED open

-----------------------------------------------------------------------------
(***************************************************************************)
(* What the tabs and the API do by themselves.                              *)
(***************************************************************************)
\* The tracker has moved the user's claim to i, or lost it: the tab does not know.
Displaced(u, i) ==
  doubt' = [doubt EXCEPT ![u] =
              IF granted[u] \in {NoImage, i} \/ @ # "none" THEN @ ELSE "displaced"]

\* An answer to a request the tab has cancelled, or to a tab that is gone: the
\* request may have been sent before the one for the image on screen.
Unwanted(u, i, sent) ==
  /\ calls' = [calls EXCEPT ![u] = sent]
  /\ UNCHANGED <<screen, live, due, granted>>
  /\ IF claims' = claims \/ Refused(claims, u, i) THEN UNCHANGED doubt ELSE Displaced(u, i)

\* The catch of the claim: on to the next image.
MovesOn(u, i, sent) ==
  /\ \E k \in NextTodo(u, known[u], i) : cur' = [cur EXCEPT ![u] = k]
  /\ UNCHANGED <<view, known>>
  /\ ClaimEffect(u, sent)

\* The API handles a claim and its answer arrives: the claims of the project,
\* or 409, on which the tab moves on.
Answer(u, i) ==
  /\ i \in calls[u]
  /\ claims' = Claim(claims, u, i)
  /\ LET sent == calls[u] \ {i}
         names == NamedClaims(claims')
         same == Same(names, view[u])
     IN  \/ i # live[u] /\ Unwanted(u, i, sent)
         \/ i = live[u] /\ Refused(claims, u, i) /\ MovesOn(u, i, sent)
         \/ /\ i = live[u] /\ ~Refused(claims, u, i)
            /\ view' = [view EXCEPT ![u] = names]
            /\ granted' = [granted EXCEPT ![u] = i]
            /\ doubt' = [doubt EXCEPT ![u] = "none"]
            /\ calls' = [calls EXCEPT ![u] = IF same THEN sent ELSE sent \cup {i}]
            /\ live' = [live EXCEPT ![u] = IF same THEN NoImage ELSE i]
            /\ due' = [due EXCEPT ![u] = same /\ @]
            /\ UNCHANGED <<cur, known>>
  /\ UNCHANGED <<done, open, events>>

\* The claim fails, handled or not: the tab takes any error for a refusal.
Fails(u, i) ==
  /\ i \in calls[u] /\ Event
  /\ claims' \in {claims, Claim(claims, u, i)}
  /\ LET sent == calls[u] \ {i}
     IN  \/ i # live[u] /\ Unwanted(u, i, sent)
         \/ i = live[u] /\ MovesOn(u, i, sent)
  /\ UNCHANGED <<done, open>>

\* setInterval(take): the claim of the image on screen is sent again.
Heartbeat(u) ==
  /\ due[u]
  /\ calls' = [calls EXCEPT ![u] = @ \cup {cur[u]}]
  /\ live' = [live EXCEPT ![u] = cur[u]]
  /\ due' = [due EXCEPT ![u] = FALSE]
  /\ UNCHANGED <<server, open, screen, events, told>>

\* GET /api/state and its answer; reading the claims drops the expired ones.
Poll(u) ==
  /\ open[u]
  /\ claims' = Expire(claims)
  /\ See(u, NamedClaims(claims'), done)
  /\ UNCHANGED <<done, open, events>>

\* The API process starts again; the claims were in its memory.
RestartAPI ==
  /\ Event
  /\ claims' = NoClaims
  /\ doubt' = [u \in User |->
       IF granted[u] = NoImage \/ doubt[u] # "none" THEN doubt[u] ELSE "displaced"]
  /\ UNCHANGED <<done, open, screen, calls, live, due, granted>>

\* The tab is about to renew its claim, or waits for the answer.
Renews(u) == due[u] \/ live[u] = granted[u]

\* Several images are left to the tab, and each of them is another one's.
Crowded(u) ==
  /\ Cardinality(Image \ known[u]) > 1
  /\ \A i \in Image \ known[u] : Holder(claims, i) \notin {u, NoOne}

\* Five minutes pass: long enough for every request to be answered or to fail; only
\* where refused claims go round there is always one more.  A heartbeat that is due
\* still is one the machine slept through.
Tick ==
  /\ \A u \in User : calls[u] = {} \/ Crowded(u)
  /\ claims' = [i \in Image |-> IF claims[i].by \in Away THEN claims[i] ELSE Older(claims)[i]]
  /\ due' = [u \in User |-> open[u] /\ cur[u] # NoImage /\ cur[u] \notin known[u]]
  /\ doubt' = [u \in User |->
       IF granted[u] # NoImage /\ (Renews(u) \/ doubt[u] # "none") THEN "late" ELSE "none"]
  /\ events' = Spent(claims')
  /\ UNCHANGED <<done, open, screen, calls, live, granted>>

Next ==
  \/ \E u \in User \ Away :
       \/ Open(u) \/ Close(u) \/ GoToImage(u) \/ SaveLabel(u)
       \/ Heartbeat(u) \/ Poll(u)
       \/ \E i \in Image : Answer(u, i) \/ Fails(u, i)
  \/ RestartAPI
  \/ Tick

Spec == Init /\ [][Next]_vars

\* Requests are answered, timers of a running tab fire, and time passes.
Fairness ==
  /\ \A u \in User \ Away : /\ WF_vars(Heartbeat(u))
                             /\ WF_vars(Poll(u))
                             /\ \A i \in Image : WF_vars(Answer(u, i))
  /\ WF_vars(Tick)

FairSpec == Spec /\ Fairness

-----------------------------------------------------------------------------
(***************************************************************************)
(* Properties.                                                             *)
(***************************************************************************)
\* Every variable keeps its type.  The tabs hear of people by name (state.go,
\* namedClaims: nothing leaves the API as a raw subject where there is a name).
TypeOK ==
  /\ claims \in [Image -> ClaimRecord]
  /\ done \subseteq Image
  /\ open \in [User -> BOOLEAN]
  /\ cur \in [User -> Image \cup {NoImage}]
  /\ view \in [User -> [Image -> Names]]
  /\ known \in [User -> SUBSET Image]
  /\ calls \in [User -> SUBSET Image]
  /\ live \in [User -> Image \cup {NoImage}]
  /\ \A u \in User : live[u] \in calls[u] \cup {NoImage}
  /\ due \in [User -> BOOLEAN]
  /\ events \in 0..MaxEvents
  /\ granted \in [User -> Image \cup {NoImage}]
  /\ doubt \in [User -> {"none", "displaced", "late"}]

\* Moving to the next image is itself the release (claims.go:66-68): whatever
\* order the requests come in, nobody keeps two images out of the others' queues.
OneImageEach ==
  \A i, k \in Image : claims[i].by = claims[k].by /\ i # k => claims[i].by = NoOne

\* FR-49: two people are both told that an image is theirs only while one of them
\* has lost it and cannot know yet: an older request of the tab was handled after
\* the one for the image on screen, or the API started again, less than a
\* heartbeat ago; or later than that, or after sleeping through a heartbeat, while
\* the next renewal is due or under way (session.ts:615-640, claims.go:36-44).
NoTwoOnOneImage ==
  \A u, v \in User :
    u # v /\ granted[u] = granted[v] /\ granted[u] # NoImage =>
      \E w \in {u, v} : doubt[w] = "displaced" \/ (doubt[w] = "late" /\ Renews(w))

\* The image of somebody who wandered off is offered again (claims.go:36-40): time
\* and again either they are back, or no open tab sees anything of theirs as taken.
AbandonedIsOffered ==
  \A u \in User \ Away :
    []<>(open[u] \/ \A v \in User, i \in Image : view[v][i] # Name(u))

\* The tabs come to rest: claims change the queue, the queue sends a claim, and
\* the cycle stops (session.ts:86-94) until somebody does something -- but for the
\* tab of one person too many, whose refused claims go round (session.ts:632-636).
Quiet == []<>(\A u \in User : calls[u] = {} \/ Crowded(u))
=============================================================================
