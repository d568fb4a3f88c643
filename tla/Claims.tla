------------------------------- MODULE Claims -------------------------------
(***************************************************************************)
(* The claims tracker (platform/claims/claims.go) for one project: who is   *)
(* working on which image, for as long as the claim is renewed.  Time is    *)
(* counted in heartbeats of the frontend (five minutes); a claim lives for  *)
(* TTL of them.                                                             *)
(***************************************************************************)
EXTENDS Naturals

CONSTANTS User, Image, TTL, NoOne

ASSUME ClaimsAssumption == TTL \in Nat /\ NoOne \notin User

\* An image nobody holds.
Unclaimed == [by |-> NoOne, age |-> 0]
NoClaims == [i \in Image |-> Unclaimed]

\* The age stops counting once it is past the TTL.
ClaimRecord == [by : User \cup {NoOne}, age : 0..(TTL + 1)]

\* Deliberate bug: nothing drops the claims of people who left.
ExpireNever(claims) == claims

\* expire(): at.Before(now - TTL).
Expire(claims) == [i \in Image |-> IF claims[i].age > TTL THEN Unclaimed ELSE claims[i]]

Holder(claims, i) == Expire(claims)[i].by

Refused(claims, u, i) == Holder(claims, i) \notin {u, NoOne}

\* Deliberate bug: the images the user held before stay claimed.
ClaimMore(claims, u, i) ==
  IF Refused(claims, u, i) THEN Expire(claims)
  ELSE [Expire(claims) EXCEPT ![i] = [by |-> u, age |-> 0]]

\* Deliberate bug: claiming one's own image again does not renew it.
ClaimOnce(claims, u, i) ==
  IF Refused(claims, u, i) \/ Holder(claims, i) = u THEN Expire(claims)
  ELSE [k \in Image |->
         IF k = i THEN [by |-> u, age |-> 0]
         ELSE IF Expire(claims)[k].by = u THEN Unclaimed ELSE Expire(claims)[k]]

\* Claim(): at most one image per user, and one's own is renewed.
Claim(claims, u, i) ==
  IF Refused(claims, u, i) THEN Expire(claims)
  ELSE [k \in Image |->
         IF k = i THEN [by |-> u, age |-> 0]
         ELSE IF Expire(claims)[k].by = u THEN Unclaimed ELSE Expire(claims)[k]]

\* Release(), which does not expire anything on its way.
Release(claims, u, i) ==
  [claims EXCEPT ![i] = IF claims[i].by = u THEN Unclaimed ELSE claims[i]]

\* Time passes.
Older(claims) ==
  [i \in Image |-> IF claims[i].by # NoOne /\ claims[i].age <= TTL
                   THEN [claims[i] EXCEPT !.age = @ + 1] ELSE claims[i]]
=============================================================================
