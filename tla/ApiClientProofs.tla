--------------------------- MODULE ApiClientProofs --------------------------
(***************************************************************************)
(* Theorems about ApiClient for every set of URLs, every number of pages   *)
(* and every limit on the attempts.                                        *)
(***************************************************************************)
EXTENDS ApiClient, TLAPS

LEMMA AccountedInit == Init => Accounted
<1> SUFFICES ASSUME Init
             PROVE  Accounted
  OBVIOUS
<1>1. TypeOK
  <2>1. First \in Targets
    BY UrlsAssumption, LimitsAssumption DEF First, Targets
  <2>2. tries \in 1 .. MaxAttempts /\ requests \in 0 .. Limit + 1 /\ denials \in 0 .. 3
    BY LimitsAssumption DEF Init, Limit
  <2> QED
    BY <2>1, <2>2 DEF Init, TypeOK
<1>2. RequestsBounded /\ OneRefusalIsSurvived
  BY LimitsAssumption DEF Init, RequestsBounded, Limit, OneRefusalIsSurvived
<1> QED
  BY <1>1, <1>2 DEF Init, Accounted, Asking

\* A link leads to a target without a page number.
LEMMA LinkTarget ==
    \A u \in Urls : [url |-> u, page |-> 0, initial |-> FALSE] \in Targets
<1>1. MaxPage \in Nat
  BY LimitsAssumption
<1>2. 0 \in 0 .. MaxPage
  BY <1>1
<1> QED
  BY <1>2 DEF Targets

\* Both counters stay numbers.
LEMMA Numbers ==
    ASSUME TypeOK
    PROVE  /\ MaxAttempts \in Nat \ {0} /\ Limit = 2 * MaxAttempts
           /\ tries \in Nat /\ 1 <= tries /\ tries <= MaxAttempts
           /\ requests \in Nat /\ denials \in Nat
  BY LimitsAssumption DEF TypeOK, Limit

\* A request that is still within the limit is counted.
LEMMA SentCounts ==
    ASSUME Accounted, Sent, pc = "send"
    PROVE  /\ requests' = requests + 1 /\ requests' <= Limit
           /\ requests' \in 0 .. Limit + 1
           /\ requests' <= tries + (IF attempt = 1 THEN 0 ELSE MaxAttempts)
<1>1. TypeOK /\ requests < tries + (IF attempt = 1 THEN 0 ELSE MaxAttempts)
  BY DEF Accounted
<1> QED
  BY <1>1, Numbers DEF Sent

\* An error ends the run; a 401 of the vendor is a reason of its own.
LEMMA FailAccounted ==
    ASSUME Accounted, TypeOK', Fail(why'), UNCHANGED auth,
           requests' <= Limit, denials' <= 2,
           why' = "unauthorized" /\ auth = "oauth2" => denials' = 2
    PROVE  Accounted'
  BY DEF Accounted, Fail, Asking, RequestsBounded, OneRefusalIsSurvived, Limit

LEMMA AccountedStep == Accounted /\ [Next]_vars => Accounted'
<1> SUFFICES ASSUME Accounted, [Next]_vars
             PROVE  Accounted'
  OBVIOUS
<1> DEFINE before(k) == IF k = 1 THEN 0 ELSE MaxAttempts
<1>1. TypeOK /\ requests <= Limit /\ denials <= 2
  BY DEF Accounted, RequestsBounded
<1>2. /\ MaxAttempts \in Nat \ {0} /\ Limit = 2 * MaxAttempts
      /\ tries \in Nat /\ 1 <= tries /\ tries <= MaxAttempts
      /\ requests \in Nat /\ denials \in Nat
  BY <1>1, Numbers
<1> USE DEF Asking, RequestsBounded, OneRefusalIsSurvived
<1>3. CASE UNCHANGED vars
  BY <1>3 DEF vars, Accounted, TypeOK, Limit
<1>4. CASE RefuseRepeatedPage /\ UNCHANGED auth
  <2>1. TypeOK' /\ why' = "repeated" /\ Fail(why')
    BY <1>1, <1>4 DEF RefuseRepeatedPage, Fail, TypeOK, pages, Limit
  <2> QED
    BY <1>1, <1>4, <2>1, FailAccounted DEF RefuseRepeatedPage, pages
<1>5. CASE BeginPage /\ UNCHANGED auth
  <2>1. TypeOK'
    BY <1>1, <1>2, <1>5 DEF BeginPage, TypeOK, Limit
  <2>2. target' \in seen'
    BY <1>5 DEF BeginPage
  <2> QED
    BY <1>1, <1>2, <1>5, <2>1, <2>2 DEF BeginPage, Accounted, Limit
<1>6. CASE UseStaticToken /\ UNCHANGED auth
  <2>1. TypeOK'
    BY <1>1, <1>2, <1>6 DEF UseStaticToken, TypeOK, pages, Limit
  <2> QED
    BY <1>1, <1>2, <1>6, <2>1 DEF UseStaticToken, Accounted, pages, Limit
<1>7. CASE UseCachedToken /\ UNCHANGED auth
  <2>1. TypeOK'
    BY <1>1, <1>2, <1>7 DEF UseCachedToken, TypeOK, pages, Limit
  <2> QED
    BY <1>1, <1>2, <1>7, <2>1 DEF UseCachedToken, Accounted, pages, Limit
<1>8. CASE NeedToken /\ UNCHANGED auth
  <2>1. TypeOK'
    BY <1>1, <1>2, <1>8 DEF NeedToken, TypeOK, pages, Limit
  <2> QED
    BY <1>1, <1>2, <1>8, <2>1 DEF NeedToken, Accounted, pages, Limit
<1>9. CASE TokenIssued /\ UNCHANGED auth
  <2>1. TypeOK'
    <3>1. tries' \in 1 .. MaxAttempts
      BY <1>2, <1>9 DEF TokenIssued
    <3>2. cached' \in BOOLEAN /\ refused' \in BOOLEAN
      BY <1>9 DEF TokenIssued
    <3> QED
      BY <1>1, <1>9, <3>1, <3>2 DEF TokenIssued, TypeOK, pages, Limit
  <2> QED
    BY <1>1, <1>2, <1>9, <2>1 DEF TokenIssued, Accounted, pages, Limit
<1>10. CASE TokenUnavailable /\ UNCHANGED auth
  <2>1. TypeOK'
    BY <1>1, <1>2, <1>10 DEF TokenUnavailable, RetryOrFail, Fail, TypeOK, pages, Limit
  <2>2. CASE why' = "exhausted" /\ Fail(why')
    BY <1>1, <1>10, <2>1, <2>2, FailAccounted DEF TokenUnavailable, pages
  <2>3. CASE UNCHANGED <<pc, why>>
    BY <1>1, <1>2, <1>10, <2>1, <2>3 DEF TokenUnavailable, Accounted, pages, Limit
  <2> QED
    BY <1>10, <2>2, <2>3 DEF TokenUnavailable, RetryOrFail, Fail
<1>11. CASE TokenDenied /\ UNCHANGED auth
  <2>1. denials' = denials + 1 /\ denials <= attempt - 1
        /\ (auth = "oauth2" => denials = attempt - 1)
        /\ requests <= before(attempt)
    BY <1>1, <1>2, <1>11 DEF TokenDenied, Denied, Accounted, TypeOK
  <2>2. TypeOK'
    <3>1. denials' \in 0 .. 3 /\ attempt' \in {1, 2}
      BY <1>1, <1>2, <1>11, <2>1 DEF TokenDenied, RefreshOrFail
    <3>2. cached' \in BOOLEAN /\ refused' \in BOOLEAN
      BY <1>1, <1>11 DEF TokenDenied, RefreshOrFail, TypeOK
    <3> QED
      BY <1>1, <1>11, <3>1, <3>2
         DEF TokenDenied, RefreshOrFail, Fail, TypeOK, pages, Limit
  <2>3. CASE attempt = 1 /\ attempt' = 2 /\ cached' = FALSE /\ pc' = "headers" /\ UNCHANGED why
    BY <1>1, <1>2, <1>11, <2>1, <2>2, <2>3 DEF TokenDenied, Accounted, pages, Limit
  <2>4. CASE attempt = 2 /\ Fail("unauthorized")
    <3>1. why' = "unauthorized" /\ Fail(why') /\ denials' <= 2
          /\ (auth = "oauth2" => denials' = 2)
      BY <1>2, <2>1, <2>4 DEF Fail
    <3> QED
      BY <1>1, <1>11, <2>2, <3>1, FailAccounted DEF TokenDenied, pages
  <2> QED
    BY <1>11, <2>3, <2>4 DEF TokenDenied, RefreshOrFail
<1>12. CASE TokenUnusable /\ UNCHANGED auth
  <2>1. TypeOK' /\ why' \in {"http", "shape"} /\ Fail(why')
    BY <1>1, <1>12 DEF TokenUnusable, Fail, TypeOK, pages, Limit
  <2> QED
    BY <1>1, <1>12, <2>1, FailAccounted DEF TokenUnusable, pages
<1>13. CASE TokenExpires /\ UNCHANGED auth
  <2>1. TypeOK'
    BY <1>1, <1>13 DEF TokenExpires, TypeOK, pages, Limit
  <2> QED
    BY <1>1, <1>2, <1>13, <2>1 DEF TokenExpires, Accounted, pages, Limit
<1>14. CASE PageUnavailable /\ UNCHANGED auth
  <2>1. /\ requests' = requests + 1 /\ requests' <= Limit
        /\ requests' \in 0 .. Limit + 1
        /\ requests' <= tries + before(attempt)
    BY <1>14, SentCounts DEF PageUnavailable
  <2>2. TypeOK'
    BY <1>1, <1>2, <1>14, <2>1 DEF PageUnavailable, RetryOrFail, Fail, TypeOK, pages
  <2>3. CASE why' = "exhausted" /\ Fail(why')
    BY <1>1, <1>14, <2>1, <2>2, <2>3, FailAccounted DEF PageUnavailable, pages
  <2>4. CASE tries' = tries + 1 /\ UNCHANGED <<pc, why>>
    BY <1>1, <1>2, <1>14, <2>1, <2>2, <2>4 DEF PageUnavailable, Accounted, pages
  <2> QED
    BY <1>14, <2>3, <2>4 DEF PageUnavailable, RetryOrFail, Fail
<1>15. CASE PageDenied /\ UNCHANGED auth
  <2>1. /\ requests' = requests + 1 /\ requests' <= Limit
        /\ requests' \in 0 .. Limit + 1
        /\ requests' <= tries + before(attempt)
    BY <1>15, SentCounts DEF PageDenied
  <2>2. /\ denials' <= denials + 1 /\ denials' \in Nat
        /\ (auth = "oauth2" => denials' = denials + 1)
        /\ denials <= attempt - 1
        /\ (auth = "oauth2" => denials = attempt - 1)
    BY <1>1, <1>2, <1>15 DEF PageDenied, Denied, Accounted, TypeOK
  <2>3. TypeOK'
    <3>1. denials' \in 0 .. 3 /\ attempt' \in {1, 2}
      BY <1>1, <1>2, <1>15, <2>2 DEF PageDenied, RefreshOrFail
    <3>2. cached' \in BOOLEAN /\ refused' \in BOOLEAN
      BY <1>1, <1>15 DEF PageDenied, RefreshOrFail, TypeOK
    <3> QED
      BY <1>1, <1>15, <2>1, <3>1, <3>2
         DEF PageDenied, RefreshOrFail, Fail, TypeOK, pages, Limit
  <2>4. CASE attempt = 1 /\ attempt' = 2 /\ cached' = FALSE /\ pc' = "headers" /\ UNCHANGED why
    BY <1>1, <1>2, <1>15, <2>1, <2>2, <2>3, <2>4 DEF PageDenied, Accounted, pages
  <2>5. CASE attempt = 2 /\ Fail("unauthorized")
    <3>1. why' = "unauthorized" /\ Fail(why') /\ denials' <= 2
          /\ (auth = "oauth2" => denials' = 2)
      BY <1>2, <2>2, <2>5 DEF Fail
    <3> QED
      BY <1>1, <1>15, <2>1, <2>3, <3>1, FailAccounted DEF PageDenied, pages
  <2> QED
    BY <1>15, <2>4, <2>5 DEF PageDenied, RefreshOrFail
<1>16. CASE PageUnusable /\ UNCHANGED auth
  <2>1. requests' <= Limit /\ requests' \in 0 .. Limit + 1
    BY <1>16, SentCounts DEF PageUnusable
  <2>2. TypeOK' /\ why' \in {"http", "shape"} /\ Fail(why')
    BY <1>1, <1>16, <2>1 DEF PageUnusable, Fail, TypeOK, pages
  <2> QED
    BY <1>1, <1>16, <2>1, <2>2, FailAccounted DEF PageUnusable, pages
<1>17. CASE PageArrives /\ UNCHANGED auth
  <2>1. requests' <= Limit /\ requests' \in 0 .. Limit + 1
    BY <1>17, SentCounts DEF PageArrives
  <2>2. target' \in Targets \cup {Elsewhere}
    <3>1. ASSUME NEW number \in 1 .. MaxPage, target # Elsewhere
          PROVE  [target EXCEPT !.page = number] \in Targets
      BY <1>1, <3>1 DEF TypeOK, Targets
    <3> QED
      BY <1>1, <1>17, <3>1, LinkTarget DEF PageArrives, Follow, Want, TypeOK
  <2>3. \/ pc' \in {"page", "done"} /\ why' = why
        \/ Fail(why') /\ why' = "shape"
    BY <1>17 DEF PageArrives, Follow, Want, Fail
  <2>4. TypeOK'
    BY <1>1, <1>17, <2>1, <2>2, <2>3 DEF PageArrives, Fail, TypeOK
  <2>5. CASE pc' \in {"page", "done"} /\ why' = why
    BY <1>1, <1>2, <1>17, <2>1, <2>4, <2>5 DEF PageArrives, Accounted
  <2>6. CASE Fail(why') /\ why' = "shape"
    BY <1>1, <1>17, <2>1, <2>4, <2>6, FailAccounted DEF PageArrives
  <2> QED
    BY <2>3, <2>5, <2>6
<1> QED
  BY <1>3, <1>4, <1>5, <1>6, <1>7, <1>8, <1>9, <1>10, <1>11, <1>12, <1>13,
     <1>14, <1>15, <1>16, <1>17 DEF Next, Step

\* The inductive invariant.
THEOREM AccountedAlways == Spec => []Accounted
  BY AccountedInit, AccountedStep, PTL DEF Spec

\* A page costs at most twice the attempts, and two refusals.
THEOREM RequestsAreBounded == Spec => []RequestsBounded
<1>1. Accounted => RequestsBounded
  BY DEF Accounted
<1> QED
  BY <1>1, AccountedAlways, PTL

\* One refusal of an issued token does not fail the run.
THEOREM RefusalIsSurvived == Spec => []OneRefusalIsSurvived
<1>1. Accounted => OneRefusalIsSurvived
  BY DEF Accounted
<1> QED
  BY <1>1, AccountedAlways, PTL
=============================================================================
