----------------------------- MODULE ApiClient ------------------------------
(***************************************************************************)
(* Reading the vendor's pages: StudentApiClient.fetch_chunks of            *)
(* src/src/ingest/api_source.py with either kind of ApiAuth, send and      *)
(* Retryer.call underneath.  One client, one thread; what is hard is that  *)
(* three loops nest (pages, one token refresh, retries of either endpoint) *)
(* while the token may expire or be revoked between any two steps.         *)
(*                                                                         *)
(* The vendor is external: every answer it can give is possible each time, *)
(* also one that leads to a page nobody has heard of.                      *)
(***************************************************************************)
EXTENDS Integers

CONSTANTS
    Urls,         \* URLs that are told from others, among them Base
    Base,         \* base_url followed by students_path
    MaxPage,      \* the largest page number that is told from others
    MaxAttempts,  \* RETRY_MAX_ATTEMPTS
    Elsewhere     \* any page by another URL or of a larger number

ASSUME UrlsAssumption == Base \in Urls
ASSUME LimitsAssumption == MaxPage \in Nat \ {0} /\ MaxAttempts \in Nat \ {0}

\* What a request is keyed by: the URL and the params, which are the initial
\* ones with some page number, only a page number, or none (page 0).  The same page
\* by its number and by a link with ?page= has two keys.
Targets == [url : Urls, page : 0 .. MaxPage, initial : BOOLEAN]
ASSUME ElsewhereAssumption == Elsewhere \notin Targets

First == [url |-> Base, page |-> 1, initial |-> TRUE]

VARIABLES
    auth,      \* the provider that build_auth chose
    target,    \* the page wanted next
    seen,      \* seen_pages; Elsewhere stands for one key or for many
    pc,        \* where the client is
    attempt,   \* the attempt of _get_page, 1 or 2
    tries,     \* the attempt of the running Retryer.call
    cached,    \* does the provider hold a token that it takes for unexpired?
    refused,   \* has the vendor refused the token last issued?
    requests,  \* history: page requests sent for this target, counted up to
               \* one more than it should ever be
    denials,   \* history: credentials refused for this target, likewise
    why        \* the error that ended the run

vars == <<auth, target, seen, pc, attempt, tries, cached, refused, requests,
          denials, why>>

Limit == 2 * MaxAttempts

TypeOK ==
    /\ auth \in {"oauth2", "static"}
    /\ target \in Targets \cup {Elsewhere}
    /\ seen \subseteq Targets \cup {Elsewhere}
    /\ pc \in {"page", "headers", "token", "send", "done", "failed"}
    /\ attempt \in {1, 2}
    /\ tries \in 1 .. MaxAttempts
    /\ cached \in BOOLEAN /\ refused \in BOOLEAN
    /\ requests \in 0 .. Limit + 1
    /\ denials \in 0 .. 3
    /\ why \in {"none", "repeated", "shape", "http", "exhausted", "unauthorized"}

Init ==
    /\ auth \in {"oauth2", "static"}
    /\ target = First
    /\ seen = {}
    /\ pc = "page"
    /\ attempt = 1 /\ tries = 1
    /\ cached = FALSE /\ refused = FALSE
    /\ requests = 0 /\ denials = 0
    /\ why = "none"

Fail(reason) == pc' = "failed" /\ why' = reason

pages == <<target, seen>>

-----------------------------------------------------------------------------
(* The loop over pages. *)

\* The key of this page was used before: the vendor's links go in a circle.
RefuseRepeatedPage ==
    /\ pc = "page"
    /\ target \in seen
    /\ Fail("repeated")
    /\ UNCHANGED <<pages, attempt, tries, cached, refused, requests, denials>>

\* (Mutant of BeginPage: seen_pages keeps the last key only.)
BeginPageForgetting ==
    /\ pc = "page"
    /\ target \notin seen \/ target = Elsewhere
    /\ seen' = {target}
    /\ pc' = "headers"
    /\ attempt' = 1 /\ requests' = 0 /\ denials' = 0
    /\ UNCHANGED <<target, tries, cached, refused, why>>

\* The key is new; of the keys elsewhere there are always more.
BeginPage ==
    /\ pc = "page"
    /\ target \notin seen \/ target = Elsewhere
    /\ seen' = seen \cup {target}
    /\ pc' = "headers"
    /\ attempt' = 1 /\ requests' = 0 /\ denials' = 0
    /\ UNCHANGED <<target, tries, cached, refused, why>>

-----------------------------------------------------------------------------
(* Retryer.call and the one refresh, shared by both endpoints. *)

\* (Mutant of RetryOrFail: one attempt too many.)
RetryOnceMore ==
    \/ tries <= MaxAttempts /\ tries' = tries + 1 /\ UNCHANGED <<pc, why>>
    \/ tries > MaxAttempts /\ Fail("exhausted") /\ UNCHANGED tries

\* A transport error or a retryable status: sleep and send the same again.
RetryOrFail ==
    \/ tries < MaxAttempts /\ tries' = tries + 1 /\ UNCHANGED <<pc, why>>
    \/ tries = MaxAttempts /\ Fail("exhausted") /\ UNCHANGED tries

\* (Mutants of RefreshOrFail: every 401 buys a refresh; the token is not dropped.)
RefreshAlways ==
    attempt' = 2 /\ cached' = FALSE /\ pc' = "headers" /\ UNCHANGED why
RefreshKeepingToken ==
    \/ attempt = 1 /\ attempt' = 2 /\ pc' = "headers" /\ UNCHANGED <<why, cached>>
    \/ attempt = 2 /\ Fail("unauthorized") /\ UNCHANGED <<attempt, cached>>

\* except UnauthorizedError: the first one drops the token, the second is final.
\* The try block holds the call of headers, so the token endpoint's 401 is
\* handled here as well.
RefreshOrFail ==
    \/ attempt = 1 /\ attempt' = 2 /\ cached' = FALSE /\ pc' = "headers" /\ UNCHANGED why
    \/ attempt = 2 /\ Fail("unauthorized") /\ UNCHANGED <<attempt, cached>>

Denied(fresh) == denials' = IF fresh /\ denials < 3 THEN denials + 1 ELSE denials

-----------------------------------------------------------------------------
(* The token. *)

\* headers() of StaticTokenAuth: the configured token, which nothing renews.
UseStaticToken ==
    /\ pc = "headers"
    /\ auth = "static"
    /\ pc' = "send" /\ tries' = 1
    /\ UNCHANGED <<pages, attempt, cached, refused, requests, denials, why>>

\* headers(): the cached token, if it has not expired; it is put into the
\* request once, before the retries.
UseCachedToken ==
    /\ pc = "headers"
    /\ auth = "oauth2"
    /\ cached
    /\ pc' = "send" /\ tries' = 1
    /\ UNCHANGED <<pages, attempt, cached, refused, requests, denials, why>>

NeedToken ==
    /\ pc = "headers"
    /\ auth = "oauth2"
    /\ ~ cached
    /\ pc' = "token" /\ tries' = 1
    /\ UNCHANGED <<pages, attempt, cached, refused, requests, denials, why>>

\* The token endpoint issues a token, possibly one within the expiry skew.
TokenIssued ==
    /\ pc = "token"
    /\ cached' \in BOOLEAN
    /\ refused' = FALSE
    /\ pc' = "send" /\ tries' = 1
    /\ UNCHANGED <<pages, attempt, requests, denials, why>>

TokenUnavailable ==
    /\ pc = "token"
    /\ RetryOrFail
    /\ UNCHANGED <<pages, attempt, cached, refused, requests, denials>>

TokenDenied ==
    /\ pc = "token"
    /\ RefreshOrFail
    /\ Denied(TRUE)
    /\ UNCHANGED <<pages, tries, refused, requests>>

\* Another status, no JSON or no access_token.
TokenUnusable ==
    /\ pc = "token"
    /\ \E reason \in {"http", "shape"} : Fail(reason)
    /\ UNCHANGED <<pages, attempt, tries, cached, refused, requests, denials>>

\* The clock passes expires_at, at any time.
TokenExpires ==
    /\ cached
    /\ cached' = FALSE
    /\ UNCHANGED <<pages, pc, attempt, tries, refused, requests, denials, why>>

-----------------------------------------------------------------------------
(* The page request. *)

\* The vendor does not take back the refusal of an issued token; it may have
\* refused a configured one by mistake.
Accepted == refused => auth = "static"

Sent == requests' = IF requests > Limit THEN requests ELSE requests + 1

PageUnavailable ==
    /\ pc = "send"
    /\ RetryOrFail
    /\ Sent
    /\ UNCHANGED <<pages, attempt, cached, refused, denials>>

\* The vendor refuses the token: expired or revoked since it was issued.
PageDenied ==
    /\ pc = "send"
    /\ RefreshOrFail
    /\ Denied(~ refused)
    /\ refused' = TRUE
    /\ Sent
    /\ UNCHANGED <<pages, tries>>

\* Another error status, or an answer that cannot be paged through safely.
PageUnusable ==
    /\ pc = "send"
    /\ Accepted
    /\ \E reason \in {"http", "shape"} : Fail(reason)
    /\ Sent
    /\ UNCHANGED <<pages, attempt, tries, cached, refused, denials>>

Want(next) == target' = next /\ pc' = "page" /\ UNCHANGED why

\* _next_target: a link replaces URL and params, a page number has to advance.
Follow ==
    \/ \E link \in Urls : Want([url |-> link, page |-> 0, initial |-> FALSE])
    \/ \E number \in 1 .. MaxPage :
         /\ target # Elsewhere
         /\ number > target.page
         /\ Want([target EXCEPT !.page = number])
    \/ Want(Elsewhere)
    \/ Fail("shape") /\ UNCHANGED target
    \/ pc' = "done" /\ UNCHANGED <<target, why>>

\* The page arrives; its records are yielded before the next target is worked out.
PageArrives ==
    /\ pc = "send"
    /\ Accepted
    /\ Follow
    /\ Sent
    /\ UNCHANGED <<seen, attempt, tries, cached, refused, denials>>

-----------------------------------------------------------------------------
Step ==
    /\ \/ RefuseRepeatedPage \/ BeginPage
       \/ UseStaticToken \/ UseCachedToken \/ NeedToken
       \/ TokenIssued \/ TokenUnavailable \/ TokenDenied \/ TokenUnusable
       \/ PageUnavailable \/ PageDenied \/ PageUnusable \/ PageArrives
    /\ UNCHANGED auth

Next == Step \/ (TokenExpires /\ UNCHANGED auth)

Spec == Init /\ [][Next]_vars

\* Every request is answered or times out (API_TIMEOUT_SECONDS), every sleep ends.
FairSpec == Spec /\ WF_vars(Step)

-----------------------------------------------------------------------------
(* Properties. *)

\* A page costs a bounded number of requests, although a refresh restarts the
\* retries (src/src/ingest/api_source.py:123, "exactly one token refresh").
RequestsBounded == requests <= Limit /\ denials <= 2

\* An issued token that expired or was revoked never fails the run by itself: a
\* run ends as unauthorized only after two refusals that were news, each of a
\* token not refused before or of the client's own credentials.
OneRefusalIsSurvived == auth = "oauth2" /\ why = "unauthorized" => denials = 2

\* Why they hold: what is counted while a page is asked for.  The client never
\* sends an issued token that it has seen refused, so every 401 is news.
Asking == pc \in {"headers", "token", "send"}
Accounted ==
    /\ TypeOK
    /\ RequestsBounded /\ OneRefusalIsSurvived
    /\ pc # "failed" => why = "none"
    /\ Asking =>
         /\ target \in seen
         /\ denials <= attempt - 1 /\ (auth = "oauth2" => denials = attempt - 1)
    /\ pc \in {"headers", "token"} =>
         requests <= IF attempt = 1 THEN 0 ELSE MaxAttempts
    /\ pc = "send" =>
         requests < tries + (IF attempt = 1 THEN 0 ELSE MaxAttempts)
    /\ auth = "oauth2" /\ pc # "failed" /\ (cached \/ pc = "send") => ~ refused

\* A fetch that does not end asks for ever new pages: neither a circle of links and
\* page numbers nor a vendor that keeps refusing tokens holds the timer's
\* invocation (src/src/ingest/api_source.py:74; there is no limit on the pages).
FetchEnds == <>[](target # Elsewhere) => <>(pc \in {"done", "failed"})
=============================================================================
