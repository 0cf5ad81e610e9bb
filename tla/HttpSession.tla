----------------------------- MODULE HttpSession -----------------------------
(***************************************************************************)
(* A client of probitas-client-http with its cookie jar, and the OpenID    *)
(* Connect client around it.  Requests overlap: the cookies of a request   *)
(* are chosen when it is sent, those of its response are stored after the  *)
(* body is read, and the logins share the jar with everything else.        *)
(*                                                                         *)
(* A host is the sequence of its labels, a path that of its segments; the  *)
(* path "/" is <<"">>.  The servers and the identity provider are external.*)
(***************************************************************************)
EXTENDS Integers, SequencesExt, FiniteSets

CONSTANTS
  Urls,         \* where requests go and, redirected, may end
  Headers,      \* the Set-Cookie headers that servers send
  IpAddresses,  \* the hosts that are addresses
  BaseUrl,      \* config.url
  ProviderUrl,  \* the endpoints of the identity provider
  Calls,        \* the requests of the application
  Logins,       \* the calls of login(), each for a user of its own
  MaxActive,    \* bound on the calls and logins, and on the cookies that setCookie adds to
  MaxTime       \* bound on the clock

VARIABLES
  now,           \* Date.now()
  jar,           \* #cookies: the cookies stored, one for each key
  call,          \* the request of each call and the current one of each login
  login,         \* the phase of each login
  currentToken,  \* the user whose token the client holds
  accepted       \* every cookie accepted since clearCookies(), in order

sessionVars == <<now, jar, call, login, currentToken, accepted>>

None == "none"
Application == "application"   \* who sets a cookie that no response has set
Callers == Calls \cup Logins

ASSUME CallersAssumption ==
  Calls \cap Logins = {} /\ Application \notin Callers /\ None \notin Logins

\* Max-Age is a number of seconds.
ASSUME HeadersAssumption == \A header \in Headers : header.maxAge \subseteq Int

SessionInit ==
  /\ now = 0
  /\ jar = {} /\ accepted = <<>>
  /\ call = [c \in Callers |-> [phase |-> "idle"]]
  /\ login = [l \in Logins |-> [phase |-> "idle", code |-> None]]
  /\ currentToken = None

-----------------------------------------------------------------------------
\* cookie.ts

domainMatches(requestDomain, cookieDomain) ==
  \/ requestDomain = cookieDomain
  \/ IsSuffix(cookieDomain, requestDomain) /\ cookieDomain \notin IpAddresses

\* The segments before the last slash, which a slash at the end is not.
getDefaultPath(path) ==
  LET cut == IF Last(path) = "" THEN 2 ELSE 1
  IN IF Len(path) <= cut THEN <<"">> ELSE SubSeq(path, 1, Len(path) - cut)

pathMatches(path, cookiePath) ==
  \/ path = cookiePath
  \/ IsStrictPrefix(cookiePath, path)
  \/ Last(cookiePath) = "" /\ Len(path) >= Len(cookiePath) /\ IsPrefix(Front(cookiePath), path)

\* parseSetCookie and the domain that set() gives the cookie.
parseSetCookie(header, url, value) ==
  [name |-> header.name, value |-> value, secure |-> header.secure,
   domain |-> IF header.domain # <<>> /\ domainMatches(url.host, header.domain)
              THEN header.domain ELSE url.host,
   path |-> IF header.path = <<>> THEN getDefaultPath(url.path) ELSE header.path,
   expires |-> {now + seconds : seconds \in header.maxAge}]

Expired(cookie) == \E t \in cookie.expires : t < now

\* Bug: a cookie for another path replaces the one that is stored.
KeyWithoutPath(cookie) == <<cookie.name, cookie.domain>>
Key(cookie) == <<cookie.name, cookie.domain, cookie.path>>

\* CookieJar.set: a cookie that has expired deletes the one with its key.
set(cookie) ==
  /\ jar' = {d \in jar : Key(d) # Key(cookie)} \cup (IF Expired(cookie) THEN {} ELSE {cookie})
  /\ accepted' = Append(accepted, cookie)

Fits(cookie, url) ==
  /\ ~Expired(cookie)
  /\ cookie.secure => url.https
  /\ domainMatches(url.host, cookie.domain)
  /\ pathMatches(url.path, cookie.path)

getCookiesForUrl(url) == {cookie \in jar : Fits(cookie, url)}

setCookie ==
  /\ Len(accepted) < MaxActive
  /\ set([name |-> "sid", value |-> Application, secure |-> FALSE,
          domain |-> BaseUrl.host, path |-> <<"">>, expires |-> {}])
  /\ UNCHANGED <<now, call, login, currentToken>>

clearCookies ==
  /\ jar # {}
  /\ jar' = {} /\ accepted' = <<>>
  /\ UNCHANGED <<now, call, login, currentToken>>

-----------------------------------------------------------------------------
\* client.ts, #request

\* The cookies are chosen now; the wrapped client adds the token it has now.
Sent(url) == [phase |-> "sent", url |-> url, cookies |-> getCookiesForUrl(url)]

Active ==
  Cardinality({c \in Calls : call[c].phase # "idle"} \cup
              {l \in Logins : login[l].phase # "idle"})

Request(c) ==
  /\ call[c].phase = "idle" /\ Active < MaxActive
  /\ \E url \in Urls : call' = [call EXCEPT ![c] = Sent(url)]
  /\ UNCHANGED <<now, jar, login, currentToken, accepted>>

\* The logins whose session cookie a request carries
Sessions(request) == {cookie.value : cookie \in request.cookies} \cap Logins

\* The answer, after any redirects, with a Set-Cookie header or none.
Answer(c, from, headers) ==
  /\ call[c].phase = "sent"
  /\ \E ok \in BOOLEAN, header \in {{}} \cup {{h} : h \in headers} :
       call' = [call EXCEPT ![c] = [phase |-> "answered", url |-> @.url, from |-> from,
                                    header |-> header, ok |-> ok, session |-> Sessions(@)]]
  /\ UNCHANGED <<now, jar, login, currentToken, accepted>>

ServerAnswers(c) == \E url \in Urls : Answer(c, url, Headers)

SessionCookie == [name |-> "session", domain |-> <<>>, path |-> <<>>, secure |-> FALSE,
                  maxAge |-> {}]

ProviderAnswers(l) == Answer(l, ProviderUrl, {SessionCookie})

\* Bug: the URL before the redirects
RequestedUrl(c) == call[c].url
\* rawResponse.url || url
ResponseUrl(c) == call[c].from

\* The body is read: the cookies are stored, for the URL that answered.
ReadBody(c) ==
  /\ call[c].phase = "answered"
  /\ call' = [call EXCEPT ![c] = [phase |-> "settled", ok |-> @.ok, from |-> @.from,
                                  session |-> @.session]]
  /\ IF call[c].header = {} THEN UNCHANGED <<jar, accepted>>
     ELSE \E header \in call[c].header : set(parseSetCookie(header, ResponseUrl(c), c))
  /\ UNCHANGED <<now, login, currentToken>>

\* fetch, or reading the body, rejects: whatever it answered is not stored.
Fail(c) ==
  /\ call[c].phase \in {"sent", "answered"}
  /\ call' = [call EXCEPT ![c] = [phase |-> "settled", ok |-> FALSE]]
  /\ UNCHANGED <<now, jar, login, currentToken, accepted>>

-----------------------------------------------------------------------------
\* oidc.ts

\* baseClient, not the wrapped one: no Authorization header
Ask(l) == call' = [call EXCEPT ![l] = Sent(ProviderUrl)]

\* loginWithAuthorizationCodeGrant: a fresh state, and the login form
Login(l) ==
  /\ login[l].phase = "idle" /\ Active < MaxActive
  /\ login' = [login EXCEPT ![l].phase = "form"]
  /\ Ask(l)
  /\ UNCHANGED <<now, jar, currentToken, accepted>>

\* The request that the login awaits is over.
Awaited(l, phase) == login[l].phase = phase /\ call[l].phase = "settled"

To(l, phase, code) ==
  login' = [login EXCEPT ![l].phase = phase, ![l].code = code]

LoginFails(l) == To(l, "failed", None) /\ UNCHANGED <<call, currentToken>>

\* The form has come: post user name, password and state.
Authorize(l) ==
  /\ Awaited(l, "form")
  /\ IF call[l].ok THEN To(l, "authorize", None) /\ Ask(l) /\ UNCHANGED currentToken
     ELSE LoginFails(l)
  /\ UNCHANGED <<now, jar, accepted>>

(***************************************************************************)
(* The provider redirects, with a state and a code for the user to whom    *)
(* the state belongs.  It may take the state from the form or from the     *)
(* session of the cookie it got, which another login may have begun.       *)
(***************************************************************************)
States(l) == {l} \cup call[l].session

\* Bug: the state of the redirect is not compared.
AnyState(l, state) == TRUE
StateMatches(l, state) == state = l

\* A redirect with the right state and a code: exchange the code for a token.
Exchange(l) ==
  /\ Awaited(l, "authorize")
  /\ \/ /\ call[l].ok
        /\ \E state \in States(l) :
             /\ StateMatches(l, state)
             /\ To(l, "token", state) /\ Ask(l) /\ UNCHANGED currentToken
     \/ LoginFails(l)
  /\ UNCHANGED <<now, jar, accepted>>

\* parseTokenResponse may find that what came is no token.
Obtain(l) ==
  /\ Awaited(l, "token")
  /\ \/ /\ call[l].ok
        /\ To(l, "ok", login[l].code)
        /\ currentToken' = login[l].code
        /\ UNCHANGED call
     \/ LoginFails(l)
  /\ UNCHANGED <<now, jar, accepted>>

\* A login that is under way goes on, and installs its token when it ends.
logout ==
  /\ currentToken' = None
  /\ UNCHANGED <<now, jar, call, login, accepted>>

Tick == now < MaxTime /\ now' = now + 1 /\ UNCHANGED <<jar, call, login, currentToken, accepted>>

-----------------------------------------------------------------------------
SessionNext ==
  \/ \E c \in Calls : Request(c) \/ ServerAnswers(c)
  \/ \E l \in Logins :
       Login(l) \/ ProviderAnswers(l) \/ Authorize(l) \/ Exchange(l) \/ Obtain(l)
  \/ \E c \in Callers : ReadBody(c) \/ Fail(c)
  \/ setCookie \/ clearCookies \/ logout \/ Tick

SessionSpec == SessionInit /\ [][SessionNext]_sessionVars

-----------------------------------------------------------------------------
\* The URL whose response set a cookie
Origin(cookie) ==
  CASE cookie.value = Application -> BaseUrl
    [] cookie.value \in Logins -> ProviderUrl
    [] OTHER -> call[cookie.value].from

(***************************************************************************)
(* A cookie goes only to hosts in a domain that the host which set it      *)
(* belongs to, whatever it claims and wherever the request was redirected, *)
(* and a secure one only over https.                                       *)
(***************************************************************************)
CookiesStayAtHome ==
  \A c \in Callers : call[c].phase = "sent" =>
    \A cookie \in call[c].cookies :
      /\ domainMatches(Origin(cookie).host, cookie.domain)
      /\ domainMatches(call[c].url.host, cookie.domain)
      /\ cookie.secure => call[c].url.https

(***************************************************************************)
(* What the jar would send to a URL is what the client has been told: for  *)
(* each name, domain and path the last cookie accepted since               *)
(* clearCookies(), unless it has expired, in whatever order responses,     *)
(* logins and the application changed the jar.                             *)
(***************************************************************************)
JarIsTheHistory ==
  LET last(i) == \A j \in i + 1 .. Len(accepted) :
                   <<accepted[j].name, accepted[j].domain, accepted[j].path>> #
                     <<accepted[i].name, accepted[i].domain, accepted[i].path>>
  IN \A url \in Urls :
       getCookiesForUrl(url) =
         {accepted[i] : i \in {j \in DOMAIN accepted : last(j) /\ Fits(accepted[j], url)}}

(***************************************************************************)
(* Logins that overlap do not mix: a login that succeeds has the token of  *)
(* its own user, although they share a jar and thus a session, and the     *)
(* token the client holds is that of a login that succeeded.               *)
(***************************************************************************)
LoginsDoNotMix ==
  /\ \A l \in Logins : login[l].phase = "ok" => login[l].code = l
  /\ currentToken # None => login[currentToken].phase = "ok"

=============================================================================
