---------------------------- MODULE ClientSession ----------------------------
(***************************************************************************)
(* How one tab keeps its session: the hook useSession (hooks/use-session   *)
(* .ts), of which every component has an instance with updates and a timer *)
(* of its own; the session id and the query cache the instances share      *)
(* (lib/session); and the sign-in that clears and creates sessions         *)
(* (stores/auth-store.ts, app/providers.tsx).                              *)
(*                                                                         *)
(* A session field is one value.  An update replaces a field, as           *)
(* use-filter-state.ts does; React's effects are part of the step that     *)
(* causes them, and a hook's sessionId is the shared one.                  *)
(***************************************************************************)
EXTENDS Naturals, FiniteSets

CONSTANTS
    Hooks,          \* instances of useSession
    Fields,         \* data_state, global_filters, rendered_event_ids, ...
    MaxSessions,    \* bound: sessions created
    MaxTokens,      \* bound: updates
    MaxFaults       \* bound: requests that fail, expiries, evictions

\* (No field is called like the marks NoRow, Gone, NoGet and Asked below.)
ASSUME SessionAssumption ==
    /\ Fields # {} /\ {"row", "get"} \cap Fields = {}
    /\ MaxSessions \in Nat /\ MaxTokens \in Nat /\ MaxFaults \in Nat

Sessions == 1..MaxSessions
NoSession == 0

\* A value: the session it was made in, and its number.
Value(s, n) == [of |-> s, n |-> n]
Default == Value(NoSession, 0)
Values == [of : 0..MaxSessions, n : 0..MaxTokens]
NoValue == Value(NoSession, MaxTokens + 1)      \* the field is not in an update
NoUpdates == [f \in Fields |-> NoValue]
NoData == NoUpdates
NoRow == [row |-> "unborn"]
Gone == [row |-> "gone"]
NoGet == [get |-> "no"]
Asked == [get |-> "asked"]
In(u) == {f \in Fields : u[f] # NoValue}

VARIABLES
    srv,        \* srv[s]: the session's row
    shared,     \* sharedSessionId, and the id in localStorage
    cache,      \* data of the query ["session", shared]
    backup,     \* the copy in sessionStorage
    view,       \* what the hooks see of the query
    got,        \* the GET under way: Asked, or what was read
    pend,       \* pend[h]: pendingUpdatesRef; its timer runs while not empty
    mounted,    \* hooks that are mounted
    puts,       \* PUTs under way
    auth,       \* status, and the requests of bootstrap and login
    creating,   \* the hooks' createMutation
    page,       \* "login" or "app"
    tokens,     \* updates so far
    faults,     \* faults so far
    astray,     \* history: fields with an update lost, overtaken or missed by a GET
    stuck       \* history: a login ended in an exception that is not a 401

query == <<cache, view, got>>
client == <<shared, query, backup, pend, mounted, creating, auth, page, stuck>>
count == <<tokens, faults>>
vars == <<srv, client, puts, count, astray>>

Unborn == {s \in Sessions : srv[s] = NoRow}
Live(s) == s # NoSession /\ srv[s] \notin {NoRow, Gone}
NotCreating == [on |-> FALSE, body |-> NoData]

Init ==
    /\ srv = [s \in Sessions |-> NoRow]
    /\ shared = NoSession /\ cache = NoData /\ backup = NoData
    /\ view = "off" /\ got = NoGet
    /\ pend = [h \in Hooks |-> NoUpdates] /\ mounted = {}
    /\ puts = {}
    /\ auth = [status |-> "idle", boot |-> FALSE, login |-> "no"]
    /\ creating = NotCreating
    /\ page = "login"
    /\ tokens = 0 /\ faults = 0
    /\ astray = {} /\ stuck = FALSE

Fault == faults < MaxFaults /\ faults' = faults + 1 /\ UNCHANGED tokens

-----------------------------------------------------------------------------
(* The identity of the session.                                            *)

\* clearStoredSessionIdentity
Clears ==
    /\ shared' = NoSession
    /\ cache' = NoData /\ got' = NoGet /\ view' = "off"
    /\ backup' = NoData

\* getDefaultSessionState(getSessionBackup())
Body(b) == [f \in Fields |-> IF b[f] = NoValue THEN Default ELSE b[f]]

\* The row is created and commitCreatedSession publishes it.  Mounted hooks
\* back it up at once.
Commits(s, body, hooks) ==
    /\ srv' = [srv EXCEPT ![s] = body]
    /\ shared' = s
    /\ cache' = body /\ got' = NoGet
    /\ view' = "ready"
    /\ backup' = IF hooks = {} THEN NoData ELSE body

\* A page is loaded: what is not in a storage is gone; a request that was
\* under way may still be served.
LoadsSoftly(where) ==
    /\ auth' = [status |-> "idle", boot |-> FALSE, login |-> "no"]
    /\ creating' = NotCreating
    /\ mounted' = {} /\ UNCHANGED pend
    /\ page' = where /\ stuck' = FALSE
Loads(where) ==
    /\ auth' = [status |-> "idle", boot |-> FALSE, login |-> "no"]
    /\ creating' = NotCreating
    /\ pend' = [h \in Hooks |-> NoUpdates] /\ mounted' = {}
    /\ page' = where /\ stuck' = FALSE

LoadPage ==
    /\ Fault
    /\ \E where \in {"login", "app"} : Loads(where)
    /\ cache' = NoData /\ got' = NoGet /\ view' = "off"
    /\ UNCHANGED <<srv, shared, backup, puts, astray>>

-----------------------------------------------------------------------------
(* Sign-in.                                                                *)

Settles(status) == [status |-> status, boot |-> FALSE, login |-> "no"]

\* A transient error: "idle" makes Providers try again.
BootGivesUpSilently == [Settles("idle") EXCEPT !.status = "loading"]
BootGivesUp == Settles("idle")

\* The retry effect of Providers.
Bootstrap ==
    /\ auth.status = "idle"
    /\ auth' = [auth EXCEPT !.status = "loading", !.boot = TRUE]
    /\ UNCHANGED <<srv, shared, query, backup, pend, mounted, creating, page, stuck,
                   puts, count, astray>>

\* Every hook goes with its page, and the clean-up stops the timers: what was
\* pending is not sent.
UnmountsAll ==
    /\ mounted' = {}
    /\ pend' = [h \in Hooks |-> NoUpdates]
    /\ astray' = astray \cup UNION {In(pend[h]) : h \in Hooks}

\* The pages lead a signed-in user to the application and another to /login.
BootAnswers ==
    /\ auth.boot
    /\ \/ /\ auth' = Settles("authenticated") /\ page' = "app"
          /\ UNCHANGED <<pend, mounted, astray, count>>
       \/ /\ auth' = Settles("unauthenticated") /\ page' = "login"
          /\ UnmountsAll
          /\ UNCHANGED count
       \/ /\ auth' = BootGivesUp /\ Fault
          /\ UNCHANGED <<pend, mounted, astray, page>>
    /\ UNCHANGED <<srv, shared, query, backup, creating, stuck, puts>>

\* login and register.  The form is disabled while status is "loading".
Login ==
    /\ page = "login" /\ auth.status \in {"idle", "unauthenticated"}
    /\ auth' = [status |-> "loading", boot |-> FALSE, login |-> "asked"]
    /\ UNCHANGED <<srv, shared, query, backup, pend, mounted, creating, page, stuck,
                   puts, count, astray>>

\* Nobody catches what login throws, and "loading" stays; but a 401 has
\* raised the event that forces "unauthenticated".
LoginThrows ==
    /\ auth.login # "no" /\ Fault
    /\ auth' = [auth EXCEPT !.login = "no"] /\ stuck' = TRUE
    /\ UNCHANGED <<srv, shared, query, backup, pend, mounted, creating, page,
                   puts, astray>>

LoginAnswers ==
    /\ auth.login = "asked"
    /\ Clears
    /\ \/ auth' = [auth EXCEPT !.login = "creating"]
       \/ auth' = Settles("unauthenticated")        \* forceUnauthenticated
    /\ UNCHANGED <<srv, pend, mounted, creating, page, stuck, puts, count, astray>>

LoginCreates ==
    /\ auth.login = "creating"
    /\ \E s \in Unborn : Commits(s, Body(backup), {})
    /\ auth' = Settles("authenticated") /\ page' = "app"
    /\ UNCHANGED <<pend, mounted, creating, stuck, puts, count, astray>>

\* logout, or a 401 on a page of the application: both clear and load /login.
Leave ==
    /\ page = "app"
    /\ Clears /\ Loads("login")
    /\ UNCHANGED <<srv, puts, count, astray>>

-----------------------------------------------------------------------------
(* The hook: reading and creating.                                         *)

\* The query starts when somebody sees it without data.
Mount(h) ==
    /\ page = "app" /\ h \notin mounted
    /\ mounted' = mounted \cup {h}
    /\ IF shared # NoSession /\ view \in {"off", "failed"}
       THEN view' = "loading" /\ got' = Asked
       ELSE UNCHANGED <<view, got>>
    /\ backup' = IF cache = NoData THEN backup ELSE cache
    /\ UNCHANGED <<srv, shared, cache, pend, creating, auth, page, stuck, puts, count,
                   astray>>

\* The clean-up stops the timer: what was pending is not sent.
Unmount(h) ==
    /\ h \in mounted
    /\ mounted' = mounted \ {h}
    /\ pend' = [pend EXCEPT ![h] = NoUpdates]
    /\ astray' = astray \cup In(pend[h])
    /\ UNCHANGED <<srv, shared, query, backup, creating, auth, page, stuck, puts, count>>

\* Updates that are still on their way are missing from what is read.
Coming == (UNION {In(pend[h]) : h \in Hooks}) \cup (UNION {In(p.u) : p \in puts})

ServeGet ==
    /\ got = Asked
    /\ got' = srv[shared]
    /\ astray' = astray \cup Coming
    /\ UNCHANGED <<srv, shared, cache, view, backup, pend, mounted, creating, auth, page,
                   stuck, puts, count>>

AnswerGet ==
    /\ got \notin {NoGet, Asked}
    /\ got' = NoGet
    /\ IF got = Gone
       THEN view' = "missing" /\ UNCHANGED <<cache, backup>>
       ELSE /\ view' = "ready" /\ cache' = got
            /\ backup' = IF mounted = {} THEN backup ELSE got
    /\ UNCHANGED <<srv, shared, pend, mounted, creating, auth, page, stuck, puts, count,
                   astray>>

\* Any other error is not retried until a hook is mounted.
GetFails ==
    /\ got # NoGet /\ Fault
    /\ got' = NoGet /\ view' = "failed"
    /\ UNCHANGED <<srv, shared, cache, backup, pend, mounted, creating, auth, page, stuck,
                   puts, astray>>

\* The effect "auto-create session if needed".
Create ==
    /\ auth.status = "authenticated" /\ mounted # {} /\ ~creating.on
    /\ \/ /\ view = "missing"
          /\ Clears
       \/ /\ shared = NoSession
          /\ UNCHANGED <<shared, query, backup>>
    /\ creating' = [on |-> TRUE, body |-> Body(backup')]
    /\ UNCHANGED <<srv, pend, mounted, auth, page, stuck, puts, count, astray>>

CreateAnswers ==
    /\ creating.body # NoData
    /\ \E s \in Unborn : Commits(s, creating.body, mounted)
    /\ creating' = NotCreating
    /\ UNCHANGED <<pend, mounted, auth, page, stuck, puts, count, astray>>

\* onSettled lowers isCreatingRef, and the effect tries again.
CreateSettlesNever == [on |-> TRUE, body |-> NoData]
CreateSettles == NotCreating

CreateFails ==
    /\ creating.body # NoData /\ Fault
    /\ creating' = CreateSettles
    /\ UNCHANGED <<srv, shared, query, backup, pend, mounted, auth, page, stuck, puts,
                   astray>>

-----------------------------------------------------------------------------
(* The hook: updating.                                                     *)

\* setQueryData: an empty cache is not updated.
ShownAlways(c, f, v) == [c EXCEPT ![f] = v]
Shown(c, f, v) == IF c = NoData THEN c ELSE [c EXCEPT ![f] = v]

\* updateSession, from a component that shows the session.
Update(h, f) ==
    /\ h \in mounted /\ view \in {"ready", "detached"}
    /\ tokens < MaxTokens /\ tokens' = tokens + 1
    /\ LET v == Value(shared, tokens + 1) IN
        /\ pend' = [pend EXCEPT ![h][f] = v]
        /\ cache' = Shown(cache, f, v)
        /\ backup' = IF cache = NoData THEN backup ELSE cache'
    /\ UNCHANGED <<srv, shared, view, got, mounted, creating, auth, page, stuck, puts,
                   faults, astray>>

\* A render with an evicted query builds it anew and fetches.
Renders ==
    IF view = "detached" THEN view' = "loading" /\ got' = Asked
    ELSE UNCHANGED <<view, got>>

\* The debounce timer ends.  The mutation sends to the session of the latest
\* render, whatever session the updates were made in.
Flush(h) ==
    /\ In(pend[h]) # {}
    /\ LET u == pend[h]
       IN  /\ puts' = IF shared = NoSession THEN puts
                      ELSE puts \cup {[to |-> shared, u |-> u]}
           /\ astray' = astray \cup {f \in In(u) : u[f].of # shared}
    /\ pend' = [pend EXCEPT ![h] = NoUpdates]
    /\ Renders
    /\ UNCHANGED <<srv, shared, cache, backup, mounted, creating, auth, page, stuck, count>>

Rerender ==
    /\ view = "detached" /\ Renders
    /\ UNCHANGED <<srv, shared, cache, backup, pend, mounted, creating, auth, page, stuck,
                   puts, count, astray>>

\* trimQueryCache, and the collection of a query nobody observes.
Trim ==
    /\ view = "ready" /\ Fault
    /\ cache' = NoData
    /\ view' = IF mounted = {} THEN "off" ELSE "detached"
    /\ UNCHANGED <<srv, shared, got, backup, pend, mounted, creating, auth, page, stuck,
                   puts, astray>>

-----------------------------------------------------------------------------
(* The server: SessionManager.update merges the fields it is given.        *)

MergedBlank(row, u) == [f \in Fields |-> IF u[f] = NoValue THEN Default ELSE u[f]]
Merged(row, u) == [f \in Fields |-> IF u[f] = NoValue THEN row[f] ELSE u[f]]
Overtaken(row, u) == {f \in In(u) : row[f].n > u[f].n}

\* syncMutation has no onSuccess.
CacheAfterAnswer(c, row) == row
CacheAfter(c, row) == c

ServePut(p) ==
    /\ p \in puts
    /\ puts' = puts \ {p}
    /\ IF Live(p.to)
       THEN /\ srv' = [srv EXCEPT ![p.to] = Merged(@, p.u)]
            /\ astray' = astray \cup Overtaken(srv[p.to], p.u)
            /\ cache' = IF p.to = shared /\ cache # NoData
                        THEN CacheAfter(cache, srv'[p.to]) ELSE cache
       ELSE /\ UNCHANGED <<srv, cache>>
            /\ astray' = astray \cup In(p.u)
    /\ UNCHANGED <<shared, view, got, backup, pend, mounted, creating, auth, page, stuck,
                   count>>

LosePut(p) ==
    /\ p \in puts /\ Fault
    /\ puts' = puts \ {p}
    /\ astray' = astray \cup In(p.u)
    /\ UNCHANGED <<srv, client>>

\* The row outlives its time, or another database is connected.
Expire(s) ==
    /\ Live(s) /\ Fault
    /\ srv' = [srv EXCEPT ![s] = Gone]
    /\ UNCHANGED <<client, puts, astray>>

-----------------------------------------------------------------------------
Next ==
    \/ LoadPage \/ Leave
    \/ Bootstrap \/ BootAnswers
    \/ Login \/ LoginThrows \/ LoginAnswers \/ LoginCreates
    \/ \E h \in Hooks : Mount(h) \/ Unmount(h) \/ Flush(h)
    \/ ServeGet \/ AnswerGet \/ GetFails
    \/ Create \/ CreateAnswers \/ CreateFails
    \/ \E h \in Hooks, f \in Fields : Update(h, f)
    \/ Rerender \/ Trim
    \/ \E p \in puts : ServePut(p) \/ LosePut(p)
    \/ \E s \in Sessions : Expire(s)

\* Timers fire, effects run, and a request is answered if it does not fail.
Fairness ==
    /\ WF_vars(Bootstrap) /\ WF_vars(BootAnswers)
    /\ WF_vars(LoginAnswers) /\ WF_vars(LoginCreates)
    /\ WF_vars(Create) /\ WF_vars(CreateAnswers)
    /\ WF_vars(ServeGet) /\ WF_vars(AnswerGet)

Spec == Init /\ [][Next]_vars /\ Fairness

-----------------------------------------------------------------------------
Data == [Fields -> Values]
Updates == [Fields -> Values \cup {NoValue}]

\* The components have the values the code gives them, and a query that is
\* ready has data while one that is not has none.
TypeOK ==
    /\ srv \in [Sessions -> Data \cup {NoRow, Gone}]
    /\ shared \in 0..MaxSessions
    /\ cache \in Data \cup {NoData} /\ backup \in Data \cup {NoData}
    /\ view \in {"off", "loading", "ready", "missing", "failed", "detached"}
    /\ view = "ready" <=> cache # NoData
    /\ got \in Data \cup {NoGet, Asked, Gone}
    /\ got # NoGet <=> view = "loading"
    /\ pend \in [Hooks -> Updates]
    /\ mounted \subseteq Hooks
    /\ \A h \in Hooks \ mounted : In(pend[h]) = {}
    /\ puts \subseteq [to : Sessions, u : Updates]
    /\ auth \in [status : {"idle", "loading", "authenticated", "unauthenticated"},
                 boot : BOOLEAN, login : {"no", "asked", "creating"}]
    /\ creating \in [on : BOOLEAN, body : Data \cup {NoData}]
    /\ page \in {"login", "app"}
    /\ tokens \in 0..MaxTokens /\ faults \in 0..MaxFaults
    /\ astray \subseteq Fields /\ stuck \in BOOLEAN

\* The cache leads: once a query is ready, no update of its session, waiting
\* in a hook, under way or stored, is newer than what the user sees, unless it
\* missed the GET.  Answers of late PUTs would break it (use-session.ts:4-12).
CacheLeads ==
    LET sent == {pend[h] : h \in Hooks} \cup {p.u : p \in {q \in puts : q.to = shared}}
        stored == IF Live(shared) THEN {srv[shared]} ELSE {}
    IN  view = "ready" =>
          \A u \in sent \cup stored : \A f \in In(u) \ astray :
             u[f].of = shared => u[f].n <= cache[f].n

\* When nothing is on its way any more, the server has what the user sees,
\* except for fields whose updates failed or arrived out of order: nothing
\* the hooks accept is forgotten between the debounce and the PUT.
Quiet == puts = {} /\ \A h \in Hooks : In(pend[h]) = {}

QuietAgreement ==
    Quiet /\ view = "ready" /\ Live(shared) =>
        \A f \in Fields \ astray : srv[shared][f] = cache[f]

\* An update changes the row of the session it was made in and no other, as
\* long as no session expired under its hooks: only there does a debounce
\* outlive a session (use-session.ts:139-152); signing out and in never does.
UpdatesStayInSession ==
    [][\A s \in Sessions, f \in Fields :
         Live(s) /\ Live(s)' /\ srv'[s][f] # srv[s][f] =>
             srv'[s][f].of = s \/ \E t \in Sessions : srv[t] = Gone]_vars

\* A sign-in does not load for ever: the status is settled unless what login
\* awaits threw something other than a 401 (auth-store.ts:83-90), which
\* leaves a form that is disabled until the page is loaded anew.
LoadingEnds == auth.status = "loading" ~> (auth.status # "loading" \/ stuck \/ Unborn = {})

\* A signed-in page gets a session, though requests fail now and then: the
\* effect tries again (use-session.ts:80-106).
Waits == auth.status = "authenticated" /\ mounted # {} /\ shared = NoSession

SessionComes == Waits ~> (~Waits \/ Unborn = {})

\* The session made in place of one that expired has what was backed up: the
\* backup "protects against session expiry" (use-session.ts:187) and the new
\* session "restores from backup if available" (use-session.ts:66).
BackupSurvivesExpiry ==
    [][view = "missing" /\ backup # NoData /\ creating'.on => creating'.body = backup]_vars

=============================================================================
