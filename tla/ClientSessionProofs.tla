------------------------- MODULE ClientSessionProofs -------------------------
(***************************************************************************)
(* Proofs about ClientSession: its types, that the cache leads, that it    *)
(* agrees with the server when all is quiet, and that updates stay in      *)
(* their session.                                                          *)
(***************************************************************************)
EXTENDS ClientSession, TLAPS

\* Has(f, x): somebody holds x as field f, or could fill it in.
Has(f, x) ==
    \/ x = Default
    \/ cache[f] = x \/ backup[f] = x \/ creating.body[f] = x
    \/ got \in Data /\ got[f] = x
    \/ \E h \in Hooks : pend[h][f] = x
    \/ \E p \in puts : p.u[f] = x
    \/ \E s \in Sessions : srv[s] \in Data /\ srv[s][f] = x

\* The number of a value tells which value it is.
Known ==
    \A f \in Fields : \A x, y \in Values :
        /\ Has(f, x) => x.n <= tokens
        /\ Has(f, x) /\ Has(f, y) /\ x.n = y.n => x = y

\* Requests of the sign-in exclude one another; a session is created by a
\* hook only for a signed-in page that has none.
SignIn ==
    /\ auth.boot => auth.status = "loading" /\ auth.login = "no"
    /\ auth.login # "no" => auth.status = "loading" /\ page = "login"
    /\ page = "login" => mounted = {}
    /\ creating.on => /\ auth.status = "authenticated" /\ auth.login = "no" /\ ~auth.boot
                      /\ shared = NoSession
    /\ creating.body # NoData => creating.on

\* The session shared was created, and only such a one is queried.
Identity ==
    /\ shared # NoSession => srv[shared] # NoRow
    /\ view # "off" => shared # NoSession
    /\ view = "missing" \/ got = Gone => srv[shared] = Gone

\* Updates are made in, and sent to, sessions that were created; one that
\* is sent to another session is noted.
Origins ==
    /\ \A h \in Hooks : \A f \in In(pend[h]) :
         pend[h][f].of # NoSession /\ srv[pend[h][f].of] # NoRow
    /\ \A p \in puts : srv[p.to] # NoRow
    /\ \A p \in puts : \A f \in In(p.u) : p.u[f].of = p.to \/ f \in astray

\* Until a session expires no update outlives its session.
OwnUpdates ==
    (\A s \in Sessions : srv[s] # Gone) =>
        /\ \A h \in Hooks : \A f \in In(pend[h]) : pend[h][f].of = shared
        /\ \A p \in puts : \A f \in In(p.u) : p.u[f].of = p.to

\* What was read is missing only updates that were on their way.
Reading ==
    got \in Data =>
        /\ Coming \subseteq astray
        /\ Live(shared) => \A f \in Fields \ astray : got[f] = srv[shared][f]

\* No update of u is newer than what the user sees.
Behind(u) == \A f \in In(u) \ astray : u[f].of = shared => u[f].n <= cache[f].n

Leads ==
    view = "ready" =>
        /\ \A h \in Hooks : Behind(pend[h])
        /\ \A p \in puts : p.to = shared => Behind(p.u)
        /\ Live(shared) => Behind(srv[shared])

\* What the user sees is stored or on its way.
Agreement ==
    view = "ready" /\ Live(shared) =>
        \A f \in Fields \ astray :
            \/ srv[shared][f] = cache[f]
            \/ \E h \in Hooks : pend[h][f] = cache[f]
            \/ \E p \in puts : p.to = shared /\ p.u[f] = cache[f]

Seen == Reading /\ Leads /\ Agreement
DataInv == Known /\ Identity /\ Origins /\ OwnUpdates /\ Seen
IInv == TypeOK /\ SignIn /\ DataInv

data == <<srv, shared, query, backup, pend, creating, puts, tokens, astray>>

\* The parts of TypeOK.
RowType == srv \in [Sessions -> Data \cup {NoRow, Gone}]
QueryType ==
    /\ shared \in 0..MaxSessions
    /\ cache \in Data \cup {NoData} /\ backup \in Data \cup {NoData}
    /\ view \in {"off", "loading", "ready", "missing", "failed", "detached"}
    /\ view = "ready" <=> cache # NoData
    /\ got \in Data \cup {NoGet, Asked, Gone}
    /\ got # NoGet <=> view = "loading"
HookType ==
    /\ pend \in [Hooks -> Updates]
    /\ mounted \subseteq Hooks
    /\ \A h \in Hooks \ mounted : In(pend[h]) = {}
PutType == puts \subseteq [to : Sessions, u : Updates]
AuthStates == [status : {"idle", "loading", "authenticated", "unauthenticated"},
               boot : BOOLEAN, login : {"no", "asked", "creating"}]
SignType ==
    /\ auth \in AuthStates
    /\ page \in {"login", "app"}
CreateType == creating \in [on : BOOLEAN, body : Data \cup {NoData}]
CountType ==
    /\ tokens \in 0..MaxTokens /\ faults \in 0..MaxFaults
    /\ astray \subseteq Fields /\ stuck \in BOOLEAN

Types == RowType /\ QueryType /\ HookType /\ PutType /\ SignType /\ CreateType /\ CountType

-----------------------------------------------------------------------------
(* Values.                                                                 *)

LEMMA Marks ==
    /\ Default \in Values /\ NoValue \notin Values
    /\ NoRow \notin Data /\ Gone \notin Data /\ NoRow # Gone
    /\ NoGet \notin Data \cup {NoRow, Gone} /\ Asked \notin Data \cup {NoRow, Gone, NoGet}
    /\ NoData \notin Data
    /\ NoUpdates \in Updates /\ In(NoUpdates) = {}
    /\ Data \subseteq Updates
  <1>1. Default \in Values /\ NoValue \notin Values
    BY SessionAssumption DEF Default, Values, NoValue, Value, NoSession
  <1>2. NoRow \notin Data /\ Gone \notin Data /\ NoRow # Gone
    <2>1. DOMAIN NoRow = {"row"} /\ DOMAIN Gone = {"row"} /\ NoRow.row # Gone.row
      BY DEF NoRow, Gone
    <2> QED  BY <2>1, SessionAssumption DEF Data
  <1>3. NoGet \notin Data \cup {NoRow, Gone} /\ Asked \notin Data \cup {NoRow, Gone, NoGet}
    <2>1. DOMAIN NoRow = {"row"} /\ DOMAIN Gone = {"row"}
      BY DEF NoRow, Gone
    <2>2. DOMAIN NoGet = {"get"} /\ DOMAIN Asked = {"get"} /\ NoGet.get # Asked.get
      BY DEF NoGet, Asked
    <2>3. {"row"} # {"get"}
      OBVIOUS
    <2> QED  BY <2>1, <2>2, <2>3, SessionAssumption DEF Data
  <1>4. NoData \notin Data
    BY <1>1, SessionAssumption DEF NoData, NoUpdates, Data
  <1>5. NoUpdates \in Updates /\ In(NoUpdates) = {}
    BY DEF NoUpdates, Updates, In
  <1>6. Data \subseteq Updates
    BY DEF Data, Updates
  <1> QED  BY <1>1, <1>2, <1>3, <1>4, <1>5, <1>6

LEMMA InIs ==
    ASSUME NEW u \in Updates, NEW f \in Fields
    PROVE  f \in In(u) <=> u[f] \in Values
  BY Marks DEF In, Updates

LEMMA BodyIsData ==
    ASSUME NEW b \in Data \cup {NoData}
    PROVE  /\ Body(b) \in Data
           /\ \A f \in Fields : Body(b)[f] = Default \/ Body(b)[f] = b[f]
  BY Marks DEF Body, Data, NoData, NoUpdates

LEMMA MergedIsData ==
    ASSUME NEW row \in Data, NEW u \in Updates
    PROVE  /\ Merged(row, u) \in Data
           /\ \A f \in Fields : Merged(row, u)[f] = IF f \in In(u) THEN u[f] ELSE row[f]
  BY Marks DEF Merged, Data, Updates, In

LEMMA LiveIsData ==
    ASSUME TypeOK, NEW s \in Sessions \cup {NoSession}
    PROVE  Live(s) <=> s \in Sessions /\ srv[s] \in Data
  BY Marks, SessionAssumption DEF Live, TypeOK, Sessions, NoSession

LEMMA Ready ==
    ASSUME TypeOK
    PROVE  /\ view = "ready" => cache \in Data /\ got = NoGet
           /\ got \in Data => view = "loading"
  BY Marks DEF TypeOK

-----------------------------------------------------------------------------
(* Steps that disturb little.                                              *)

LEMMA DataFrame ==
    ASSUME DataInv, UNCHANGED data
    PROVE  DataInv'
  <1>1. Known'
    BY DEF DataInv, data, query, Known, Has
  <1>2. Identity' /\ Origins' /\ OwnUpdates'
    BY DEF DataInv, data, query, Identity, Origins, OwnUpdates
  <1>3. Seen'
    BY DEF DataInv, data, query, Seen, Reading, Leads, Agreement, Behind, Live, Coming
  <1> QED  BY <1>1, <1>2, <1>3 DEF DataInv

LEMMA Unseen ==
    ASSUME view' # "ready", got' \notin Data
    PROVE  Seen'
  BY DEF Seen, Reading, Leads, Agreement, Data, Values

LEMMA KnownShrinks ==
    ASSUME Known, tokens' = tokens,
           \A f \in Fields : \A x \in Values : Has(f, x)' => Has(f, x)
    PROVE  Known'
  BY DEF Known, Values, Data

\* Types are shown part by part.
LEMMA TypeOKIs == TypeOK <=> Types
  BY DEF TypeOK, Types, RowType, QueryType, HookType, PutType, SignType, AuthStates, CreateType,
         CountType

LEMMA TypeOKIsNext == TypeOK' <=> Types'
  BY DEF TypeOK, Types, RowType, QueryType, HookType, PutType, SignType, AuthStates, CreateType,
         CountType

LEMMA SettlesIs ==
    ASSUME NEW st \in {"idle", "authenticated", "unauthenticated"}
    PROVE  /\ Settles(st) \in AuthStates
           /\ Settles(st).status = st /\ ~Settles(st).boot /\ Settles(st).login = "no"
  BY DEF Settles, AuthStates

LEMMA FaultIs ==
    ASSUME TypeOK, Fault
    PROVE  faults' \in 0..MaxFaults /\ tokens' = tokens
  BY SessionAssumption DEF Fault, TypeOK

\* Fewer updates: those that are left are as they were.
LEMMA Fewer ==
    ASSUME Origins, OwnUpdates, srv' = srv, shared' = shared, astray \subseteq astray',
           \A h \in Hooks : \A f \in In(pend'[h]) : f \in In(pend[h]) /\ pend'[h][f] = pend[h][f],
           puts' \subseteq puts
    PROVE  Origins' /\ OwnUpdates'
  <1>1. ASSUME NEW h \in Hooks, NEW f \in In(pend'[h])
        PROVE  pend'[h][f].of # NoSession /\ srv'[pend'[h][f].of] # NoRow
    <2>1. f \in In(pend[h]) /\ pend'[h][f] = pend[h][f]
      OBVIOUS
    <2>2. pend[h][f].of # NoSession /\ srv[pend[h][f].of] # NoRow
      BY <2>1 DEF Origins
    <2> QED  BY <2>1, <2>2
  <1>2. ASSUME NEW p \in puts'
        PROVE  srv'[p.to] # NoRow /\ \A f \in In(p.u) : p.u[f].of = p.to \/ f \in astray'
    BY DEF Origins
  <1>3. Origins'
    BY <1>1, <1>2 DEF Origins
  <1>4. ASSUME \A s \in Sessions : srv'[s] # Gone, NEW h \in Hooks, NEW f \in In(pend'[h])
        PROVE  pend'[h][f].of = shared'
    <2>1. f \in In(pend[h]) /\ pend'[h][f] = pend[h][f]
      OBVIOUS
    <2>2. pend[h][f].of = shared
      BY <1>4, <2>1 DEF OwnUpdates
    <2> QED  BY <2>1, <2>2
  <1>5. ASSUME \A s \in Sessions : srv'[s] # Gone, NEW p \in puts'
        PROVE  \A f \in In(p.u) : p.u[f].of = p.to
    BY <1>5 DEF OwnUpdates
  <1>6. OwnUpdates'
    BY <1>4, <1>5 DEF OwnUpdates
  <1> QED  BY <1>3, <1>6

-----------------------------------------------------------------------------
(* Sign-in.                                                                *)

LEMMA BootstrapKeeps ==
    ASSUME IInv, Bootstrap
    PROVE  IInv'
  <1>1. Types
    BY TypeOKIs DEF IInv
  <1>2. Types'
    BY <1>1 DEF Types, RowType, QueryType, HookType, PutType, SignType, AuthStates, CreateType, CountType, Bootstrap, query, count
  <1>3. SignIn'
    BY <1>1 DEF IInv, Types, SignType, SignIn, Bootstrap, query
  <1>4. TypeOK'
    BY <1>2, TypeOKIsNext
  <1>5. DataInv'
    BY DataFrame DEF IInv, Bootstrap, data, count
  <1> QED  BY <1>3, <1>4, <1>5 DEF IInv

LEMMA LoginKeeps ==
    ASSUME IInv, Login
    PROVE  IInv'
  <1>1. Types
    BY TypeOKIs DEF IInv
  <1>2. Types'
    BY <1>1 DEF Types, RowType, QueryType, HookType, PutType, SignType, AuthStates, CreateType, CountType, Login, query, count
  <1>3. SignIn'
    BY <1>1 DEF IInv, Types, SignType, SignIn, Login, query
  <1>4. TypeOK'
    BY <1>2, TypeOKIsNext
  <1>5. DataInv'
    BY DataFrame DEF IInv, Login, data, count
  <1> QED  BY <1>3, <1>4, <1>5 DEF IInv

LEMMA LoginThrowsKeeps ==
    ASSUME IInv, LoginThrows
    PROVE  IInv'
  <1>1. Types
    BY TypeOKIs DEF IInv
  <1>2. Types'
    BY <1>1, FaultIs DEF IInv, Types, RowType, QueryType, HookType, PutType, SignType, AuthStates, CreateType, CountType, LoginThrows, query
  <1>3. SignIn'
    BY <1>1 DEF IInv, Types, SignType, SignIn, LoginThrows, query
  <1>4. TypeOK'
    BY <1>2, TypeOKIsNext
  <1>5. DataInv'
    BY DataFrame, FaultIs DEF IInv, LoginThrows, data
  <1> QED  BY <1>3, <1>4, <1>5 DEF IInv

\* Updates that are given up leave less to be said.
LEMMA Forgotten ==
    ASSUME TypeOK, DataInv, UNCHANGED <<srv, shared, query, backup, creating, puts, tokens>>,
           NEW H \in SUBSET Hooks,
           pend' = [h \in Hooks |-> IF h \in H THEN NoUpdates ELSE pend[h]],
           astray' = astray \cup UNION {In(pend[h]) : h \in H}
    PROVE  DataInv'
  <1>1. \A h \in Hooks : pend'[h] = pend[h] \/ (h \in H /\ In(pend'[h]) = {})
    BY Marks
  <1>2. \A h \in Hooks : In(pend'[h]) \subseteq In(pend[h])
                         /\ \A f \in In(pend'[h]) : pend'[h][f] = pend[h][f]
    BY <1>1
  <1>3. astray \subseteq astray'
    OBVIOUS
  <1>4. Known'
    <2>1. \A f \in Fields : \A x \in Values : \A h \in Hooks :
            pend'[h][f] = x => pend[h][f] = x
      BY Marks, <1>1, InIs DEF TypeOK
    <2> QED  BY <2>1, KnownShrinks DEF DataInv, Has, query
  <1>5. Identity' /\ Origins' /\ OwnUpdates'
    <2>1. Identity'
      BY DEF DataInv, query, Identity
    <2>2. \A h \in Hooks : \A f \in In(pend'[h]) : f \in In(pend[h]) /\ pend'[h][f] = pend[h][f]
      BY <1>2
    <2> QED  BY <1>3, <2>1, <2>2, Fewer DEF DataInv, query
  <1>6. Reading'
    <2>1. Coming' \subseteq Coming
      BY <1>2 DEF Coming
    <2> QED  BY <1>3, <2>1 DEF DataInv, query, Seen, Reading, Live
  <1>7. Leads'
    <2> SUFFICES ASSUME view = "ready"
                 PROVE  /\ \A h \in Hooks : Behind(pend[h])'
                        /\ \A p \in puts : p.to = shared => Behind(p.u)'
                        /\ Live(shared) => Behind(srv[shared])'
      BY DEF Leads, Live, query
    <2>1. ASSUME NEW h \in Hooks  PROVE Behind(pend[h])'
      <3>1. Behind(pend[h])
        BY DEF DataInv, Seen, Leads
      <3>2. \A f \in In(pend'[h]) : f \in In(pend[h]) /\ pend'[h][f] = pend[h][f]
        BY <1>2
      <3> QED  BY <1>3, <3>1, <3>2 DEF Behind, query
    <2>2. ASSUME NEW p \in puts, p.to = shared  PROVE Behind(p.u)'
      BY <2>2, <1>3 DEF DataInv, Seen, Leads, Behind, query
    <2>3. ASSUME Live(shared)  PROVE Behind(srv[shared])'
      BY <2>3, <1>3 DEF DataInv, Seen, Leads, Behind, query
    <2> QED  BY <2>1, <2>2, <2>3
  <1>8. Agreement'
    <2> SUFFICES ASSUME view = "ready", Live(shared), NEW f \in Fields \ astray'
                 PROVE  \/ srv[shared][f] = cache[f]
                        \/ \E h \in Hooks : pend'[h][f] = cache[f]
                        \/ \E p \in puts : p.to = shared /\ p.u[f] = cache[f]
      BY DEF Agreement, Live, query
    <2>1. CASE \E h \in Hooks : pend[h][f] = cache[f]
      <3>1. PICK h \in Hooks : pend[h][f] = cache[f]
        BY <2>1
      <3>2. cache[f] \in Values
        BY Ready DEF Data
      <3>3. f \in In(pend[h])
        BY <3>1, <3>2, InIs DEF TypeOK
      <3>4. h \notin H
        BY <3>3
      <3> QED  BY <3>1, <3>4
    <2> QED  BY <2>1, <1>3 DEF DataInv, Seen, Agreement
  <1> QED  BY <1>4, <1>5, <1>6, <1>7, <1>8 DEF DataInv, Seen

LEMMA BootAnswersKeeps ==
    ASSUME IInv, BootAnswers
    PROVE  IInv'
  <1>1. CASE UnmountsAll
    <2>4. Types
      BY TypeOKIs DEF IInv
    <2>5. auth' \in {Settles("authenticated"), Settles("idle"), Settles("unauthenticated")}
          /\ page' \in {"app", "login"} /\ tokens' = tokens /\ faults' \in 0..MaxFaults
      BY <2>4, FaultIs DEF IInv, Types, CountType, SignType, BootAnswers, BootGivesUp, count
    <2>6. HookType' /\ CountType'
      BY <1>1, <2>4, <2>5, Marks DEF Types, HookType, CountType, UnmountsAll, BootAnswers, In
    <2>7. RowType' /\ QueryType' /\ PutType' /\ CreateType'
      BY <2>4 DEF Types, RowType, QueryType, PutType, CreateType, BootAnswers, query
    <2>8. SignType'
      BY <2>5, SettlesIs DEF SignType
    <2>9. SignIn'
      BY <1>1, <2>4, <2>5 DEF IInv, Types, SignType, SignIn, BootAnswers, UnmountsAll, Settles, query
    <2>1. TypeOK' /\ SignIn'
      BY <2>6, <2>7, <2>8, <2>9, TypeOKIsNext DEF Types
    <2>2. pend' = [h \in Hooks |-> IF h \in Hooks THEN NoUpdates ELSE pend[h]]
      BY <1>1 DEF UnmountsAll
    <2>3. DataInv'
      BY <1>1, <2>2, Forgotten DEF IInv, BootAnswers, UnmountsAll, Fault, count
    <2> QED  BY <2>1, <2>3 DEF IInv
  <1>2. CASE UNCHANGED <<pend, mounted, astray, tokens>> /\ page' \in {"app", page}
             /\ auth' \in {Settles("authenticated"), Settles("idle")} /\ faults' \in 0..MaxFaults
    <2>4. Types
      BY TypeOKIs DEF IInv
    <2>5. RowType' /\ QueryType' /\ HookType' /\ PutType' /\ CreateType' /\ CountType'
      BY <1>2, <2>4 DEF Types, RowType, QueryType, HookType, PutType, CreateType, CountType,
                        BootAnswers, query
    <2>6. SignType'
      BY <1>2, <2>4, SettlesIs DEF Types, SignType
    <2>7. SignIn'
      BY <1>2, <2>4 DEF IInv, Types, SignType, SignIn, BootAnswers, Settles, query
    <2>1. TypeOK' /\ SignIn'
      BY <2>5, <2>6, <2>7, TypeOKIsNext DEF Types
    <2>2. DataInv'
      BY <1>2, DataFrame DEF IInv, BootAnswers, data
    <2> QED  BY <2>1, <2>2 DEF IInv
  <1>3. UnmountsAll \/ (UNCHANGED <<pend, mounted, astray, tokens>> /\ page' \in {"app", page}
             /\ auth' \in {Settles("authenticated"), Settles("idle")} /\ faults' \in 0..MaxFaults)
    <2>1. faults \in 0..MaxFaults
      BY DEF IInv, TypeOK
    <2> QED  BY <2>1, FaultIs DEF BootAnswers, BootGivesUp, count, IInv
  <1> QED  BY <1>1, <1>2, <1>3

LEMMA LoginAnswersKeeps ==
    ASSUME IInv, LoginAnswers
    PROVE  IInv'
  <1>1. mounted = {} /\ \A h \in Hooks : In(pend[h]) = {}
    BY DEF IInv, TypeOK, SignIn, LoginAnswers
  <1>2. TypeOK'
    <2>1. Types
      BY TypeOKIs DEF IInv
    <2>2. RowType' /\ HookType' /\ PutType' /\ CreateType' /\ CountType'
      BY <2>1 DEF Types, RowType, HookType, PutType, CreateType, CountType, LoginAnswers, count
    <2>3. QueryType'
      BY Marks, SessionAssumption DEF QueryType, LoginAnswers, Clears, NoSession
    <2>4. SignType'
      BY <2>1, SettlesIs DEF Types, SignType, AuthStates, LoginAnswers
    <2> QED  BY <2>2, <2>3, <2>4, TypeOKIsNext DEF Types
  <1>3. SignIn'
    BY DEF IInv, TypeOK, SignIn, LoginAnswers, Clears, Settles, NoSession
  <1>4. Known'
    <2>1. \A f \in Fields : \A x \in Values : NoData[f] # x
      BY Marks DEF NoData, NoUpdates
    <2> QED  BY <2>1, Marks, KnownShrinks DEF IInv, DataInv, Has, LoginAnswers, Clears, count
  <1>5. Identity' /\ Origins' /\ OwnUpdates'
    BY <1>1, Marks DEF IInv, DataInv, LoginAnswers, Clears, Identity, Origins, OwnUpdates, NoSession
  <1>6. Seen'
    BY Unseen, Marks DEF LoginAnswers, Clears
  <1> QED  BY <1>2, <1>3, <1>4, <1>5, <1>6 DEF IInv, DataInv

\* A page that goes to /login, or is loaded, forgets what is not in a storage.
LEMMA Reloaded ==
    ASSUME TypeOK, DataInv, UNCHANGED <<srv, puts, tokens, astray>>,
           cache' = NoData, got' = NoGet, view' = "off",
           pend' = [h \in Hooks |-> NoUpdates], creating' = NotCreating,
           shared' \in {shared, NoSession}, backup' \in {backup, NoData}
    PROVE  DataInv'
  <1>1. \A h \in Hooks : In(pend'[h]) = {}
    BY Marks
  <1>2. Known'
    <2>1. \A f \in Fields : \A x \in Values : NoData[f] # x /\ NoUpdates[f] # x
      BY Marks DEF NoData, NoUpdates
    <2> QED  BY <2>1, Marks, KnownShrinks DEF DataInv, Has, NotCreating
  <1>3. Identity' /\ Origins' /\ OwnUpdates'
    BY <1>1, Marks DEF DataInv, Identity, Origins, OwnUpdates, NoSession
  <1>4. Seen'
    BY Unseen, Marks
  <1> QED  BY <1>2, <1>3, <1>4 DEF DataInv

LEMMA LoadsTypes ==
    ASSUME IInv, \E where \in {"login", "app"} : Loads(where),
           cache' = NoData, got' = NoGet, view' = "off", puts' = puts, srv' = srv, astray' = astray,
           shared' \in {shared, NoSession}, backup' \in {backup, NoData},
           tokens' = tokens, faults' \in 0..MaxFaults
    PROVE  TypeOK' /\ SignIn'
  <1>1. Types
    BY TypeOKIs DEF IInv
  <1>2. RowType' /\ PutType' /\ CountType'
    BY <1>1 DEF Types, RowType, PutType, CountType, Loads
  <1>3. QueryType'
    BY <1>1, Marks, SessionAssumption DEF Types, QueryType, NoSession
  <1>4. HookType'
    BY Marks DEF HookType, Loads
  <1>5. SignType' /\ CreateType'
    BY DEF SignType, AuthStates, CreateType, Loads, NotCreating
  <1>6. SignIn'
    BY DEF SignIn, Loads, NotCreating
  <1> QED  BY <1>2, <1>3, <1>4, <1>5, <1>6, TypeOKIsNext DEF Types

LEMMA LeaveKeeps ==
    ASSUME IInv, Leave
    PROVE  IInv'
  <1>1. TypeOK' /\ SignIn'
    <2>1. faults \in 0..MaxFaults
      BY DEF IInv, TypeOK
    <2> QED  BY <2>1, LoadsTypes DEF Leave, Clears, count
  <1>2. DataInv'
    BY Reloaded DEF IInv, Leave, Clears, Loads, count
  <1> QED  BY <1>1, <1>2 DEF IInv

LEMMA LoadPageKeeps ==
    ASSUME IInv, LoadPage
    PROVE  IInv'
  <1>1. TypeOK' /\ SignIn'
    BY LoadsTypes, FaultIs DEF IInv, LoadPage
  <1>2. DataInv'
    BY Reloaded DEF IInv, LoadPage, Loads, Fault
  <1> QED  BY <1>1, <1>2 DEF IInv

-----------------------------------------------------------------------------
(* Creating a session.                                                     *)

\* Nothing is on its way from or to a session that did not exist.
LEMMA Committed ==
    ASSUME TypeOK, DataInv, NEW s \in Unborn, NEW body \in Data, NEW hooks,
           \A f \in Fields : Has(f, body[f]),
           Commits(s, body, hooks), creating' \in {creating, NotCreating},
           UNCHANGED <<pend, puts, tokens, astray>>,
           shared = NoSession \/ \A h \in Hooks : In(pend[h]) = {}
    PROVE  DataInv' /\ RowType' /\ QueryType'
  <1> USE DEF Commits
  <1>1. s \in Sessions /\ srv[s] = NoRow /\ srv' = [srv EXCEPT ![s] = body]
        /\ shared' = s /\ cache' = body /\ view' = "ready" /\ got' = NoGet
        /\ backup' \in {NoData, body}
    BY DEF Unborn
  <1>2. /\ \A x \in Sessions : srv'[x] = IF x = s THEN body ELSE srv[x]
        /\ srv' \in [Sessions -> Data \cup {NoRow, Gone}]
    BY <1>1 DEF TypeOK
  <1>3. s # NoSession /\ s \in 0..MaxSessions
    BY <1>1, SessionAssumption DEF Sessions, NoSession
  <1>4. RowType' /\ QueryType'
    BY <1>1, <1>2, <1>3, Marks DEF RowType, QueryType
  <1>5. \A h \in Hooks : \A f \in In(pend[h]) :
          pend[h][f].of \in Sessions /\ srv[pend[h][f].of] # NoRow
    <2> SUFFICES ASSUME NEW h \in Hooks, NEW f \in In(pend[h])
                 PROVE  pend[h][f].of \in Sessions /\ srv[pend[h][f].of] # NoRow
      OBVIOUS
    <2>1. f \in Fields /\ pend[h] \in Updates
      BY DEF TypeOK, In
    <2>2. pend[h][f] \in Values
      BY <2>1, InIs
    <2>3. pend[h][f].of # NoSession /\ srv[pend[h][f].of] # NoRow
      BY DEF DataInv, Origins
    <2> QED  BY <2>2, <2>3 DEF Values, Sessions, NoSession
  <1>6. \A p \in puts : p.to \in Sessions /\ srv[p.to] # NoRow
    BY DEF DataInv, Origins, TypeOK
  <1>7. Known'
    <2> SUFFICES ASSUME NEW f \in Fields, NEW x \in Values, Has(f, x)'
                 PROVE  Has(f, x)
      BY KnownShrinks DEF DataInv
    <2>1. CASE x = body[f]
      BY <2>1
    <2>2. CASE x # body[f]
      <3>1. NoData[f] # x
        BY Marks DEF NoData, NoUpdates
      <3>2. creating'.body[f] = x => creating.body[f] = x
        BY <3>1 DEF NotCreating
      <3>3. (\E y \in Sessions : srv'[y] \in Data /\ srv'[y][f] = x)
              => \E y \in Sessions : srv[y] \in Data /\ srv[y][f] = x
        BY <1>2, <2>2
      <3> QED  BY <1>1, <2>2, <3>1, <3>2, <3>3, Marks DEF Has
    <2> QED  BY <2>1, <2>2
  <1>8. Identity'
    BY <1>1, <1>2, <1>3, Marks DEF Identity
  <1>9. Origins'
    <2>1. \A x \in Sessions : srv[x] # NoRow => srv'[x] # NoRow
      BY <1>2, Marks
    <2> QED  BY <2>1, <1>5, <1>6 DEF DataInv, Origins
  <1>10. OwnUpdates'
    <2> SUFFICES ASSUME \A x \in Sessions : srv'[x] # Gone
                 PROVE  /\ \A h \in Hooks : \A f \in In(pend[h]) : pend[h][f].of = s
                        /\ \A p \in puts : \A f \in In(p.u) : p.u[f].of = p.to
      BY <1>1 DEF OwnUpdates
    <2>1. \A x \in Sessions : srv[x] # Gone
      BY <1>1, <1>2, Marks
    <2>2. \A h \in Hooks : \A f \in In(pend[h]) : FALSE
      BY <2>1, <1>5, <1>3 DEF DataInv, OwnUpdates, NoSession, Sessions
    <2> QED  BY <2>1, <2>2 DEF DataInv, OwnUpdates
  <1>11. Reading'
    BY <1>1, Marks DEF Reading
  <1>12. Leads'
    <2>1. \A h \in Hooks : Behind(pend[h])'
      BY <1>1, <1>5 DEF Behind
    <2>2. \A p \in puts : p.to # shared'
      BY <1>1, <1>6
    <2>3. srv'[shared'] = cache'
      BY <1>1, <1>2
    <2>4. Behind(srv[shared])'
      <3> SUFFICES ASSUME NEW f \in In(body) PROVE body[f].n <= body[f].n
        BY <2>3, <1>1 DEF Behind
      <3>1. body[f].n \in Nat
        BY DEF In, Data, Values
      <3> QED  BY <3>1
    <2> QED  BY <2>1, <2>2, <2>4 DEF Leads
  <1>13. Agreement'
    BY <1>1, <1>2 DEF Agreement
  <1> QED  BY <1>4, <1>7, <1>8, <1>9, <1>10, <1>11, <1>12, <1>13 DEF DataInv, Seen

LEMMA LoginCreatesKeeps ==
    ASSUME IInv, LoginCreates
    PROVE  IInv'
  <1>1. Types
    BY TypeOKIs DEF IInv
  <1>2. mounted = {} /\ page = "login" /\ \A h \in Hooks : In(pend[h]) = {}
    BY <1>1 DEF IInv, SignIn, LoginCreates, Types, HookType
  <1>3. PICK s \in Unborn : Commits(s, Body(backup), {})
    BY DEF LoginCreates
  <1>4. backup \in Data \cup {NoData}
    BY <1>1 DEF Types, QueryType
  <1>5. Body(backup) \in Data /\ \A f \in Fields : Has(f, Body(backup)[f])
    BY <1>4, BodyIsData DEF Has
  <1>6. DataInv' /\ RowType' /\ QueryType'
    BY <1>2, <1>3, <1>5, Committed DEF IInv, LoginCreates, count
  <1>7. HookType' /\ PutType' /\ CreateType' /\ CountType'
    BY <1>1 DEF Types, HookType, PutType, CreateType, CountType, LoginCreates, count
  <1>8. SignType'
    BY SettlesIs DEF SignType, LoginCreates
  <1>9. SignIn'
    BY <1>2, SettlesIs DEF IInv, SignIn, LoginCreates
  <1> QED  BY <1>6, <1>7, <1>8, <1>9, TypeOKIsNext DEF IInv, Types

LEMMA CreateAnswersKeeps ==
    ASSUME IInv, CreateAnswers
    PROVE  IInv'
  <1>1. Types
    BY TypeOKIs DEF IInv
  <1>2. creating.on /\ shared = NoSession /\ auth.login = "no" /\ ~auth.boot
    BY DEF IInv, SignIn, CreateAnswers
  <1>3. PICK s \in Unborn : Commits(s, creating.body, mounted)
    BY DEF CreateAnswers
  <1>4. creating.body \in Data /\ \A f \in Fields : Has(f, creating.body[f])
    BY <1>1 DEF Types, CreateType, CreateAnswers, Has
  <1>5. DataInv' /\ RowType' /\ QueryType'
    BY <1>2, <1>3, <1>4, Committed DEF IInv, CreateAnswers, count
  <1>6. HookType' /\ PutType' /\ SignType' /\ CreateType' /\ CountType'
    BY <1>1 DEF Types, HookType, PutType, SignType, CreateType, CountType, CreateAnswers, count, NotCreating
  <1>7. SignIn'
    BY <1>2 DEF IInv, SignIn, CreateAnswers, NotCreating
  <1> QED  BY <1>5, <1>6, <1>7, TypeOKIsNext DEF IInv, Types

LEMMA CreateFailsKeeps ==
    ASSUME IInv, CreateFails
    PROVE  IInv'
  <1>1. Types
    BY TypeOKIs DEF IInv
  <1>2. creating' = NotCreating /\ tokens' = tokens /\ faults' \in 0..MaxFaults
        /\ UNCHANGED <<srv, shared, query, backup, pend, mounted, auth, page, stuck, puts, astray>>
    BY FaultIs DEF CreateFails, CreateSettles, IInv
  <1>3. Types'
    BY <1>1, <1>2 DEF Types, RowType, QueryType, HookType, PutType, SignType, CreateType, CountType,
                      NotCreating, query
  <1>4. SignIn'
    BY <1>2 DEF IInv, SignIn, NotCreating
  <1>5. Known'
    <2>1. \A f \in Fields : \A x \in Values : NoData[f] # x
      BY Marks DEF NoData, NoUpdates
    <2> QED  BY <1>2, <2>1, KnownShrinks DEF IInv, DataInv, Has, NotCreating, query
  <1>6. Identity' /\ Origins' /\ OwnUpdates'
    BY <1>2 DEF IInv, DataInv, query, Identity, Origins, OwnUpdates
  <1>7. Seen'
    BY <1>2 DEF IInv, DataInv, query, Seen, Reading, Leads, Agreement, Behind, Live, Coming
  <1> QED  BY <1>3, <1>4, <1>5, <1>6, <1>7, TypeOKIsNext DEF IInv, DataInv

LEMMA CreateKeeps ==
    ASSUME IInv, Create
    PROVE  IInv'
  <1>1. Types
    BY TypeOKIs DEF IInv
  <1>2. /\ auth.status = "authenticated" /\ ~auth.boot /\ auth.login = "no"
        /\ mounted # {} /\ page # "login" /\ ~creating.on
    BY DEF IInv, SignIn, Create
  <1>3. view # "ready" /\ got \notin Data
    BY <1>1, Marks DEF Create, IInv, DataInv, Identity, Types, QueryType
  <1>4. /\ shared' = NoSession /\ view' # "ready" /\ got' \notin Data
        /\ cache' = NoData /\ backup' \in {backup, NoData}
        /\ creating' = [on |-> TRUE, body |-> Body(backup')]
        /\ UNCHANGED <<srv, pend, mounted, auth, page, stuck, puts, tokens, faults, astray>>
    BY <1>1, <1>3, Marks DEF Create, Clears, query, count, Types, QueryType
  <1>5. backup' \in Data \cup {NoData}
    BY <1>1, <1>4 DEF Types, QueryType
  <1>6. Body(backup') \in Data
        /\ \A f \in Fields : Body(backup')[f] = Default \/ Body(backup')[f] = backup'[f]
    BY <1>5, BodyIsData
  <1>7. QueryType'
    <2>1. CASE view = "missing"
      BY <2>1, <1>5, Marks, SessionAssumption DEF Create, Clears, QueryType, NoSession, IInv, DataInv, Identity
    <2>2. CASE view # "missing"
      BY <2>2, <1>1 DEF Create, query, Types, QueryType
    <2> QED  BY <2>1, <2>2
  <1>8. Types'
    BY <1>1, <1>4, <1>6, <1>7 DEF Types, RowType, HookType, PutType, SignType, CreateType, CountType
  <1>9. SignIn'
    BY <1>2, <1>4 DEF IInv, SignIn
  <1>10. Known'
    <2>1. \A f \in Fields : \A x \in Values : NoData[f] # x
      BY Marks DEF NoData, NoUpdates
    <2> SUFFICES ASSUME NEW f \in Fields, NEW x \in Values, Has(f, x)'
                 PROVE  Has(f, x)
      BY <1>4, KnownShrinks DEF IInv, DataInv
    <2>2. backup'[f] = x => backup[f] = x
      BY <1>4, <2>1
    <2>3. creating'.body[f] = x => x = Default \/ backup[f] = x
      BY <1>4, <1>6, <2>2
    <2> QED  BY <1>4, <2>1, <2>2, <2>3 DEF Has
  <1>11. Identity'
    <2>1. (view' = "off" /\ got' = NoGet) \/ (shared = NoSession /\ view' = view /\ got' = got)
      BY DEF Create, Clears, query
    <2> QED  BY <1>1, <1>4, <2>1, Marks DEF Types, QueryType, IInv, DataInv, Identity
  <1>12. Origins'
    BY <1>4 DEF IInv, DataInv, Origins
  <1>13. OwnUpdates'
    <2>1. CASE view = "missing"
      <3>1. srv[shared] = Gone /\ shared # NoSession
        BY <2>1 DEF IInv, DataInv, Identity
      <3>2. shared \in Sessions
        BY <3>1, <1>1 DEF Types, QueryType, Sessions, NoSession
      <3> QED  BY <3>1, <3>2, <1>4 DEF OwnUpdates
    <2>2. CASE view # "missing"
      BY <2>2, <1>4 DEF Create, IInv, DataInv, OwnUpdates
    <2> QED  BY <2>1, <2>2
  <1>14. Seen'
    BY <1>4, Unseen
  <1> QED  BY <1>8, <1>9, <1>10, <1>11, <1>12, <1>13, <1>14, TypeOKIsNext DEF IInv, DataInv

-----------------------------------------------------------------------------
(* Reading.                                                                *)

\* Only the query changes, and it has neither data nor an answer after it.
LEMMA Emptied ==
    ASSUME DataInv, TypeOK, UNCHANGED <<srv, shared, pend, creating, puts, tokens, astray>>,
           cache' \in {cache, NoData}, backup' \in {backup, cache}, got' \notin Data,
           got' = Gone => got = Gone,
           view' # "ready", view' = "missing" => view = "missing", view' # "off" => shared # NoSession
    PROVE  DataInv'
  <1>1. Known'
    <2>1. \A f \in Fields : \A x \in Values : NoData[f] # x
      BY Marks DEF NoData, NoUpdates
    <2> SUFFICES ASSUME NEW f \in Fields, NEW x \in Values, Has(f, x)'
                 PROVE  Has(f, x)
      BY KnownShrinks DEF DataInv
    <2>2. (cache'[f] = x => cache[f] = x) /\ (backup'[f] = x => backup[f] = x \/ cache[f] = x)
      BY <2>1
    <2> QED  BY <2>2 DEF Has
  <1>2. Identity' /\ Origins' /\ OwnUpdates'
    BY DEF DataInv, Identity, Origins, OwnUpdates
  <1>3. Seen'
    BY Unseen
  <1> QED  BY <1>1, <1>2, <1>3 DEF DataInv

\* Or its data stay.
LEMMA SameQuery ==
    ASSUME DataInv, UNCHANGED <<srv, shared, query, pend, creating, puts, tokens, astray>>,
           backup' \in {backup, cache}
    PROVE  DataInv'
  <1>1. Known'
    <2> SUFFICES ASSUME NEW f \in Fields, NEW x \in Values, Has(f, x)'
                 PROVE  Has(f, x)
      BY KnownShrinks DEF DataInv
    <2>1. backup'[f] = x => backup[f] = x \/ cache[f] = x
      OBVIOUS
    <2> QED  BY <2>1 DEF Has, query
  <1>2. Identity' /\ Origins' /\ OwnUpdates'
    BY DEF DataInv, query, Identity, Origins, OwnUpdates
  <1>3. Seen'
    BY DEF DataInv, query, Seen, Reading, Leads, Agreement, Behind, Live, Coming
  <1> QED  BY <1>1, <1>2, <1>3 DEF DataInv

LEMMA MountKeeps ==
    ASSUME IInv, NEW h \in Hooks, Mount(h)
    PROVE  IInv'
  <1>1. Types
    BY TypeOKIs DEF IInv
  <1>2. backup' \in {backup, cache} /\ cache' = cache /\ page = "app"
        /\ UNCHANGED <<srv, shared, cache, pend, creating, auth, page, stuck, puts, tokens, faults, astray>>
    BY DEF Mount, count
  <1>3. HookType'
    BY <1>1, <1>2 DEF Types, HookType, Mount
  <1>4. RowType' /\ PutType' /\ SignType' /\ CreateType' /\ CountType'
    BY <1>1, <1>2 DEF Types, RowType, PutType, SignType, CreateType, CountType
  <1>5. QueryType'
    BY <1>1, <1>2, Marks DEF Types, QueryType, Mount
  <1>6. SignIn'
    BY <1>2 DEF IInv, SignIn
  <1>7. DataInv'
    <2>1. CASE shared # NoSession /\ view \in {"off", "failed"}
      BY <2>1, <1>2, Emptied, Marks DEF IInv, Mount
    <2>2. CASE ~(shared # NoSession /\ view \in {"off", "failed"})
      BY <2>2, <1>2, SameQuery DEF IInv, Mount, query
    <2> QED  BY <2>1, <2>2
  <1> QED  BY <1>3, <1>4, <1>5, <1>6, <1>7, TypeOKIsNext DEF IInv, Types

LEMMA UnmountKeeps ==
    ASSUME IInv, NEW h \in Hooks, Unmount(h)
    PROVE  IInv'
  <1>1. Types
    BY TypeOKIs DEF IInv
  <1>2. pend' = [g \in Hooks |-> IF g \in {h} THEN NoUpdates ELSE pend[g]]
    BY <1>1 DEF Unmount, Types, HookType
  <1>3. astray' = astray \cup UNION {In(pend[g]) : g \in {h}}
    BY DEF Unmount
  <1>4. DataInv'
    BY <1>2, <1>3, Forgotten DEF IInv, Unmount, count
  <1>5. HookType'
    BY <1>1, <1>2, Marks DEF Types, HookType, Unmount
  <1>6. CountType'
    BY <1>1 DEF Types, CountType, Unmount, count, In
  <1>7. RowType' /\ QueryType' /\ PutType' /\ SignType' /\ CreateType'
    BY <1>1 DEF Types, RowType, QueryType, PutType, SignType, CreateType, Unmount, query
  <1>8. SignIn'
    BY DEF IInv, SignIn, Unmount
  <1> QED  BY <1>4, <1>5, <1>6, <1>7, <1>8, TypeOKIsNext DEF IInv, Types

LEMMA GetFailsKeeps ==
    ASSUME IInv, GetFails
    PROVE  IInv'
  <1>1. Types
    BY TypeOKIs DEF IInv
  <1>2. tokens' = tokens /\ faults' \in 0..MaxFaults /\ got # NoGet /\ got' = NoGet /\ view' = "failed"
        /\ UNCHANGED <<srv, shared, cache, backup, pend, mounted, creating, auth, page, stuck, puts, astray>>
    BY FaultIs DEF IInv, GetFails
  <1>3. view = "loading" /\ cache = NoData
    BY <1>1, <1>2 DEF Types, QueryType
  <1>4. QueryType'
    BY <1>1, <1>2, <1>3 DEF Types, QueryType
  <1>5. RowType' /\ HookType' /\ PutType' /\ SignType' /\ CreateType' /\ CountType'
    BY <1>1, <1>2 DEF Types, RowType, HookType, PutType, SignType, CreateType, CountType
  <1>6. SignIn'
    BY <1>2 DEF IInv, SignIn
  <1>7. DataInv'
    BY <1>2, <1>3, Emptied, Marks DEF IInv, DataInv, Identity
  <1> QED  BY <1>4, <1>5, <1>6, <1>7, TypeOKIsNext DEF IInv, Types

LEMMA TrimKeeps ==
    ASSUME IInv, Trim
    PROVE  IInv'
  <1>1. Types
    BY TypeOKIs DEF IInv
  <1>2. tokens' = tokens /\ faults' \in 0..MaxFaults /\ view = "ready" /\ cache' = NoData
        /\ view' \in {"off", "detached"}
        /\ UNCHANGED <<srv, shared, got, backup, pend, mounted, creating, auth, page, stuck, puts, astray>>
    BY FaultIs DEF IInv, Trim
  <1>3. got = NoGet
    BY <1>1, <1>2 DEF Types, QueryType
  <1>4. QueryType'
    BY <1>1, <1>2, <1>3 DEF Types, QueryType
  <1>5. RowType' /\ HookType' /\ PutType' /\ SignType' /\ CreateType' /\ CountType'
    BY <1>1, <1>2 DEF Types, RowType, HookType, PutType, SignType, CreateType, CountType
  <1>6. SignIn'
    BY <1>2 DEF IInv, SignIn
  <1>7. DataInv'
    BY <1>2, <1>3, Emptied, Marks DEF IInv, DataInv, Identity
  <1> QED  BY <1>4, <1>5, <1>6, <1>7, TypeOKIsNext DEF IInv, Types

LEMMA RerenderKeeps ==
    ASSUME IInv, Rerender
    PROVE  IInv'
  <1>1. Types
    BY TypeOKIs DEF IInv
  <1>2. view = "detached" /\ view' = "loading" /\ got' = Asked
        /\ UNCHANGED <<srv, shared, cache, backup, pend, mounted, creating, auth, page, stuck, puts,
                       tokens, faults, astray>>
    BY DEF Rerender, Renders, count
  <1>3. QueryType'
    BY <1>1, <1>2, Marks DEF Types, QueryType
  <1>4. RowType' /\ HookType' /\ PutType' /\ SignType' /\ CreateType' /\ CountType'
    BY <1>1, <1>2 DEF Types, RowType, HookType, PutType, SignType, CreateType, CountType
  <1>5. SignIn'
    BY <1>2 DEF IInv, SignIn
  <1>6. DataInv'
    BY <1>2, Emptied, Marks DEF IInv, DataInv, Identity
  <1> QED  BY <1>3, <1>4, <1>5, <1>6, TypeOKIsNext DEF IInv, Types

\* The row is read; what is on its way is noted as missing.
LEMMA ServeGetKeeps ==
    ASSUME IInv, ServeGet
    PROVE  IInv'
  <1>1. Types
    BY TypeOKIs DEF IInv
  <1>2. view = "loading" /\ cache = NoData
    BY <1>1, Marks DEF Types, QueryType, ServeGet
  <1>3. shared \in Sessions /\ srv[shared] \in Data \cup {Gone}
    BY <1>1, <1>2 DEF Types, QueryType, RowType, IInv, DataInv, Identity, Sessions, NoSession
  <1>4. Coming \subseteq Fields
    <2>1. \A u : In(u) \subseteq Fields
      BY DEF In
    <2> QED  BY <2>1 DEF Coming
  <1>5. QueryType'
    BY <1>1, <1>2, <1>3, Marks DEF Types, QueryType, ServeGet
  <1>6. RowType' /\ HookType' /\ PutType' /\ SignType' /\ CreateType' /\ CountType'
    BY <1>1, <1>4 DEF Types, RowType, HookType, PutType, SignType, CreateType, CountType, ServeGet, count
  <1>7. SignIn'
    BY DEF IInv, SignIn, ServeGet
  <1>8. Known'
    <2> SUFFICES ASSUME NEW f \in Fields, NEW x \in Values, Has(f, x)'
                 PROVE  Has(f, x)
      BY KnownShrinks DEF IInv, DataInv, ServeGet, count
    <2>1. got' \in Data /\ got'[f] = x => \E s \in Sessions : srv[s] \in Data /\ srv[s][f] = x
      BY <1>3 DEF ServeGet
    <2> QED  BY <2>1 DEF Has, ServeGet
  <1>9. Identity' /\ OwnUpdates'
    BY DEF IInv, DataInv, Identity, OwnUpdates, ServeGet
  <1>10. Origins'
    BY DEF IInv, DataInv, Origins, ServeGet
  <1>11. Reading'
    <2>1. Coming' \subseteq astray'
      BY DEF Coming, ServeGet
    <2>2. got' = srv'[shared']
      BY DEF ServeGet
    <2> QED  BY <2>1, <2>2 DEF Reading
  <1>12. Leads' /\ Agreement'
    BY <1>2 DEF Leads, Agreement, ServeGet
  <1> QED  BY <1>5, <1>6, <1>7, <1>8, <1>9, <1>10, <1>11, <1>12, TypeOKIsNext DEF IInv, DataInv, Seen, Types

LEMMA AnswerGetKeeps ==
    ASSUME IInv, AnswerGet
    PROVE  IInv'
  <1>1. Types
    BY TypeOKIs DEF IInv
  <1>2. view = "loading" /\ cache = NoData /\ got \in Data \cup {Gone} /\ shared # NoSession
    BY <1>1 DEF Types, QueryType, AnswerGet, IInv, DataInv, Identity
  <1>3. QueryType'
    BY <1>1, <1>2, Marks DEF Types, QueryType, AnswerGet
  <1>4. RowType' /\ HookType' /\ PutType' /\ SignType' /\ CreateType' /\ CountType'
    BY <1>1 DEF Types, RowType, HookType, PutType, SignType, CreateType, CountType, AnswerGet, count
  <1>5. SignIn'
    BY DEF IInv, SignIn, AnswerGet
  <1>6. Known'
    <2> SUFFICES ASSUME NEW f \in Fields, NEW x \in Values, Has(f, x)'
                 PROVE  Has(f, x)
      BY KnownShrinks DEF IInv, DataInv, AnswerGet, count
    <2>1. got' \notin Data
      BY Marks DEF AnswerGet
    <2>2. cache' \in {cache} \/ (got \in Data /\ cache' = got)
      BY <1>2 DEF AnswerGet
    <2>3. backup' \in {backup} \/ (got \in Data /\ backup' = got)
      BY <1>2 DEF AnswerGet
    <2> QED  BY <2>1, <2>2, <2>3 DEF Has, AnswerGet
  <1>7. Identity'
    BY <1>2, Marks DEF IInv, DataInv, Identity, AnswerGet
  <1>8. Origins' /\ OwnUpdates'
    BY DEF IInv, DataInv, Origins, OwnUpdates, AnswerGet
  <1>9. Reading'
    BY Marks DEF Reading, AnswerGet
  <1>10. CASE got = Gone
    <2>1. Leads' /\ Agreement'
      BY <1>10 DEF Leads, Agreement, AnswerGet
    <2> QED  BY <2>1, <1>3, <1>4, <1>5, <1>6, <1>7, <1>8, <1>9, TypeOKIsNext DEF IInv, DataInv, Seen, Types
  <1>11. CASE got # Gone
    <2>1. got \in Data /\ cache' = got /\ UNCHANGED <<srv, shared, pend, puts, astray>>
      BY <1>2, <1>11 DEF AnswerGet
    <2>2. /\ \A h \in Hooks : In(pend[h]) \subseteq astray
          /\ \A p \in puts : In(p.u) \subseteq astray
          /\ Live(shared) => \A f \in Fields \ astray : got[f] = srv[shared][f]
      <3>1. Coming \subseteq astray
        BY <2>1 DEF IInv, DataInv, Seen, Reading
      <3>2. \A h \in Hooks : In(pend[h]) \subseteq astray
        BY <3>1 DEF Coming
      <3>3. \A p \in puts : In(p.u) \subseteq astray
        BY <3>1 DEF Coming
      <3> QED  BY <2>1, <3>2, <3>3 DEF IInv, DataInv, Seen, Reading
    <2>3. \A h \in Hooks : Behind(pend[h])'
      BY <2>1, <2>2 DEF Behind
    <2>4. \A p \in puts : Behind(p.u)'
      BY <2>1, <2>2 DEF Behind
    <2>5. ASSUME Live(shared)'  PROVE Behind(srv[shared])'
      <3> SUFFICES ASSUME NEW f \in In(srv[shared]) \ astray
                   PROVE  srv[shared][f].n <= got[f].n
        BY <2>1 DEF Behind
      <3>1. f \in Fields
        BY DEF In
      <3>2. got[f] = srv[shared][f]
        BY <3>1, <2>1, <2>2, <2>5 DEF Live
      <3>3. got[f].n \in Nat
        BY <3>1, <2>1 DEF Data, Values
      <3> QED  BY <3>2, <3>3
    <2>6. Leads'
      BY <2>1, <2>3, <2>4, <2>5 DEF Leads
    <2>7. Agreement'
      BY <2>1, <2>2 DEF Agreement, Live
    <2> QED  BY <2>6, <2>7, <1>3, <1>4, <1>5, <1>6, <1>7, <1>8, <1>9, TypeOKIsNext DEF IInv, DataInv, Seen, Types
  <1> QED  BY <1>10, <1>11

-----------------------------------------------------------------------------
(* Updating.                                                               *)

\* The new value has the highest number and is seen at once.
LEMMA UpdateKeeps ==
    ASSUME IInv, NEW h \in Hooks, NEW f \in Fields, Update(h, f)
    PROVE  IInv'
  <1> DEFINE v == Value(shared, tokens + 1)
  <1>1. Types
    BY TypeOKIs DEF IInv
  <1>2. tokens \in Nat /\ tokens + 1 \in 0..MaxTokens /\ tokens' = tokens + 1 /\ shared # NoSession
    BY <1>1, SessionAssumption
       DEF Update, Types, CountType, IInv, DataInv, Identity
  <1>3. v \in Values /\ v.of = shared /\ v.n = tokens + 1
    BY <1>1, <1>2 DEF Value, Values, Types, QueryType
  <1> HIDE DEF v
  <1>4. /\ h \in mounted /\ view \in {"ready", "detached"}
        /\ pend' = [pend EXCEPT ![h][f] = v]
        /\ cache' = Shown(cache, f, v)
        /\ backup' \in {backup, cache'}
        /\ UNCHANGED <<srv, shared, view, got, mounted, creating, auth, page, stuck, puts, faults, astray>>
    BY DEF Update, v
  <1>5. /\ pend' \in [Hooks -> Updates]
        /\ \A g \in Hooks : \A e \in Fields :
             pend'[g][e] = IF g = h /\ e = f THEN v ELSE pend[g][e]
        /\ \A g \in Hooks \ {h} : pend'[g] = pend[g]
    BY <1>1, <1>3, <1>4 DEF Types, HookType, Updates
  <1>6. \/ cache = NoData /\ cache' = NoData
        \/ /\ cache \in Data /\ cache' \in Data
           /\ \A e \in Fields : cache'[e] = IF e = f THEN v ELSE cache[e]
    BY <1>1, <1>3, <1>4, Marks DEF Shown, Types, QueryType, Data
  <1>7. got \notin Data
    BY <1>1, <1>4, Ready DEF IInv
  <1>8. HookType'
    <2>1. \A g \in Hooks \ mounted : g # h
      BY <1>4
    <2> QED  BY <1>1, <1>4, <1>5, <2>1 DEF Types, HookType
  <1>9. QueryType'
    BY <1>1, <1>4, <1>6, Marks DEF Types, QueryType
  <1>10. RowType' /\ PutType' /\ SignType' /\ CreateType' /\ CountType'
    BY <1>1, <1>2, <1>4 DEF Types, RowType, PutType, SignType, CreateType, CountType
  <1>11. SignIn'
    BY <1>4 DEF IInv, SignIn
  <1>12. \A e \in Fields : \A x \in Values : Has(e, x)' => Has(e, x) \/ (e = f /\ x = v)
    <2> SUFFICES ASSUME NEW e \in Fields, NEW x \in Values, Has(e, x)', ~(e = f /\ x = v)
                 PROVE  Has(e, x)
      OBVIOUS
    <2>1. NoData[e] # x
      BY Marks DEF NoData, NoUpdates
    <2>2. cache'[e] = x => cache[e] = x
      BY <1>6, <2>1
    <2>3. backup'[e] = x => backup[e] = x \/ cache[e] = x
      BY <1>4, <2>2
    <2>4. (\E g \in Hooks : pend'[g][e] = x) => \E g \in Hooks : pend[g][e] = x
      BY <1>5
    <2> QED  BY <2>2, <2>3, <2>4, <1>4 DEF Has
  <1>13. \A e \in Fields : \A x \in Values : Has(e, x) => x.n <= tokens
    BY DEF IInv, DataInv, Known
  <1>14. Known'
    <2> SUFFICES ASSUME NEW e \in Fields, NEW x \in Values, NEW y \in Values, Has(e, x)'
                 PROVE  x.n <= tokens' /\ (Has(e, y)' /\ x.n = y.n => x = y)
      BY DEF Known, Values, Data
    <2>1. x.n \in Nat /\ y.n \in Nat
      BY DEF Values
    <2>2. Has(e, x) \/ (e = f /\ x = v)
      BY <1>12
    <2>3. x.n <= tokens'
      BY <2>1, <2>2, <1>2, <1>3, <1>13
    <2>4. ASSUME Has(e, y)', x.n = y.n  PROVE x = y
      <3>1. Has(e, y) \/ (e = f /\ y = v)
        BY <1>12, <2>4
      <3>2. CASE Has(e, x) /\ Has(e, y)
        BY <3>2, <2>4 DEF IInv, DataInv, Known
      <3>3. CASE x = v
        <4>1. ~Has(e, y)
          BY <3>3, <2>1, <2>4, <1>2, <1>3, <1>13
        <4> QED  BY <4>1, <3>1, <3>3
      <3>4. CASE y = v
        <4>1. ~Has(e, x)
          BY <3>4, <2>1, <2>4, <1>2, <1>3, <1>13
        <4> QED  BY <4>1, <2>2, <3>4
      <3> QED  BY <3>1, <3>2, <3>3, <3>4, <2>2
    <2> QED  BY <2>3, <2>4
  <1>15. Identity'
    BY <1>4 DEF IInv, DataInv, Identity
  <1>16. \A g \in Hooks : \A e \in In(pend'[g]) :
           (g = h /\ e = f /\ pend'[g][e] = v) \/ (e \in In(pend[g]) /\ pend'[g][e] = pend[g][e])
    BY <1>5 DEF In
  <1>17. Origins'
    <2>1. \A g \in Hooks : \A e \in In(pend'[g]) :
            pend'[g][e].of # NoSession /\ srv[pend'[g][e].of] # NoRow
      <3> SUFFICES ASSUME NEW g \in Hooks, NEW e \in In(pend'[g])
                   PROVE  pend'[g][e].of # NoSession /\ srv[pend'[g][e].of] # NoRow
        OBVIOUS
      <3>1. CASE pend'[g][e] = v
        BY <3>1, <1>2, <1>3 DEF IInv, DataInv, Identity
      <3>2. CASE e \in In(pend[g]) /\ pend'[g][e] = pend[g][e]
        BY <3>2 DEF IInv, DataInv, Origins
      <3> QED  BY <3>1, <3>2, <1>16
    <2> QED  BY <2>1, <1>4 DEF IInv, DataInv, Origins
  <1>18. OwnUpdates'
    <2> SUFFICES ASSUME \A s \in Sessions : srv[s] # Gone
                 PROVE  /\ \A g \in Hooks : \A e \in In(pend'[g]) : pend'[g][e].of = shared
                        /\ \A p \in puts : \A e \in In(p.u) : p.u[e].of = p.to
      BY <1>4 DEF OwnUpdates
    <2>1. ASSUME NEW g \in Hooks, NEW e \in In(pend'[g])  PROVE pend'[g][e].of = shared
      <3>1. CASE pend'[g][e] = v
        BY <3>1, <1>3
      <3>2. CASE e \in In(pend[g]) /\ pend'[g][e] = pend[g][e]
        BY <3>2 DEF IInv, DataInv, OwnUpdates
      <3> QED  BY <3>1, <3>2, <1>16
    <2> QED  BY <2>1 DEF IInv, DataInv, OwnUpdates
  <1>19. Reading'
    BY <1>4, <1>7 DEF Reading
  <1>20. CASE view = "detached"
    <2>1. Leads' /\ Agreement'
      BY <1>20, <1>4 DEF Leads, Agreement
    <2> QED
      BY <2>1, <1>8, <1>9, <1>10, <1>11, <1>14, <1>15, <1>17, <1>18, <1>19, TypeOKIsNext
         DEF IInv, DataInv, Seen, Types
  <1>21. CASE view = "ready"
    <2>1. cache \in Data /\ cache' \in Data
          /\ \A e \in Fields : cache'[e] = IF e = f THEN v ELSE cache[e]
      BY <1>21, <1>6, Ready, Marks DEF IInv
    <2>2. \A u \in Updates : (\A e \in In(u) : Has(e, u[e])) /\ Behind(u) => Behind(u)'
      <3> SUFFICES ASSUME NEW u \in Updates, \A e \in In(u) : Has(e, u[e]), Behind(u),
                          NEW e \in In(u) \ astray, u[e].of = shared
                   PROVE  u[e].n <= cache'[e].n
        BY <1>4 DEF Behind
      <3>1. e \in Fields /\ u[e] \in Values
        BY InIs DEF In
      <3>2. u[e].n <= tokens /\ u[e].n \in Nat
        BY <3>1, <1>13 DEF Values
      <3>3. CASE e = f
        BY <3>2, <3>3, <1>2, <1>3, <2>1
      <3>4. CASE e # f
        BY <3>1, <3>4, <2>1 DEF Behind
      <3> QED  BY <3>3, <3>4
    <2>3. \A g \in Hooks : Behind(pend[g])'
      <3> SUFFICES ASSUME NEW g \in Hooks, NEW e \in In(pend'[g]) \ astray, pend'[g][e].of = shared
                   PROVE  pend'[g][e].n <= cache'[e].n
        BY <1>4 DEF Behind
      <3>1. e \in Fields
        BY DEF In
      <3>2. CASE g = h /\ e = f
        BY <3>2, <1>2, <1>3, <1>5, <2>1
      <3>3. CASE ~(g = h /\ e = f)
        <4>1. e \in In(pend[g]) /\ pend'[g][e] = pend[g][e]
          BY <3>1, <3>3, <1>5 DEF In
        <4>2. pend[g] \in Updates /\ (\A d \in In(pend[g]) : Has(d, pend[g][d])) /\ Behind(pend[g])
          BY <1>1, <1>21 DEF Types, HookType, Has, IInv, DataInv, Seen, Leads
        <4>3. Behind(pend[g]) /\ pend[g][e].n <= tokens /\ pend[g][e].n \in Nat
          BY <4>1, <4>2, <1>13, <3>1, InIs DEF Values
        <4>4. CASE e = f
          BY <4>1, <4>3, <4>4, <1>2, <1>3, <2>1
        <4>5. CASE e # f
          BY <4>1, <4>3, <4>5, <2>1, <3>1 DEF Behind
        <4> QED  BY <4>4, <4>5
      <3> QED  BY <3>2, <3>3
    <2>4. \A p \in puts : p.to = shared => Behind(p.u)'
      <3> SUFFICES ASSUME NEW p \in puts, p.to = shared  PROVE Behind(p.u)'
        OBVIOUS
      <3>1. p.u \in Updates /\ (\A e \in In(p.u) : Has(e, p.u[e])) /\ Behind(p.u)
        BY <1>1, <1>21 DEF Types, PutType, Has, IInv, DataInv, Seen, Leads
      <3> QED  BY <3>1, <2>2
    <2>5. ASSUME Live(shared)  PROVE Behind(srv[shared])'
      <3>1. srv[shared] \in Data /\ shared \in Sessions
        BY <2>5, <1>1, LiveIsData DEF IInv, Types, QueryType, Sessions, NoSession
      <3>2. srv[shared] \in Updates /\ (\A e \in In(srv[shared]) : Has(e, srv[shared][e]))
        BY <3>1, Marks DEF Has
      <3>3. Behind(srv[shared])
        BY <2>5, <1>21 DEF IInv, DataInv, Seen, Leads
      <3>4. Behind(srv[shared])' <=> \A e \in In(srv[shared]) \ astray :
              srv[shared][e].of = shared => srv[shared][e].n <= cache'[e].n
        BY <1>4 DEF Behind
      <3> QED  BY <3>2, <3>3, <3>4, <2>2, <1>4 DEF Behind
    <2>6. Leads'
      BY <2>3, <2>4, <2>5, <1>4 DEF Leads, Live
    <2>7. Agreement'
      <3> SUFFICES ASSUME Live(shared), NEW e \in Fields \ astray
                   PROVE  \/ srv[shared][e] = cache'[e]
                          \/ \E g \in Hooks : pend'[g][e] = cache'[e]
                          \/ \E p \in puts : p.to = shared /\ p.u[e] = cache'[e]
        BY <1>4 DEF Agreement, Live
      <3>1. CASE e = f
        BY <3>1, <1>5, <2>1
      <3>2. CASE e # f
        <4>1. cache'[e] = cache[e] /\ \A g \in Hooks : pend'[g][e] = pend[g][e]
          BY <3>2, <1>5, <2>1
        <4> QED  BY <4>1, <1>21 DEF IInv, DataInv, Seen, Agreement
      <3> QED  BY <3>1, <3>2
    <2> QED
      BY <2>6, <2>7, <1>8, <1>9, <1>10, <1>11, <1>14, <1>15, <1>17, <1>18, <1>19, TypeOKIsNext
         DEF IInv, DataInv, Seen, Types
  <1> QED  BY <1>4, <1>20, <1>21

\* What was waiting in a hook is on its way, or has no session to go to.
LEMMA FlushKeeps ==
    ASSUME IInv, NEW h \in Hooks, Flush(h)
    PROVE  IInv'
  <1> DEFINE q == [to |-> shared, u |-> pend[h]]
  <1>1. Types
    BY TypeOKIs DEF IInv
  <1>2. /\ puts' = IF shared = NoSession THEN puts ELSE puts \cup {q}
        /\ astray' = astray \cup {f \in In(pend[h]) : pend[h][f].of # shared}
        /\ pend' = [pend EXCEPT ![h] = NoUpdates]
        /\ UNCHANGED <<srv, shared, cache, backup, mounted, creating, auth, page, stuck, tokens, faults>>
    BY DEF Flush, count
  <1>3. pend[h] \in Updates /\ q.to = shared /\ q.u = pend[h]
    BY <1>1 DEF Types, HookType
  <1>4. shared # NoSession => shared \in Sessions /\ q \in [to : Sessions, u : Updates]
    BY <1>1, <1>3 DEF Types, QueryType, Sessions, NoSession
  <1> HIDE DEF q
  <1>5. /\ pend' \in [Hooks -> Updates] /\ In(pend'[h]) = {}
        /\ \A g \in Hooks \ {h} : pend'[g] = pend[g]
        /\ \A g \in Hooks : \A f \in In(pend'[g]) : f \in In(pend[g]) /\ pend'[g][f] = pend[g][f]
    BY <1>1, <1>2, Marks DEF Types, HookType
  <1>6. \A p \in puts' : p \in puts \/ (p = q /\ shared # NoSession)
    BY <1>2
  <1>7. \/ view = "detached" /\ view' = "loading" /\ got' = Asked /\ got = NoGet
        \/ view # "detached" /\ view' = view /\ got' = got
    BY <1>1 DEF Flush, Renders, Types, QueryType
  <1>8. QueryType' /\ RowType' /\ SignType' /\ CreateType'
    BY <1>1, <1>2, <1>7, Marks DEF Types, QueryType, RowType, SignType, CreateType
  <1>9. HookType'
    BY <1>1, <1>2, <1>5 DEF Types, HookType
  <1>10. PutType'
    BY <1>1, <1>4, <1>6 DEF Types, PutType
  <1>11. CountType'
    BY <1>1, <1>2 DEF Types, CountType, In
  <1>12. SignIn'
    BY <1>2 DEF IInv, SignIn
  <1>13. Known'
    <2> SUFFICES ASSUME NEW f \in Fields, NEW x \in Values, Has(f, x)'
                 PROVE  Has(f, x)
      BY <1>2, KnownShrinks DEF IInv, DataInv
    <2>1. NoUpdates[f] # x
      BY Marks DEF NoUpdates
    <2>2. (\E g \in Hooks : pend'[g][f] = x) => \E g \in Hooks : pend[g][f] = x
      BY <1>1, <1>2, <2>1 DEF Types, HookType
    <2>3. (\E p \in puts' : p.u[f] = x) => pend[h][f] = x \/ \E p \in puts : p.u[f] = x
      BY <1>3, <1>6
    <2>4. got' \in Data => got' = got
      BY <1>7, Marks
    <2> QED  BY <2>2, <2>3, <2>4, <1>2 DEF Has
  <1>14. Identity'
    BY <1>2, <1>7, Marks DEF IInv, DataInv, Identity
  <1>15. Origins'
    <2>1. \A g \in Hooks : \A f \in In(pend'[g]) : pend'[g][f].of # NoSession /\ srv[pend'[g][f].of] # NoRow
      <3> SUFFICES ASSUME NEW g \in Hooks, NEW f \in In(pend'[g])
                   PROVE  pend'[g][f].of # NoSession /\ srv[pend'[g][f].of] # NoRow
        OBVIOUS
      <3>1. f \in In(pend[g]) /\ pend'[g][f] = pend[g][f]
        BY <1>5
      <3> QED  BY <3>1 DEF IInv, DataInv, Origins
    <2>2. ASSUME NEW p \in puts'
          PROVE  srv[p.to] # NoRow /\ \A f \in In(p.u) : p.u[f].of = p.to \/ f \in astray'
      <3>1. CASE p \in puts
        BY <3>1, <1>2 DEF IInv, DataInv, Origins
      <3>2. CASE p = q /\ shared # NoSession
        BY <3>2, <1>2, <1>3 DEF IInv, DataInv, Identity
      <3> QED  BY <3>1, <3>2, <1>6
    <2> QED  BY <2>1, <2>2, <1>2 DEF Origins
  <1>16. OwnUpdates'
    <2> SUFFICES ASSUME \A s \in Sessions : srv[s] # Gone
                 PROVE  /\ \A g \in Hooks : \A f \in In(pend'[g]) : pend'[g][f].of = shared
                        /\ \A p \in puts' : \A f \in In(p.u) : p.u[f].of = p.to
      BY <1>2 DEF OwnUpdates
    <2>1. \A g \in Hooks : \A f \in In(pend[g]) : pend[g][f].of = shared
      BY DEF IInv, DataInv, OwnUpdates
    <2>2. \A g \in Hooks : \A f \in In(pend'[g]) : pend'[g][f].of = shared
      BY <2>1, <1>5
    <2>3. \A p \in puts' : \A f \in In(p.u) : p.u[f].of = p.to
      <3> SUFFICES ASSUME NEW p \in puts', NEW f \in In(p.u)  PROVE p.u[f].of = p.to
        OBVIOUS
      <3>1. CASE p \in puts
        BY <3>1 DEF IInv, DataInv, OwnUpdates
      <3>2. CASE p = q
        BY <3>2, <2>1, <1>3
      <3> QED  BY <3>1, <3>2, <1>6
    <2> QED  BY <2>2, <2>3
  <1>17. Reading'
    <2> SUFFICES ASSUME got \in Data, got' = got
                 PROVE  Coming' \subseteq astray /\ (Live(shared) => \A f \in Fields \ astray : got[f] = srv[shared][f])
      BY <1>2, <1>7, Marks DEF Reading, Live
    <2>1. Coming' \subseteq Coming
      <3> SUFFICES ASSUME NEW f \in Coming'  PROVE f \in Coming
        OBVIOUS
      <3>1. CASE \E g \in Hooks : f \in In(pend'[g])
        BY <3>1, <1>5 DEF Coming
      <3>2. CASE \E p \in puts' : f \in In(p.u)
        <4>1. PICK p \in puts' : f \in In(p.u)
          BY <3>2
        <4>2. CASE p \in puts
          BY <4>1, <4>2 DEF Coming
        <4>3. CASE p = q
          BY <4>1, <4>3, <1>3 DEF Coming
        <4> QED  BY <4>2, <4>3, <1>6
      <3> QED  BY <3>1, <3>2 DEF Coming
    <2> QED  BY <2>1 DEF IInv, DataInv, Seen, Reading
  <1>18. CASE view' # "ready"
    <2>1. Leads' /\ Agreement'
      BY <1>18 DEF Leads, Agreement
    <2> QED
      BY <2>1, <1>8, <1>9, <1>10, <1>11, <1>12, <1>13, <1>14, <1>15, <1>16, <1>17, TypeOKIsNext
         DEF IInv, DataInv, Seen, Types
  <1>19. CASE view' = "ready"
    <2>1. view = "ready"
      BY <1>7, <1>19
    <2>2. \A g \in Hooks : Behind(pend[g])
      BY <2>1 DEF IInv, DataInv, Seen, Leads
    <2>3. \A u : Behind(u) => \A f \in In(u) \ astray' : u[f].of = shared => u[f].n <= cache[f].n
      BY <1>2 DEF Behind
    <2>4. ASSUME NEW g \in Hooks  PROVE Behind(pend[g])'
      <3> SUFFICES ASSUME NEW f \in In(pend'[g]) \ astray', pend'[g][f].of = shared
                   PROVE  pend'[g][f].n <= cache[f].n
        BY <1>2 DEF Behind
      <3>1. f \in In(pend[g]) /\ pend'[g][f] = pend[g][f]
        BY <1>5
      <3>2. Behind(pend[g])
        BY <2>2
      <3> QED  BY <3>1, <3>2, <2>3
    <2>5. ASSUME NEW p \in puts', p.to = shared  PROVE Behind(p.u)'
      <3>1. Behind(p.u)
        <4>1. CASE p \in puts
          BY <4>1, <2>1, <2>5 DEF IInv, DataInv, Seen, Leads
        <4>2. CASE p = q
          BY <4>2, <1>3, <2>2
        <4> QED  BY <4>1, <4>2, <1>6
      <3> QED  BY <3>1, <2>3, <1>2 DEF Behind
    <2>6. ASSUME Live(shared)  PROVE Behind(srv[shared])'
      <3>1. Behind(srv[shared])
        BY <2>1, <2>6 DEF IInv, DataInv, Seen, Leads
      <3> QED  BY <3>1, <2>3, <1>2 DEF Behind
    <2>7. Leads'
      BY <2>4, <2>5, <2>6, <1>2 DEF Leads, Live
    <2>8. Agreement'
      <3> SUFFICES ASSUME Live(shared), NEW f \in Fields \ astray'
                   PROVE  \/ srv[shared][f] = cache[f]
                          \/ \E g \in Hooks : pend'[g][f] = cache[f]
                          \/ \E p \in puts' : p.to = shared /\ p.u[f] = cache[f]
        BY <1>2 DEF Agreement, Live
      <3>1. shared # NoSession /\ puts' = puts \cup {q}
        BY <1>2 DEF Live
      <3>2. \/ srv[shared][f] = cache[f]
            \/ \E g \in Hooks : pend[g][f] = cache[f]
            \/ \E p \in puts : p.to = shared /\ p.u[f] = cache[f]
        BY <2>1, <1>2 DEF IInv, DataInv, Seen, Agreement
      <3>3. CASE pend[h][f] = cache[f]
        BY <3>1, <3>3, <1>3
      <3>4. CASE \E g \in Hooks \ {h} : pend[g][f] = cache[f]
        BY <3>4, <1>5
      <3> QED  BY <3>1, <3>2, <3>3, <3>4
    <2> QED
      BY <2>7, <2>8, <1>8, <1>9, <1>10, <1>11, <1>12, <1>13, <1>14, <1>15, <1>16, <1>17, TypeOKIsNext
         DEF IInv, DataInv, Seen, Types
  <1> QED  BY <1>18, <1>19

\* An update that gets lost is noted.
LEMMA Dropped ==
    ASSUME TypeOK, DataInv, NEW p \in puts, puts' = puts \ {p},
           astray' = astray \cup In(p.u),
           UNCHANGED <<srv, shared, query, backup, pend, creating, tokens>>
    PROVE  DataInv'
  <1>1. astray \subseteq astray' /\ puts' \subseteq puts
    OBVIOUS
  <1>2. Known'
    BY KnownShrinks DEF DataInv, Has, query
  <1>3. Identity'
    BY DEF DataInv, Identity, query
  <1>4. Origins' /\ OwnUpdates'
    BY <1>1, Fewer DEF DataInv
  <1>5. Reading'
    <2>1. Coming' \subseteq Coming
      BY <1>1 DEF Coming
    <2> QED  BY <1>1, <2>1 DEF DataInv, query, Seen, Reading, Live
  <1>6. Leads'
    <2>1. \A u : Behind(u) => \A f \in In(u) \ astray' : u[f].of = shared => u[f].n <= cache[f].n
      BY <1>1 DEF Behind
    <2> QED  BY <1>1, <2>1 DEF DataInv, query, Seen, Leads, Behind, Live
  <1>7. Agreement'
    <2> SUFFICES ASSUME view = "ready", Live(shared), NEW f \in Fields \ astray'
                 PROVE  \/ srv[shared][f] = cache[f]
                        \/ \E h \in Hooks : pend[h][f] = cache[f]
                        \/ \E r \in puts' : r.to = shared /\ r.u[f] = cache[f]
      BY DEF Agreement, Live, query
    <2>1. cache[f] \in Values
      BY Ready DEF Data
    <2>2. p.u \in Updates /\ f \notin In(p.u)
      BY DEF TypeOK
    <2>3. p.u[f] # cache[f]
      BY <2>1, <2>2, InIs
    <2> QED  BY <2>3, <1>1 DEF DataInv, Seen, Agreement
  <1> QED  BY <1>2, <1>3, <1>4, <1>5, <1>6, <1>7 DEF DataInv, Seen

LEMMA LosePutKeeps ==
    ASSUME IInv, NEW p \in puts, LosePut(p)
    PROVE  IInv'
  <1>1. Types
    BY TypeOKIs DEF IInv
  <1>2. /\ tokens' = tokens /\ faults' \in 0..MaxFaults /\ puts' = puts \ {p}
        /\ astray' = astray \cup In(p.u) /\ UNCHANGED <<srv, client>>
    BY FaultIs DEF IInv, LosePut
  <1>3. Types'
    BY <1>1, <1>2 DEF Types, RowType, QueryType, HookType, PutType, SignType, CreateType, CountType,
                      client, query, In
  <1>4. SignIn'
    BY <1>2 DEF IInv, SignIn, client
  <1>5. DataInv'
    BY <1>2, Dropped DEF IInv, client
  <1> QED  BY <1>3, <1>4, <1>5, TypeOKIsNext DEF IInv

\* A session that expires stays known; the user sees no less.
LEMMA ExpireKeeps ==
    ASSUME IInv, NEW s \in Sessions, Expire(s)
    PROVE  IInv'
  <1>1. Types
    BY TypeOKIs DEF IInv
  <1>2. /\ tokens' = tokens /\ faults' \in 0..MaxFaults /\ srv' = [srv EXCEPT ![s] = Gone]
        /\ UNCHANGED <<client, puts, astray>>
    BY FaultIs DEF IInv, Expire
  <1>3. \A x \in Sessions : srv'[x] = IF x = s THEN Gone ELSE srv[x]
    BY <1>1, <1>2 DEF Types, RowType
  <1>4. Types'
    BY <1>1, <1>2 DEF Types, RowType, QueryType, HookType, PutType, SignType, CreateType, CountType,
                      client, query
  <1>5. SignIn'
    BY <1>2 DEF IInv, SignIn, client
  <1>6. \A x \in Sessions : /\ srv[x] # NoRow => srv'[x] # NoRow
                            /\ srv'[x] # Gone => srv'[x] = srv[x]
                            /\ srv[x] = Gone => srv'[x] = Gone
    BY <1>3, Marks
  <1>7. shared # NoSession => shared \in Sessions
    BY <1>1 DEF Types, QueryType, Sessions, NoSession
  <1>8. Known'
    <2>1. \A x \in Sessions : srv'[x] \in Data => srv'[x] = srv[x]
      BY <1>6, Marks
    <2> QED  BY <2>1, <1>2, KnownShrinks DEF IInv, DataInv, Has, client, query
  <1>9. Identity'
    <2>1. view = "missing" \/ got = Gone => shared # NoSession
      BY <1>1, Marks DEF IInv, DataInv, Identity, Types, QueryType
    <2> QED  BY <2>1, <1>2, <1>6, <1>7 DEF IInv, DataInv, Identity, client, query
  <1>10. Origins'
    <2>1. ASSUME NEW h \in Hooks, NEW f \in In(pend[h])
          PROVE  pend[h][f].of # NoSession /\ srv'[pend[h][f].of] # NoRow
      <3>1. f \in Fields /\ pend[h] \in Updates
        BY <1>1 DEF Types, HookType, In
      <3>2. pend[h][f] \in Values
        BY <3>1, InIs
      <3>3. pend[h][f].of # NoSession /\ srv[pend[h][f].of] # NoRow
        BY DEF IInv, DataInv, Origins
      <3>4. pend[h][f].of \in Sessions
        BY <3>2, <3>3 DEF Values, Sessions, NoSession
      <3> QED  BY <3>3, <3>4, <1>6
    <2>2. ASSUME NEW p \in puts  PROVE srv'[p.to] # NoRow
      <3>1. p.to \in Sessions /\ srv[p.to] # NoRow
        BY <1>1 DEF Types, PutType, IInv, DataInv, Origins
      <3> QED  BY <3>1, <1>6
    <2> QED  BY <2>1, <2>2, <1>2 DEF IInv, DataInv, Origins, client
  <1>11. OwnUpdates'
    BY <1>3 DEF OwnUpdates
  <1>12. Live(shared)' => Live(shared) /\ srv'[shared] = srv[shared]
    BY <1>2, <1>6, <1>7 DEF Live, client
  <1>13. Reading'
    BY <1>2, <1>12 DEF IInv, DataInv, Seen, Reading, Coming, client, query
  <1>14. Leads'
    BY <1>2, <1>12 DEF IInv, DataInv, Seen, Leads, Behind, client, query
  <1>15. Agreement'
    BY <1>2, <1>12 DEF IInv, DataInv, Seen, Agreement, client, query
  <1> QED
    BY <1>4, <1>5, <1>8, <1>9, <1>10, <1>11, <1>13, <1>14, <1>15, TypeOKIsNext DEF IInv, DataInv, Seen

\* A PUT that arrives too late changes the row of its session only: what it
\* overwrites that is newer is noted, and else the row gets what the user sees
\* or something older that is overwritten in its turn.
LEMMA ServeLivePut ==
    ASSUME IInv, NEW p \in puts, ServePut(p), Live(p.to)
    PROVE  IInv'
  <1> DEFINE row == srv[p.to]
             m == Merged(row, p.u)
  <1>1. Types
    BY TypeOKIs DEF IInv
  <1>2. p.to \in Sessions /\ p.u \in Updates /\ row \in Data
    BY <1>1, LiveIsData DEF Types, PutType, IInv
  <1>3. m \in Data /\ \A f \in Fields : m[f] = IF f \in In(p.u) THEN p.u[f] ELSE row[f]
    BY <1>2, MergedIsData
  <1>4. /\ puts' = puts \ {p} /\ astray' = astray \cup Overtaken(row, p.u)
        /\ srv' = [srv EXCEPT ![p.to] = m]
        /\ UNCHANGED <<shared, query, backup, pend, mounted, creating, auth, page, stuck, tokens, faults>>
    BY DEF ServePut, CacheAfter, query, count
  <1>5. \A s \in Sessions : srv'[s] = IF s = p.to THEN m ELSE srv[s]
    BY <1>1, <1>4 DEF Types, RowType
  <1>6. astray \subseteq astray' /\ puts' \subseteq puts
        /\ \A f \in In(p.u) \ astray' : ~(row[f].n > p.u[f].n)
    BY <1>4 DEF Overtaken
  <1> HIDE DEF row, m
  <1>7. row = srv[p.to]
    BY DEF row
  <1>8. \A s \in Sessions : /\ srv'[s] = NoRow <=> srv[s] = NoRow
                            /\ srv'[s] = Gone <=> srv[s] = Gone
    BY <1>2, <1>3, <1>5, <1>7, Marks
  <1>9. Types'
    <2>1. RowType'
      BY <1>1, <1>3, <1>4 DEF Types, RowType
    <2>2. PutType' /\ CountType'
      BY <1>1, <1>4 DEF Types, PutType, CountType, Overtaken, In
    <2>3. QueryType' /\ HookType' /\ SignType' /\ CreateType'
      BY <1>1, <1>4 DEF Types, QueryType, HookType, SignType, CreateType, query
    <2> QED  BY <2>1, <2>2, <2>3 DEF Types
  <1>10. SignIn'
    BY <1>4 DEF IInv, SignIn
  <1>11. Known'
    <2> SUFFICES ASSUME NEW f \in Fields, NEW x \in Values, Has(f, x)'
                 PROVE  Has(f, x)
      BY <1>4, KnownShrinks DEF IInv, DataInv
    <2>1. ASSUME NEW s \in Sessions, srv'[s] \in Data, srv'[s][f] = x  PROVE Has(f, x)
      <3>1. CASE s # p.to
        <4>1. srv[s] \in Data /\ srv[s][f] = x
          BY <2>1, <3>1, <1>5
        <4> QED  BY <4>1 DEF Has
      <3>2. CASE s = p.to
        <4>1. x = p.u[f] \/ x = row[f]
          BY <2>1, <3>2, <1>3, <1>5
        <4> QED  BY <4>1, <1>2, <1>7 DEF Has
      <3> QED  BY <3>1, <3>2
    <2> QED  BY <2>1, <1>4 DEF Has, query
  <1>12. Identity'
    <2>1. shared # NoSession => shared \in Sessions
      BY <1>1 DEF Types, QueryType, Sessions, NoSession
    <2>2. view = "missing" \/ got = Gone => shared # NoSession
      BY <1>1, Marks DEF IInv, DataInv, Identity, Types, QueryType
    <2> QED  BY <2>1, <2>2, <1>4, <1>8 DEF IInv, DataInv, Identity, query
  <1>13. Origins'
    <2>1. ASSUME NEW h \in Hooks, NEW f \in In(pend[h])
          PROVE  pend[h][f].of # NoSession /\ srv'[pend[h][f].of] # NoRow
      <3>1. f \in Fields /\ pend[h] \in Updates
        BY <1>1 DEF Types, HookType, In
      <3>2. pend[h][f] \in Values
        BY <3>1, InIs
      <3>3. pend[h][f].of # NoSession /\ srv[pend[h][f].of] # NoRow
        BY DEF IInv, DataInv, Origins
      <3>4. pend[h][f].of \in Sessions
        BY <3>2, <3>3 DEF Values, Sessions, NoSession
      <3> QED  BY <3>3, <3>4, <1>8
    <2>2. ASSUME NEW q \in puts  PROVE srv'[q.to] # NoRow
      <3>1. q.to \in Sessions /\ srv[q.to] # NoRow
        BY <1>1 DEF Types, PutType, IInv, DataInv, Origins
      <3> QED  BY <3>1, <1>8
    <2> QED  BY <2>1, <2>2, <1>4, <1>6 DEF IInv, DataInv, Origins
  <1>14. OwnUpdates'
    BY <1>4, <1>6, <1>8 DEF IInv, DataInv, OwnUpdates
  <1>15. \A f \in Fields \ astray' : f \in In(p.u) => p.u[f].of = p.to
    BY <1>6 DEF IInv, DataInv, Origins
  <1>16. CASE p.to # shared
    <2>1. Live(shared)' => Live(shared) /\ srv'[shared] = srv[shared]
      <3>1. shared # NoSession => shared \in Sessions
        BY <1>1 DEF Types, QueryType, Sessions, NoSession
      <3> QED  BY <3>1, <1>4, <1>5, <1>16 DEF Live
    <2>2. Coming' \subseteq Coming
      BY <1>4, <1>6 DEF Coming
    <2>3. Reading'
      BY <2>1, <2>2, <1>4, <1>6 DEF IInv, DataInv, Seen, Reading, query
    <2>4. \A u : Behind(u) => \A f \in In(u) \ astray' : u[f].of = shared => u[f].n <= cache[f].n
      BY <1>6 DEF Behind
    <2>5. Leads'
      BY <2>1, <2>4, <1>4, <1>6 DEF IInv, DataInv, Seen, Leads, Behind, query
    <2>6. Agreement'
      BY <2>1, <1>4, <1>6, <1>16 DEF IInv, DataInv, Seen, Agreement, query
    <2> QED
      BY <2>3, <2>5, <2>6, <1>9, <1>10, <1>11, <1>12, <1>13, <1>14, TypeOKIsNext DEF IInv, DataInv, Seen
  <1>17. CASE p.to = shared
    <2>1. Live(shared) /\ srv'[shared] = m /\ srv[shared] = row
      BY <1>2, <1>5, <1>7, <1>17
    <2>2. Reading'
      <3> SUFFICES ASSUME got \in Data
                   PROVE  Coming' \subseteq astray' /\ \A f \in Fields \ astray' : got[f] = m[f]
        BY <2>1, <1>4 DEF Reading, query
      <3>1. Coming \subseteq astray /\ \A f \in Fields \ astray : got[f] = row[f]
        BY <2>1 DEF IInv, DataInv, Seen, Reading
      <3>2. Coming' \subseteq Coming /\ In(p.u) \subseteq Coming
        BY <1>4, <1>6 DEF Coming
      <3> QED  BY <3>1, <3>2, <1>3, <1>6
    <2>3. ASSUME view = "ready"
          PROVE  /\ Behind(row) /\ Behind(p.u)
                 /\ \A h \in Hooks : Behind(pend[h])
                 /\ \A q \in puts : q.to = shared => Behind(q.u)
      BY <2>1, <2>3, <1>17 DEF IInv, DataInv, Seen, Leads
    <2>4. Leads'
      <3> SUFFICES ASSUME view = "ready"
                   PROVE  /\ \A h \in Hooks : Behind(pend[h])'
                          /\ \A q \in puts' : q.to = shared => Behind(q.u)'
                          /\ \A f \in Fields \ astray' : m[f].of = shared => m[f].n <= cache[f].n
        BY <2>1, <1>4 DEF Leads, Behind, query, In
      <3>1. \A u : Behind(u) => \A f \in In(u) \ astray' : u[f].of = shared => u[f].n <= cache[f].n
        BY <1>6 DEF Behind
      <3>2. \A h \in Hooks : Behind(pend[h])'
        BY <2>3, <3>1, <1>4 DEF Behind, query
      <3>3. \A q \in puts' : q.to = shared => Behind(q.u)'
        BY <2>3, <3>1, <1>4, <1>6 DEF Behind, query
      <3>4. \A f \in Fields \ astray' : m[f].of = shared => m[f].n <= cache[f].n
        <4> SUFFICES ASSUME NEW f \in Fields \ astray', m[f].of = shared
                     PROVE  m[f].n <= cache[f].n
          OBVIOUS
        <4>1. CASE f \in In(p.u)
          BY <4>1, <2>3, <3>1, <1>3
        <4>2. CASE f \notin In(p.u)
          <5>1. row \in Updates /\ row[f] \in Values /\ m[f] = row[f]
            BY <4>2, <1>2, <1>3, Marks DEF Data
          <5>2. f \in In(row)
            BY <5>1, InIs
          <5> QED  BY <5>1, <5>2, <2>3, <3>1
        <4> QED  BY <4>1, <4>2
      <3> QED  BY <3>2, <3>3, <3>4
    <2>5. Agreement'
      <3> SUFFICES ASSUME view = "ready", NEW f \in Fields \ astray'
                   PROVE  \/ m[f] = cache[f]
                          \/ \E h \in Hooks : pend[h][f] = cache[f]
                          \/ \E q \in puts' : q.to = shared /\ q.u[f] = cache[f]
        BY <2>1, <1>4 DEF Agreement, query
      <3>1. \/ row[f] = cache[f]
            \/ \E h \in Hooks : pend[h][f] = cache[f]
            \/ \E q \in puts : q.to = shared /\ q.u[f] = cache[f]
        BY <2>1, <1>6 DEF IInv, DataInv, Seen, Agreement
      <3>2. cache[f] \in Values /\ row[f] \in Values
        BY <1>2, Ready DEF IInv, Data
      <3>3. CASE row[f] = cache[f] /\ f \in In(p.u)
        <4>1. p.u[f] \in Values /\ p.u[f].of = shared
          BY <3>3, <1>2, <1>15, <1>17, InIs
        <4>2. p.u[f].n <= cache[f].n
          BY <4>1, <3>3, <2>3, <1>6 DEF Behind
        <4>3. ~(row[f].n > p.u[f].n)
          BY <3>3, <1>6
        <4>4. p.u[f].n = row[f].n
          BY <4>1, <4>2, <4>3, <3>2, <3>3, SessionAssumption DEF Values
        <4>5. Has(f, p.u[f]) /\ Has(f, row[f])
          BY <1>2, <1>7 DEF Has
        <4>6. p.u[f] = row[f]
          BY <4>1, <4>4, <4>5, <3>2 DEF IInv, DataInv, Known
        <4> QED  BY <4>6, <3>3, <1>3
      <3>4. CASE row[f] = cache[f] /\ f \notin In(p.u)
        BY <3>4, <1>3
      <3>5. CASE \E q \in puts : q.to = shared /\ q.u[f] = cache[f]
        <4>1. PICK q \in puts : q.to = shared /\ q.u[f] = cache[f]
          BY <3>5
        <4>2. CASE q = p
          <5>1. f \in In(p.u)
            BY <4>1, <4>2, <3>2, <1>2, InIs
          <5> QED  BY <5>1, <4>1, <4>2, <1>3
        <4>3. CASE q # p
          BY <4>1, <4>3, <1>4
        <4> QED  BY <4>2, <4>3
      <3> QED  BY <3>1, <3>3, <3>4, <3>5
    <2> QED
      BY <2>2, <2>4, <2>5, <1>9, <1>10, <1>11, <1>12, <1>13, <1>14, TypeOKIsNext DEF IInv, DataInv, Seen
  <1> QED  BY <1>16, <1>17

LEMMA ServePutKeeps ==
    ASSUME IInv, NEW p \in puts, ServePut(p)
    PROVE  IInv'
  <1>1. CASE Live(p.to)
    BY <1>1, ServeLivePut
  <1>2. CASE ~Live(p.to)
    <2>1. Types
      BY TypeOKIs DEF IInv
    <2>2. /\ puts' = puts \ {p} /\ astray' = astray \cup In(p.u)
          /\ UNCHANGED <<srv, client, tokens, faults>>
      BY <1>2 DEF ServePut, client, query, count
    <2>3. Types'
      BY <2>1, <2>2 DEF Types, RowType, QueryType, HookType, PutType, SignType, CreateType, CountType,
                        client, query, In
    <2>4. SignIn'
      BY <2>2 DEF IInv, SignIn, client
    <2>5. DataInv'
      BY <2>2, Dropped DEF IInv, client
    <2> QED  BY <2>3, <2>4, <2>5, TypeOKIsNext DEF IInv
  <1> QED  BY <1>1, <1>2

-----------------------------------------------------------------------------
(* The theorems.                                                           *)

LEMMA InitKeeps == Init => IInv
  <1> SUFFICES ASSUME Init  PROVE IInv
    OBVIOUS
  <1>1. TypeOK
    <2>1. RowType /\ PutType
      BY DEF Init, RowType, PutType
    <2>2. QueryType /\ CreateType
      BY Marks, SessionAssumption DEF Init, QueryType, CreateType, NoSession, NotCreating
    <2>3. HookType
      BY Marks DEF Init, HookType
    <2>4. SignType
      BY DEF Init, SignType, AuthStates
    <2>5. CountType
      <3>1. tokens \in 0..MaxTokens /\ faults \in 0..MaxFaults
        BY SessionAssumption DEF Init
      <3>2. astray \subseteq Fields /\ stuck \in BOOLEAN
        BY DEF Init
      <3> QED  BY <3>1, <3>2 DEF CountType
    <2> QED  BY <2>1, <2>2, <2>3, <2>4, <2>5, TypeOKIs DEF Types
  <1>2. SignIn
    BY DEF Init, SignIn, NotCreating
  <1>3. \A f \in Fields : \A x \in Values : Has(f, x) => x = Default
    <2> SUFFICES ASSUME NEW f \in Fields, NEW x \in Values, Has(f, x), x # Default
                 PROVE  FALSE
      OBVIOUS
    <2>1. NoUpdates[f] # x /\ NoData[f] # x
      BY Marks DEF NoData, NoUpdates
    <2>2. \A s \in Sessions : srv[s] \notin Data
      BY Marks DEF Init
    <2>3. got \notin Data
      BY Marks DEF Init
    <2> QED  BY <2>1, <2>2, <2>3 DEF Init, Has, NotCreating
  <1>4. Known
    BY <1>3 DEF Known, Init, Default, Value
  <1>5. Identity
    BY Marks DEF Init, Identity
  <1>6. Origins /\ OwnUpdates
    BY Marks DEF Init, Origins, OwnUpdates
  <1>7. Seen
    <2>1. got \notin Data /\ view # "ready"
      BY Marks DEF Init
    <2> QED  BY <2>1 DEF Seen, Reading, Leads, Agreement
  <1> QED  BY <1>1, <1>2, <1>4, <1>5, <1>6, <1>7 DEF IInv, DataInv

LEMMA StutterKeeps ==
    ASSUME IInv, UNCHANGED vars
    PROVE  IInv'
  <1>1. Types
    BY TypeOKIs DEF IInv
  <1>2. Types'
    BY <1>1 DEF Types, RowType, QueryType, HookType, PutType, SignType, CreateType, CountType,
                vars, client, query, count
  <1>3. SignIn'
    BY DEF IInv, SignIn, vars, client
  <1>4. DataInv'
    BY DataFrame DEF IInv, data, vars, client, count
  <1> QED  BY <1>2, <1>3, <1>4, TypeOKIsNext DEF IInv

LEMMA Inductive == IInv /\ [Next]_vars => IInv'
  <1> SUFFICES ASSUME IInv, [Next]_vars  PROVE IInv'
    OBVIOUS
  <1>1. CASE LoadPage \/ Leave
    BY <1>1, LoadPageKeeps, LeaveKeeps
  <1>2. CASE Bootstrap \/ BootAnswers
    BY <1>2, BootstrapKeeps, BootAnswersKeeps
  <1>3. CASE Login \/ LoginThrows \/ LoginAnswers \/ LoginCreates
    BY <1>3, LoginKeeps, LoginThrowsKeeps, LoginAnswersKeeps, LoginCreatesKeeps
  <1>4. CASE \E h \in Hooks : Mount(h) \/ Unmount(h) \/ Flush(h)
    BY <1>4, MountKeeps, UnmountKeeps, FlushKeeps
  <1>5. CASE ServeGet \/ AnswerGet \/ GetFails
    BY <1>5, ServeGetKeeps, AnswerGetKeeps, GetFailsKeeps
  <1>6. CASE Create \/ CreateAnswers \/ CreateFails
    BY <1>6, CreateKeeps, CreateAnswersKeeps, CreateFailsKeeps
  <1>7. CASE \E h \in Hooks, f \in Fields : Update(h, f)
    BY <1>7, UpdateKeeps
  <1>8. CASE Rerender \/ Trim
    BY <1>8, RerenderKeeps, TrimKeeps
  <1>9. CASE \E p \in puts : ServePut(p) \/ LosePut(p)
    BY <1>9, ServePutKeeps, LosePutKeeps
  <1>10. CASE \E s \in Sessions : Expire(s)
    BY <1>10, ExpireKeeps
  <1>11. CASE UNCHANGED vars
    BY <1>11, StutterKeeps
  <1> QED  BY <1>1, <1>2, <1>3, <1>4, <1>5, <1>6, <1>7, <1>8, <1>9, <1>10, <1>11 DEF Next

LEMMA Invariant == Spec => []IInv
  <1> QED  BY InitKeeps, Inductive, PTL DEF Spec

\* The session, the query cache, the hooks and the requests have the values
\* the code gives them, and a query that is ready has data (hooks/use-session
\* .ts, lib/session).
THEOREM TypeCorrect == Spec => []TypeOK
  <1>1. IInv => TypeOK
    BY DEF IInv
  <1> QED  BY <1>1, Invariant, PTL

\* No update of the session, pending, under way or stored, is newer than what
\* the user sees of its field, unless the GET that filled the query missed it.
THEOREM CacheLeadsHolds == Spec => []CacheLeads
  <1>1. IInv => CacheLeads
    <2> SUFFICES ASSUME IInv, view = "ready",
                        NEW u \in {pend[h] : h \in Hooks}
                                  \cup {p.u : p \in {q \in puts : q.to = shared}}
                                  \cup (IF Live(shared) THEN {srv[shared]} ELSE {})
                 PROVE  \A f \in In(u) \ astray : u[f].of = shared => u[f].n <= cache[f].n
      BY DEF CacheLeads
    <2>1. Behind(u)
      BY DEF IInv, DataInv, Seen, Leads
    <2> QED  BY <2>1 DEF Behind
  <1> QED  BY <1>1, Invariant, PTL

\* When no update is pending or under way, the server's row has what the user
\* sees, but for fields with an update that got lost or came out of order.
THEOREM QuietAgreementHolds == Spec => []QuietAgreement
  <1>1. IInv => QuietAgreement
    <2> SUFFICES ASSUME IInv, Quiet, view = "ready", Live(shared), NEW f \in Fields \ astray
                 PROVE  srv[shared][f] = cache[f]
      BY DEF QuietAgreement
    <2>1. cache[f] \in Values
      BY Ready DEF IInv, Data
    <2>2. \A h \in Hooks : pend[h][f] # cache[f]
      <3> SUFFICES ASSUME NEW h \in Hooks  PROVE pend[h][f] # cache[f]
        OBVIOUS
      <3>1. pend[h] \in Updates /\ f \notin In(pend[h])
        BY DEF IInv, TypeOK, Quiet
      <3> QED  BY <2>1, <3>1, InIs
    <2> QED  BY <2>2 DEF IInv, DataInv, Seen, Agreement, Quiet
  <1> QED  BY <1>1, Invariant, PTL

\* A row that stays is changed by a PUT alone, and by its own updates unless a
\* session expired.
LEMMA RowStep ==
    ASSUME IInv, [Next]_vars, NEW s \in Sessions, NEW f \in Fields,
           Live(s), Live(s)', srv'[s][f] # srv[s][f], \A t \in Sessions : srv[t] # Gone
    PROVE  srv'[s][f].of = s
  <1>1. CASE \E p \in puts : ServePut(p)
    <2>1. PICK p \in puts : ServePut(p)
      BY <1>1
    <2>2. Live(p.to) /\ srv' = [srv EXCEPT ![p.to] = Merged(@, p.u)]
      BY <2>1 DEF ServePut
    <2>3. srv \in [Sessions -> Data \cup {NoRow, Gone}]
      BY DEF IInv, TypeOK
    <2>4. p.to = s
      BY <2>2, <2>3
    <2>5. srv[s] \in Data /\ p.u \in Updates
      BY LiveIsData DEF IInv, TypeOK
    <2>6. srv'[s] = Merged(srv[s], p.u)
      BY <2>2, <2>3, <2>4
    <2>7. f \in In(p.u) /\ srv'[s][f] = p.u[f]
      BY <2>5, <2>6, MergedIsData
    <2>8. p.u[f].of = p.to
      BY <2>7 DEF IInv, DataInv, OwnUpdates
    <2> QED  BY <2>4, <2>7, <2>8
  <1>2. ASSUME NEW t \in Unborn, NEW body, NEW hooks, Commits(t, body, hooks)
        PROVE  FALSE
    <2>1. srv' = [srv EXCEPT ![t] = body] /\ srv[t] = NoRow
      BY <1>2 DEF Commits, Unborn
    <2>2. t # s
      BY <2>1 DEF Live
    <2> QED  BY <2>1, <2>2 DEF IInv, TypeOK
  <1>3. ASSUME NEW t \in Sessions, Expire(t)
        PROVE  FALSE
    <2>1. srv' = [srv EXCEPT ![t] = Gone]
      BY <1>3 DEF Expire
    <2>2. t = s
      BY <2>1 DEF IInv, TypeOK
    <2> QED  BY <2>1, <2>2 DEF Live, IInv, TypeOK
  <1>4. CASE srv' = srv
    BY <1>4
  <1>5. CASE LoadPage \/ Leave \/ Bootstrap \/ BootAnswers \/ Login \/ LoginThrows \/ LoginAnswers
    BY <1>4, <1>5 DEF LoadPage, Leave, Bootstrap, BootAnswers, Login, LoginThrows, LoginAnswers
  <1>6. CASE LoginCreates \/ CreateAnswers
    BY <1>2, <1>6 DEF LoginCreates, CreateAnswers
  <1>7. CASE \E h \in Hooks : Mount(h) \/ Unmount(h) \/ Flush(h)
    BY <1>4, <1>7 DEF Mount, Unmount, Flush
  <1>8. CASE ServeGet \/ AnswerGet \/ GetFails \/ Create \/ CreateFails \/ Rerender \/ Trim
    BY <1>4, <1>8 DEF ServeGet, AnswerGet, GetFails, Create, CreateFails, Rerender, Trim
  <1>9. CASE \E h \in Hooks, g \in Fields : Update(h, g)
    BY <1>4, <1>9 DEF Update
  <1>10. CASE \E p \in puts : LosePut(p)
    BY <1>4, <1>10 DEF LosePut
  <1>11. CASE \E t \in Sessions : Expire(t)
    BY <1>3, <1>11
  <1>12. CASE UNCHANGED vars
    BY <1>4, <1>12 DEF vars
  <1> QED
    BY <1>1, <1>5, <1>6, <1>7, <1>8, <1>9, <1>10, <1>11, <1>12 DEF Next

\* An update changes the row of the session it was made in, and no other,
\* until a session expires under its hooks.
THEOREM UpdatesStayInSessionHolds == Spec => UpdatesStayInSession
  <1>1. IInv /\ [Next]_vars =>
          [\A s \in Sessions, f \in Fields :
             Live(s) /\ Live(s)' /\ srv'[s][f] # srv[s][f] =>
               srv'[s][f].of = s \/ \E t \in Sessions : srv[t] = Gone]_vars
    BY RowStep
  <1> QED  BY <1>1, Invariant, PTL DEF Spec, UpdatesStayInSession

=============================================================================
