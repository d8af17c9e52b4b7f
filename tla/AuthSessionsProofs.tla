-------------------------- MODULE AuthSessionsProofs ------------------------
(***************************************************************************)
(* The row locks of the auth repository are enough: a revoked device has   *)
(* no usable refresh token, a refresh token is used once, and accounts,    *)
(* devices and sessions belong together, for any number of users, devices, *)
(* tokens and concurrent calls.                                            *)
(***************************************************************************)
EXTENDS AuthSessions, TLAPS

Issuing == {"register", "login", "refresh"}

\* What the request of a call carries, and which calls are at which statement.
CallShape(w) ==
  /\ pc[w] = "idle" => call[w] = NoCall
  /\ pc[w] = "user" => Kind(w) = "register"
  /\ pc[w] = "device" => Kind(w) \in {"register", "login", "revoke"}
  /\ pc[w] = "token" => Kind(w) \in {"refresh", "logout"}
  /\ pc[w] = "lockDevice" => Kind(w) = "refresh"
  /\ pc[w] \in {"list", "tokens"} => Kind(w) = "revoke"
  /\ pc[w] = "commit" => Kind(w) \in Issuing
  /\ Kind(w) \in {"register", "login", "revoke"} => User(w) \in Users
  /\ Kind(w) \in Issuing \cup {"revoke"} => Device(w) \in Devices
  /\ Kind(w) \in Issuing => New(w) \in Tokens
  /\ Kind(w) \in {"none", "logout", "revoke"} => New(w) = None
  /\ Kind(w) \in {"refresh", "logout"} => Old(w) \in Tokens /\ Issued(Old(w))

\* When a call holds which rows.
LockShape(w) ==
  /\ locked[w] => pc[w] \in {"list", "tokens", "commit"}
  /\ pc[w] = "commit" => locked[w]
  /\ todo[w] # {} => pc[w] = "tokens"
  /\ hit[w] # {} => \/ pc[w] = "tokens"
                    \/ pc[w] \in {"lockDevice", "commit"} /\ Kind(w) = "refresh"
  /\ pc[w] \in {"lockDevice", "commit"} /\ Kind(w) = "refresh" => hit[w] = {Old(w)}

\* A row is held by one call; a token row that is held stays usable, and a
\* token that a call is going to insert does not exist yet and is its own.
LocksHeld ==
  /\ \A v, w \in Workers : locked[v] /\ locked[w] /\ Device(v) = Device(w) => v = w
  /\ \A v, w \in Workers : \A t \in Tokens : t \in hit[v] /\ t \in hit[w] => v = w
  /\ \A w \in Workers : \A t \in hit[w] : Live(t)
  /\ \A w \in Workers : New(w) # None => ~Issued(New(w))
  /\ \A v, w \in Workers : New(w) # None /\ New(v) = New(w) => v = w

\* A row of refresh_tokens that does not exist is empty.
NoGhosts ==
  \A t \in Tokens : ~Issued(t) => tokens[t].owner = None /\ parent[t] = None

\* What the rows that a call has locked still say when it commits.
Decided(w) ==
  /\ pc[w] = "commit" /\ Kind(w) \in {"register", "login"} => OwnDevice(w)
  /\ pc[w] \in {"lockDevice", "commit"} /\ Kind(w) = "refresh" =>
       tokens[Old(w)].device = Device(w)
  /\ pc[w] = "commit" /\ Kind(w) = "refresh" => ~devices[Device(w)].revoked
  /\ pc[w] \in {"list", "tokens"} => Owner(w) = User(w)
  /\ pc[w] = "tokens" /\ locked[w] =>
       \A t \in Tokens : Live(t) /\ tokens[t].device = Device(w) =>
         t \in todo[w] \cup hit[w]

CallsInv == \A w \in Workers : CallShape(w) /\ LockShape(w) /\ Decided(w)

SessionsInv ==
  /\ RevokedDeviceHasNoSession /\ OneTimeRefresh /\ SessionBelongsToDeviceOwner
  /\ RegistrationIsAtomic

AuthInv == TypeOK /\ CallsInv /\ LocksHeld /\ NoGhosts /\ SessionsInv

-----------------------------------------------------------------------------
\* What a call does by itself or is made to do.
CallStep(w) ==
  \/ Register(w) \/ Login(w) \/ Refresh(w) \/ Logout(w) \/ RevokeDevice(w)
  \/ Abort(w) \/ Step(w)

\* A call starts with a well-formed request, and a token of its own.
LEMMA StartShape ==
  ASSUME TypeOK, NEW w \in Workers,
         Register(w) \/ Login(w) \/ Refresh(w) \/ Logout(w) \/ RevokeDevice(w)
  PROVE  /\ pc[w] = "idle" /\ pc'[w] \in {"user", "device", "token"}
         /\ UNCHANGED <<expired, tables, locked, todo, hit>>
         /\ pc' = [pc EXCEPT ![w] = pc'[w]]
         /\ call' = [call EXCEPT ![w] = call'[w]]
         /\ call'[w] \in Requests /\ CallShape(w)'
         /\ call'[w].new # None => FreshToken(call'[w].new)
  <1>1. CASE Register(w)
    <2>1. PICK u \in Users, d \in Devices, t \in Tokens :
            Start(w, "user", Request("register", u, d, None, t, FALSE)) /\ FreshToken(t)
      BY <1>1 DEF Register
    <2>2. call'[w] = Request("register", u, d, None, t, FALSE) /\ pc'[w] = "user"
      BY <2>1 DEF Start, Goto, TypeOK
    <2>3. call'[w] \in Requests
      BY <2>1, <2>2 DEF Request, Requests, Kinds, TypeOK
    <2>4. CallShape(w)'
      BY <2>1, <2>2, AuthAssumption DEF CallShape, Issuing, Request, Kind, User,
         Device, Old, New, Issued, tables, Start, TypeOK
    <2>5. QED
      BY <2>1, <2>2, <2>3, <2>4 DEF Start, Goto, Request, TypeOK, tables
  <1>2. CASE Login(w)
    <2>1. PICK u \in users, d \in Devices, t \in Tokens :
            Start(w, "device", Request("login", u, d, None, t, FALSE)) /\ FreshToken(t)
      BY <1>2 DEF Login
    <2>2. call'[w] = Request("login", u, d, None, t, FALSE) /\ pc'[w] = "device"
      BY <2>1 DEF Start, Goto, TypeOK
    <2>3. call'[w] \in Requests
      BY <2>1, <2>2 DEF Request, Requests, Kinds, TypeOK
    <2>4. CallShape(w)'
      BY <2>1, <2>2, AuthAssumption DEF CallShape, Issuing, Request, Kind, User,
         Device, Old, New, Issued, tables, Start, TypeOK
    <2>5. QED
      BY <2>1, <2>2, <2>3, <2>4 DEF Start, Goto, Request, TypeOK, tables
  <1>3. CASE Refresh(w)
    <2>1. PICK s \in Tokens, d \in Devices, t \in Tokens :
            Start(w, "token", Request("refresh", None, d, s, t, s \notin expired))
              /\ FreshToken(t) /\ Issued(s)
      BY <1>3 DEF Refresh
    <2>2. call'[w] = Request("refresh", None, d, s, t, s \notin expired) /\ pc'[w] = "token"
      BY <2>1 DEF Start, Goto, TypeOK
    <2>3. call'[w] \in Requests
      BY <2>1, <2>2 DEF Request, Requests, Kinds, TypeOK
    <2>4. CallShape(w)'
      BY <2>1, <2>2, AuthAssumption DEF CallShape, Issuing, Request, Kind, User,
         Device, Old, New, Issued, tables, Start, TypeOK
    <2>5. QED
      BY <2>1, <2>2, <2>3, <2>4 DEF Start, Goto, Request, TypeOK, tables
  <1>4. CASE Logout(w)
    <2>1. PICK s \in Tokens :
            Start(w, "token", Request("logout", None, None, s, None, FALSE)) /\ Issued(s)
      BY <1>4 DEF Logout
    <2>2. call'[w] = Request("logout", None, None, s, None, FALSE) /\ pc'[w] = "token"
      BY <2>1 DEF Start, Goto, TypeOK
    <2>3. call'[w] \in Requests
      BY <2>1, <2>2 DEF Request, Requests, Kinds, TypeOK
    <2>4. CallShape(w)'
      BY <2>1, <2>2, AuthAssumption DEF CallShape, Issuing, Request, Kind, User,
         Device, Old, New, Issued, tables, Start, TypeOK
    <2>5. QED
      BY <2>1, <2>2, <2>3, <2>4 DEF Start, Goto, Request, TypeOK, tables
  <1>5. CASE RevokeDevice(w)
    <2>1. PICK u \in users, d \in Devices :
            Start(w, "device", Request("revoke", u, d, None, None, FALSE))
      BY <1>5 DEF RevokeDevice
    <2>2. call'[w] = Request("revoke", u, d, None, None, FALSE) /\ pc'[w] = "device"
      BY <2>1 DEF Start, Goto, TypeOK
    <2>3. call'[w] \in Requests
      BY <2>1, <2>2 DEF Request, Requests, Kinds, TypeOK
    <2>4. CallShape(w)'
      BY <2>1, <2>2, AuthAssumption DEF CallShape, Issuing, Request, Kind, User,
         Device, Old, New, Issued, tables, Start, TypeOK
    <2>5. QED
      BY <2>1, <2>2, <2>3, <2>4 DEF Start, Goto, Request, TypeOK, tables
  <1>6. QED
    BY <1>1, <1>2, <1>3, <1>4, <1>5

\* A step of one call leaves the other calls where they are.
LEMMA Frame ==
  ASSUME TypeOK, NEW w \in Workers, CallStep(w), NEW v \in Workers, v # w
  PROVE  /\ pc'[v] = pc[v] /\ call'[v] = call[v] /\ locked'[v] = locked[v]
         /\ todo'[v] = todo[v] /\ hit'[v] = hit[v]
  <1> USE DEF TypeOK, Goto, End, Refuse
  <1>1. CASE Register(w) \/ Login(w) \/ Refresh(w) \/ Logout(w) \/ RevokeDevice(w)
    BY <1>1, StartShape
  <1>2. CASE Abort(w) \/ insertUser(w) \/ upsertDevice(w) \/ lockToken(w)
    BY <1>2 DEF Abort, insertUser, upsertDevice, lockToken
  <1>3. CASE lockDevice(w) \/ RevokeByHash(w) \/ revokeDeviceRow(w) \/ listTokens(w)
    BY <1>3 DEF lockDevice, RevokeByHash, revokeDeviceRow, listTokens
  <1>4. CASE revokeToken(w) \/ CommitSession(w) \/ CommitRotate(w) \/ CommitRevoke(w)
    BY <1>4 DEF revokeToken, CommitSession, CommitRotate, CommitRevoke
  <1>5. QED
    BY <1>1, <1>2, <1>3, <1>4 DEF CallStep, Step

\* A call that ends holds nothing and is forgotten.
LEMMA EndFacts ==
  ASSUME TypeOK, NEW w \in Workers, End(w)
  PROVE  /\ pc'[w] = "idle" /\ call'[w] = NoCall /\ ~locked'[w]
         /\ todo'[w] = {} /\ hit'[w] = {}
         /\ CallShape(w)' /\ LockShape(w)' /\ Decided(w)'
  <1>1. /\ pc'[w] = "idle" /\ call'[w] = NoCall /\ ~locked'[w]
        /\ todo'[w] = {} /\ hit'[w] = {}
    BY DEF End, TypeOK
  <1>2. QED
    BY <1>1 DEF CallShape, LockShape, Decided, NoCall, Request, Issuing, Kind,
       User, Device, Old, New

Writes(w) ==
  RevokeByHash(w) \/ CommitSession(w) \/ CommitRotate(w) \/ CommitRevoke(w)

\* A step that writes no table ends its call or moves it on: it takes a row that
\* is free, and judges it as it is then.
LEMMA QuietStep ==
  ASSUME TypeOK, CallsInv, SessionBelongsToDeviceOwner,
         NEW w \in Workers, CallStep(w), ~Writes(w)
  PROVE  /\ UNCHANGED <<expired, tables>>
         /\ \/ End(w)
            \/ Register(w) \/ Login(w) \/ Refresh(w) \/ Logout(w) \/ RevokeDevice(w)
            \/ /\ call' = call
               /\ CallShape(w)' /\ LockShape(w)' /\ Decided(w)'
               /\ locked'[w] => locked[w] \/ DeviceFree(w)
               /\ \A t \in hit'[w] \ hit[w] : Live(t) /\ TokenFree(w, t)
  <1>1. CASE Register(w) \/ Login(w) \/ Refresh(w) \/ Logout(w) \/ RevokeDevice(w)
    BY <1>1, StartShape
  <1>2. CASE Abort(w) \/ Refuse(w)
    BY <1>2 DEF Abort, Refuse
  <1> USE DEF TypeOK, CallsInv, Goto, tables
  <1>3. CASE insertUser(w) /\ ~Refuse(w)
    BY <1>3 DEF insertUser, CallShape, LockShape, Decided, Issuing, Kind,
       User, Device, Old, New, Issued
  <1>4. CASE upsertDevice(w) /\ ~Refuse(w)
    BY <1>4 DEF upsertDevice, CallShape, LockShape, Decided, Issuing, Kind,
       User, Device, Old, New, Issued, OwnDevice, Owner
  <1>5. CASE lockToken(w) /\ ~Refuse(w)
    BY <1>5 DEF lockToken, CallShape, LockShape, Decided, Issuing, Kind,
       User, Device, Old, New, Issued, Live, Usable
  <1>6. CASE lockDevice(w) /\ ~Refuse(w)
    BY <1>6 DEF lockDevice, CallShape, LockShape, Decided, Issuing, Kind,
       User, Device, Old, New, Issued
  <1>7. CASE revokeDeviceRow(w) /\ ~Refuse(w)
    BY <1>7 DEF revokeDeviceRow, CallShape, LockShape, Decided, Issuing, Kind,
       User, Device, Old, New, Issued, Owner
  <1>8. CASE listTokens(w)
    BY <1>8 DEF listTokens, SessionBelongsToDeviceOwner, CallShape, LockShape, Decided,
       Issuing, Kind, User, Device, Old, New, Issued, Owner, Live
  <1>9. CASE revokeToken(w)
    BY <1>9 DEF revokeToken, CallShape, LockShape, Decided, Issuing, Kind,
       User, Device, Old, New, Issued, Owner, Live
  <1>10. QED
    BY <1>1, <1>2, <1>3, <1>4, <1>5, <1>6, <1>7, <1>8, <1>9
       DEF CallStep, Step, Writes

-----------------------------------------------------------------------------
\* What a step may do to the tables.  A token row is inserted with a session, by
\* a call that then ends, and never loses its user and its device; it is revoked
\* only by a call that holds it or finds it free.  A device keeps its owner, and
\* is revoked or revived only by the call that holds its row.
LEMMA TablesStep ==
  ASSUME AuthInv, NEW w \in Workers, CallStep(w)
  PROVE  /\ \A t \in Tokens : Issued(t) =>
              /\ Issued(t)' /\ tokens'[t].owner = tokens[t].owner
              /\ tokens'[t].device = tokens[t].device
              /\ Live(t)' => Live(t)
         /\ \A t \in Tokens : ~Issued(t) /\ Issued(t)' =>
              /\ t = New(w) /\ New(w) # None /\ locked[w] /\ End(w)
              /\ Live(t)' /\ tokens'[t].device = Device(w)
         /\ \A t \in Tokens : Live(t) /\ ~Live(t)' => TokenFree(w, t)
         /\ \A d \in Devices : devices'[d] # devices[d] => d = Device(w) /\ locked[w]
         /\ \A d \in Devices : devices[d].owner # None =>
              devices'[d].owner = devices[d].owner
         /\ \A d \in Devices : devices'[d].owner # devices[d].owner =>
              /\ d = Device(w) /\ locked[w] /\ devices[d].owner = None
         /\ ~End(w) => UNCHANGED tables
  <1> USE DEF AuthInv
  <1>1. CASE ~Writes(w)
    BY <1>1, QuietStep DEF SessionsInv, tables, Issued, Live
  <1>2. CallShape(w) /\ LockShape(w) /\ Decided(w)
    BY DEF CallsInv
  <1>3. CASE RevokeByHash(w)
    BY <1>2, <1>3 DEF RevokeByHash, CallShape, Issued, Live, TypeOK, TokenRows, TokenFree
  <1>4. CASE CommitSession(w)
    <2>1. /\ User(w) \in Users /\ Device(w) \in Devices /\ New(w) \in Tokens
          /\ New(w) # None /\ locked[w] /\ OwnDevice(w) /\ ~Issued(New(w))
      BY <1>2, <1>4, AuthAssumption DEF CommitSession, CallShape, LockShape, Decided,
         Issuing, LocksHeld
    <2>2. QED
      BY <1>4, <2>1 DEF CommitSession, Session, Issued, Live, TypeOK, DeviceRows,
         TokenRows, OwnDevice, Owner
  <1>5. CASE CommitRotate(w)
    <2>1. /\ Device(w) \in Devices /\ New(w) \in Tokens /\ Old(w) \in Tokens
          /\ New(w) # None /\ locked[w] /\ ~Issued(New(w)) /\ hit[w] = {Old(w)}
          /\ Live(Old(w))
      BY <1>2, <1>5, AuthAssumption DEF CommitRotate, CallShape, LockShape, Issuing, LocksHeld
    <2>2. TokenFree(w, Old(w))
      BY <2>1 DEF TokenFree, LocksHeld, TypeOK
    <2>3. QED
      BY <1>5, <2>1, <2>2 DEF CommitRotate, Session, Issued, Live, TypeOK, TokenRows
  <1>6. CASE CommitRevoke(w)
    <2>1. Device(w) \in Devices /\ hit[w] \subseteq Tokens
      BY <1>2, <1>6 DEF CommitRevoke, CallShape, TypeOK
    <2>2. \A t \in hit[w] : Live(t) /\ TokenFree(w, t)
      BY <2>1 DEF TokenFree, LocksHeld
    <2>3. \A d \in Devices : devices'[d] # devices[d] => d = Device(w) /\ locked[w]
      BY <1>6, <2>1 DEF CommitRevoke, TypeOK, DeviceRows
    <2>4. \A d \in Devices : devices'[d].owner = devices[d].owner
      BY <1>6, <2>1 DEF CommitRevoke, TypeOK, DeviceRows
    <2>5. QED
      BY <1>6, <2>1, <2>2, <2>3, <2>4 DEF CommitRevoke, Issued, Live, TypeOK, TokenRows
  <1>7. QED
    BY <1>1, <1>3, <1>4, <1>5, <1>6 DEF Writes

\* What a call has read of the rows it holds, the steps of others do not change.
LEMMA CallsStep ==
  ASSUME AuthInv, NEW w \in Workers, CallStep(w)
  PROVE  CallsInv'
  <1> USE DEF AuthInv
  <1> SUFFICES ASSUME NEW v \in Workers
               PROVE  CallShape(v)' /\ LockShape(v)' /\ Decided(v)'
    BY DEF CallsInv
  <1>1. CallShape(v) /\ LockShape(v) /\ Decided(v)
    BY DEF CallsInv
  <1>2. CASE v # w
    <2>1. /\ pc'[v] = pc[v] /\ call'[v] = call[v] /\ locked'[v] = locked[v]
          /\ todo'[v] = todo[v] /\ hit'[v] = hit[v]
      BY <1>2, Frame
    <2>2. /\ Kind(v)' = Kind(v) /\ User(v)' = User(v) /\ Device(v)' = Device(v)
          /\ Old(v)' = Old(v) /\ New(v)' = New(v)
      BY <2>1 DEF Kind, User, Device, Old, New
    <2>3. CallShape(v)' /\ LockShape(v)'
      BY <1>1, <2>1, <2>2, TablesStep DEF CallShape, LockShape
    <2>4. locked[v] /\ locked[w] => Device(v) # Device(w)
      BY <1>2 DEF LocksHeld
    <2>5. ASSUME Kind(v) # "logout", Kind(v) # "none"
          PROVE  Device(v) \in Devices
      BY <2>5, <1>1 DEF CallShape, Issuing, TypeOK, Requests, Kinds, NoCall, Request, Kind
    <2>6. pc[v] = "commit" /\ Kind(v) \in {"register", "login"} => OwnDevice(v)'
      BY <1>1, <2>2, <2>4, <2>5, TablesStep DEF Decided, OwnDevice, Owner, LockShape
    <2>7. pc[v] \in {"lockDevice", "commit"} /\ Kind(v) = "refresh" =>
            tokens'[Old(v)].device = Device(v)
      BY <1>1, TablesStep DEF Decided, CallShape
    <2>8. pc[v] = "commit" /\ Kind(v) = "refresh" => ~devices'[Device(v)].revoked
      BY <1>1, <2>4, <2>5, TablesStep DEF Decided, LockShape
    <2>9. pc[v] \in {"list", "tokens"} => devices'[Device(v)].owner = User(v)
      BY <1>1, <2>5, TablesStep, AuthAssumption DEF Decided, CallShape, Owner
    <2>10. ASSUME pc[v] = "tokens", locked[v], NEW t \in Tokens, Live(t)',
                  tokens'[t].device = Device(v)
           PROVE  t \in todo[v] \cup hit[v]
      <3>1. Issued(t)
        BY <2>4, <2>10, TablesStep DEF Live, Issued
      <3>2. QED
        BY <1>1, <2>10, <3>1, TablesStep DEF Decided
    <2>11. QED
      BY <2>1, <2>2, <2>3, <2>6, <2>7, <2>8, <2>9, <2>10 DEF Decided, Owner
  <1>3. CASE v = w /\ End(w)
    BY <1>3, EndFacts
  <1>4. CASE v = w /\ ~End(w)
    <2>1. ~Writes(w)
      BY <1>4 DEF Writes, RevokeByHash, CommitSession, CommitRotate, CommitRevoke
    <2>2. CASE Register(w) \/ Login(w) \/ Refresh(w) \/ Logout(w) \/ RevokeDevice(w)
      <3>1. /\ CallShape(w)' /\ UNCHANGED <<locked, todo, hit>>
            /\ pc[w] = "idle" /\ pc'[w] \in {"user", "device", "token"}
        BY <2>2, StartShape
      <3>2. LockShape(w)' /\ Decided(w)'
        BY <1>1, <1>4, <3>1 DEF LockShape, Decided
      <3>3. QED
        BY <1>4, <3>1, <3>2
    <2>3. CASE CallShape(w)' /\ LockShape(w)' /\ Decided(w)'
      BY <1>4, <2>3
    <2>4. QED
      BY <1>4, <2>1, <2>2, <2>3, QuietStep DEF SessionsInv
  <1>5. QED
    BY <1>2, <1>3, <1>4

LEMMA TypeStep ==
  ASSUME AuthInv, NEW w \in Workers, CallStep(w)
  PROVE  TypeOK'
  <1> USE DEF AuthInv
  <1>1. CallShape(w) /\ LockShape(w) /\ Decided(w)
    BY DEF CallsInv
  <1>2. ASSUME End(w)
        PROVE  /\ pc' \in [Workers -> {"idle", "user", "device", "token",
                            "lockDevice", "list", "tokens", "commit"}]
               /\ call' \in [Workers -> Requests \cup {NoCall}]
               /\ locked' \in [Workers -> BOOLEAN]
               /\ todo' \in [Workers -> SUBSET Tokens]
               /\ hit' \in [Workers -> SUBSET Tokens]
    BY <1>2 DEF End, TypeOK
  <1>3. CASE ~Writes(w)
    <2>1. UNCHANGED <<expired, tables>>
      BY <1>3, QuietStep DEF SessionsInv
    <2>2. CASE Register(w) \/ Login(w) \/ Refresh(w) \/ Logout(w) \/ RevokeDevice(w)
      BY <2>1, <2>2, StartShape DEF TypeOK, tables, Issued
    <2>3. CASE Abort(w) \/ Refuse(w)
      BY <2>1, <2>3, <1>2 DEF Abort, Refuse, TypeOK, tables, Issued
    <2>4. CASE Step(w) /\ ~Refuse(w)
      <3> USE DEF TypeOK, tables, Goto, Issued
      <3>1. CASE insertUser(w) \/ upsertDevice(w) \/ lockDevice(w) \/ revokeDeviceRow(w)
        BY <2>1, <2>4, <3>1 DEF insertUser, upsertDevice, lockDevice, revokeDeviceRow
      <3>2. CASE lockToken(w)
        BY <1>1, <2>1, <2>4, <3>2 DEF lockToken, CallShape
      <3>3. CASE listTokens(w)
        BY <2>1, <3>3 DEF listTokens
      <3>4. CASE revokeToken(w)
        BY <2>1, <3>4 DEF revokeToken
      <3>5. QED
        BY <1>3, <2>4, <3>1, <3>2, <3>3, <3>4 DEF Step, Writes
    <2>5. QED
      BY <2>2, <2>3, <2>4 DEF CallStep
  <1>4. ASSUME NEW t \in Tokens, Issued(t)
        PROVE  tokens'[t].owner \in Users /\ tokens'[t].device \in Devices
    BY <1>4, TablesStep DEF TypeOK
  <1>5. CASE RevokeByHash(w)
    <2>1. tokens' \in [Tokens -> TokenRows]
      BY <1>1, <1>5 DEF RevokeByHash, CallShape, TypeOK, TokenRows
    <2>2. \A t \in Tokens : Issued(t)' => Issued(t)
      BY <1>1, <1>5 DEF RevokeByHash, CallShape, TypeOK, Issued, Live
    <2>3. QED
      BY <1>2, <1>4, <1>5, <2>1, <2>2 DEF RevokeByHash, TypeOK
  <1>6. CASE CommitSession(w)
    <2>1. User(w) \in Users /\ Device(w) \in Devices /\ New(w) \in Tokens
      BY <1>1, <1>6 DEF CommitSession, CallShape, Issuing
    <2>2. /\ tokens' \in [Tokens -> TokenRows]
          /\ users' \subseteq Users /\ devices' \in [Devices -> DeviceRows]
      BY <1>6, <2>1 DEF CommitSession, Session, TypeOK, TokenRows, DeviceRows
    <2>3. \A t \in Tokens : Issued(t)' =>
            tokens'[t].owner \in Users /\ tokens'[t].device \in Devices
      BY <1>4, <1>6, <2>1 DEF CommitSession, Session, TypeOK, Issued
    <2>4. QED
      BY <1>2, <1>6, <2>2, <2>3 DEF CommitSession, TypeOK
  <1>7. CASE CommitRotate(w)
    <2>1. /\ Device(w) \in Devices /\ New(w) \in Tokens /\ Old(w) \in Tokens
          /\ Issued(Old(w)) /\ tokens[Old(w)].owner \in Users
      BY <1>1, <1>7 DEF CommitRotate, CallShape, Issuing, TypeOK
    <2>2. /\ tokens' \in [Tokens -> TokenRows]
          /\ parent' \in [Tokens -> Tokens \cup {None}]
      <3>1. [tokens EXCEPT ![Old(w)].state = "revoked"] \in [Tokens -> TokenRows]
        BY <2>1 DEF TypeOK, TokenRows
      <3>2. Session(w, tokens[Old(w)].owner) \in TokenRows
        BY <2>1 DEF Session, TokenRows
      <3>3. tokens' = [[tokens EXCEPT ![Old(w)].state = "revoked"]
                          EXCEPT ![New(w)] = Session(w, tokens[Old(w)].owner)]
        BY <1>7 DEF CommitRotate
      <3>4. QED
        BY <1>7, <2>1, <3>1, <3>2, <3>3 DEF CommitRotate, TypeOK
    <2>3. \A t \in Tokens : Issued(t)' =>
            tokens'[t].owner \in Users /\ tokens'[t].device \in Devices
      BY <1>4, <1>7, <2>1 DEF CommitRotate, Session, TypeOK, Issued
    <2>4. QED
      BY <1>2, <1>7, <2>2, <2>3 DEF CommitRotate, TypeOK
  <1>8. CASE CommitRevoke(w)
    <2>1. Device(w) \in Devices /\ \A t \in hit[w] : t \in Tokens /\ Live(t)
      BY <1>1, <1>8 DEF CommitRevoke, CallShape, LocksHeld, TypeOK
    <2>2. devices' \in [Devices -> DeviceRows]
      <3> DEFINE row == [devices[Device(w)] EXCEPT !.revoked = @ \/ locked[w]]
      <3>1. row \in DeviceRows
        BY <2>1 DEF TypeOK, DeviceRows
      <3>2. devices' = [devices EXCEPT ![Device(w)] = row]
        BY <1>8 DEF CommitRevoke
      <3> HIDE DEF row
      <3>3. QED
        BY <2>1, <3>1, <3>2 DEF TypeOK
    <2>3. tokens' \in [Tokens -> TokenRows]
      <3>1. \A t \in Tokens : [tokens[t] EXCEPT !.state = "revoked"] \in TokenRows
        BY DEF TypeOK, TokenRows
      <3>2. \A t \in Tokens : tokens[t] \in TokenRows
        BY DEF TypeOK
      <3>3. QED
        BY <1>8, <3>1, <3>2 DEF CommitRevoke
    <2>4. \A t \in Tokens : Issued(t)' => Issued(t)
      BY <1>8, <2>1 DEF CommitRevoke, Issued, Live
    <2>5. QED
      BY <1>2, <1>4, <1>8, <2>2, <2>3, <2>4 DEF CommitRevoke, TypeOK
  <1>9. QED
    BY <1>3, <1>5, <1>6, <1>7, <1>8 DEF Writes

LEMMA LocksStep ==
  ASSUME AuthInv, NEW w \in Workers, CallStep(w)
  PROVE  LocksHeld'
  <1> USE DEF AuthInv
  <1>0. ASSUME NEW v \in Workers, v # w
        PROVE  /\ locked'[v] = locked[v] /\ hit'[v] = hit[v]
               /\ Device(v)' = Device(v) /\ New(v)' = New(v)
    BY <1>0, Frame DEF Device, New
  <1>1. \/ locked'[w] = FALSE
        \/ Device(w)' = Device(w) /\ (locked[w] \/ DeviceFree(w))
    <2>1. CASE Writes(w)
      BY <2>1, EndFacts DEF Writes, RevokeByHash, CommitSession, CommitRotate, CommitRevoke
    <2>2. CASE ~Writes(w)
      <3>1. CASE End(w)
        BY <3>1, EndFacts
      <3>2. CASE Register(w) \/ Login(w) \/ Refresh(w) \/ Logout(w) \/ RevokeDevice(w)
        BY <3>2, StartShape DEF CallsInv, LockShape, TypeOK
      <3>3. CASE call' = call /\ (locked'[w] => locked[w] \/ DeviceFree(w))
        BY <3>3 DEF Device, TypeOK, CallsInv, LockShape
      <3>4. QED
        BY <2>2, <3>1, <3>2, <3>3, QuietStep DEF SessionsInv
    <2>3. QED
      BY <2>1, <2>2
  <1>2. /\ \A t \in hit'[w] : t \in hit[w] \/ (Live(t) /\ TokenFree(w, t))
        /\ hit'[w] # {} => UNCHANGED tables
    <2>1. CASE End(w)
      BY <2>1, EndFacts
    <2>2. CASE ~End(w)
      <3>1. ~Writes(w)
        BY <2>2 DEF Writes, RevokeByHash, CommitSession, CommitRotate, CommitRevoke
      <3>2. CASE Register(w) \/ Login(w) \/ Refresh(w) \/ Logout(w) \/ RevokeDevice(w)
        BY <3>2, StartShape
      <3>3. QED
        BY <2>2, <3>1, <3>2, QuietStep DEF SessionsInv
    <2>3. QED
      BY <2>1, <2>2
  <1>3. \/ New(w)' = None
        \/ New(w)' = New(w) /\ UNCHANGED tables
        \/ FreshToken(New(w)') /\ UNCHANGED tables
    <2>1. CASE End(w)
      BY <2>1, EndFacts DEF New, NoCall, Request
    <2>2. CASE ~End(w)
      <3>1. ~Writes(w)
        BY <2>2 DEF Writes, RevokeByHash, CommitSession, CommitRotate, CommitRevoke
      <3>2. CASE Register(w) \/ Login(w) \/ Refresh(w) \/ Logout(w) \/ RevokeDevice(w)
        BY <3>2, StartShape DEF New
      <3>3. QED
        BY <2>2, <3>1, <3>2, QuietStep DEF SessionsInv, New
    <2>3. QED
      BY <2>1, <2>2
  <1>4. ASSUME NEW u \in Workers, NEW v \in Workers, locked'[u], locked'[v],
               Device(u)' = Device(v)'
        PROVE  u = v
    BY <1>0, <1>1, <1>4 DEF DeviceFree, LocksHeld
  <1>5. ASSUME NEW u \in Workers, NEW v \in Workers, NEW t \in Tokens,
               t \in hit'[u], t \in hit'[v]
        PROVE  u = v
    BY <1>0, <1>2, <1>5 DEF TokenFree, LocksHeld
  <1>6. ASSUME NEW v \in Workers, NEW t \in hit'[v]
        PROVE  Live(t)'
    <2>1. CASE v = w
      BY <1>2, <1>6, <2>1 DEF LocksHeld, Live, tables
    <2>2. CASE v # w
      <3>1. t \in hit[v] /\ t \in Tokens /\ Live(t)
        BY <1>0, <1>6, <2>2 DEF LocksHeld, TypeOK
      <3>2. ~TokenFree(w, t)
        BY <2>2, <3>1 DEF TokenFree
      <3>3. QED
        BY <3>1, <3>2, TablesStep
    <2>3. QED
      BY <2>1, <2>2
  <1>7. ASSUME NEW v \in Workers, New(v)' # None
        PROVE  tokens'[New(v)'].state = "none"
    <2>1. CASE v = w
      BY <1>3, <1>7, <2>1 DEF LocksHeld, Issued, tables, FreshToken
    <2>2. CASE v # w
      <3>1. /\ New(v)' = New(v) /\ New(v) \in Tokens /\ ~Issued(New(v))
            /\ New(v) # New(w)
        BY <1>0, <1>7, <2>2 DEF LocksHeld, CallsInv, CallShape, Issuing, TypeOK,
           Requests, Kinds, NoCall, Request, New, Kind
      <3>2. QED
        BY <3>1, TablesStep DEF Issued
    <2>3. QED
      BY <2>1, <2>2
  <1>8. ASSUME NEW u \in Workers, NEW v \in Workers, New(u)' # None,
               New(v)' = New(u)'
        PROVE  u = v
    BY <1>0, <1>3, <1>8 DEF LocksHeld, FreshToken
  <1>9. QED
    BY <1>4, <1>5, <1>6, <1>7, <1>8 DEF LocksHeld, Issued

LEMMA GhostsStep ==
  ASSUME AuthInv, NEW w \in Workers, CallStep(w)
  PROVE  NoGhosts'
  <1> USE DEF AuthInv
  <1>1. ASSUME NEW t \in Tokens, ~Issued(t)'
        PROVE  tokens'[t] = tokens[t] /\ parent'[t] = parent[t]
    <2>1. CallShape(w) /\ LockShape(w)
      BY DEF CallsInv
    <2>2. CASE ~Writes(w)
      BY <2>2, QuietStep DEF SessionsInv, tables
    <2>3. ~Issued(t)
      BY <1>1, TablesStep
    <2>4. CASE RevokeByHash(w)
      BY <2>1, <2>3, <2>4 DEF RevokeByHash, CallShape, Issued, Live, TypeOK
    <2>5. CASE CommitSession(w)
      BY <1>1, <2>1, <2>5 DEF CommitSession, Session, Issued, TypeOK
    <2>6. CASE CommitRotate(w)
      <3>1. Old(w) \in Tokens /\ New(w) \in Tokens /\ t # Old(w)
        BY <2>1, <2>3, <2>6 DEF CommitRotate, CallShape, Issuing
      <3>2. tokens'[t] = IF t = New(w) THEN Session(w, tokens[Old(w)].owner)
                         ELSE tokens[t]
        BY <2>6, <3>1 DEF CommitRotate, TypeOK
      <3>3. t # New(w)
        BY <1>1, <3>2 DEF Session, Issued
      <3>4. QED
        BY <2>6, <3>1, <3>2, <3>3 DEF CommitRotate, TypeOK
    <2>7. CASE CommitRevoke(w)
      BY <1>1, <2>7 DEF CommitRevoke, Issued, TypeOK, TokenRows
    <2>8. QED
      BY <2>2, <2>4, <2>5, <2>6, <2>7 DEF Writes
  <1>2. QED
    BY <1>1 DEF NoGhosts, Issued

-----------------------------------------------------------------------------
\* A session inserted belongs to an account, and to the owner of its device, and
\* the device is not revoked.
LEMMA InsertedSession ==
  ASSUME AuthInv, NEW w \in Workers, CallStep(w), NEW t \in Tokens,
         ~Issued(t), Issued(t)'
  PROVE  /\ tokens'[t].device \in Devices
         /\ devices'[tokens'[t].device].owner = tokens'[t].owner
         /\ ~devices'[tokens'[t].device].revoked
         /\ tokens'[t].owner \in users' /\ tokens'[t].owner # None
  <1> USE DEF AuthInv
  <1>1. CallShape(w) /\ LockShape(w) /\ Decided(w)
    BY DEF CallsInv
  <1>2. t = New(w)
    BY TablesStep
  <1>3. CASE ~Writes(w)
    BY <1>3, QuietStep DEF SessionsInv, tables, Issued
  <1>4. CASE RevokeByHash(w)
    BY <1>1, <1>4 DEF RevokeByHash, CallShape, Issued, Live, TypeOK
  <1>5. CASE CommitSession(w)
    <2>1. User(w) \in Users /\ Device(w) \in Devices
      BY <1>1, <1>5 DEF CommitSession, CallShape, Issuing
    <2>2. QED
      BY <1>2, <1>5, <2>1, AuthAssumption DEF CommitSession, Session, TypeOK
  <1>6. CASE CommitRotate(w)
    <2>1. /\ Device(w) \in Devices /\ Old(w) \in Tokens /\ Issued(Old(w))
          /\ tokens[Old(w)].device = Device(w) /\ ~devices[Device(w)].revoked
      BY <1>1, <1>6 DEF CommitRotate, CallShape, Decided, Issuing
    <2>2. tokens'[t] = Session(w, tokens[Old(w)].owner)
      BY <1>2, <1>6, <2>1 DEF CommitRotate, TypeOK
    <2>3. tokens[Old(w)].owner \in Users /\ tokens[Old(w)].owner \in users
      BY <2>1 DEF SessionsInv, RegistrationIsAtomic, TypeOK
    <2>4. QED
      BY <1>6, <2>1, <2>2, <2>3, AuthAssumption DEF CommitRotate, Session,
         SessionsInv, SessionBelongsToDeviceOwner
  <1>7. CASE CommitRevoke(w)
    BY <1>7 DEF CommitRevoke, Issued, Live, LocksHeld, TypeOK
  <1>8. QED
    BY <1>3, <1>4, <1>5, <1>6, <1>7 DEF Writes

\* Revoking waits for the calls that hold the device, and then finds all its
\* usable tokens.
LEMMA RevokedStep ==
  ASSUME AuthInv, NEW w \in Workers, CallStep(w)
  PROVE  RevokedDeviceHasNoSession'
  <1> USE DEF AuthInv
  <1> SUFFICES ASSUME NEW t \in Tokens, Live(t)'
               PROVE  ~devices'[tokens'[t].device].revoked
    BY DEF RevokedDeviceHasNoSession
  <1>1. CASE ~Issued(t)
    BY <1>1, InsertedSession DEF Live, Issued
  <1>2. CASE Issued(t)
    <2>1. /\ Live(t) /\ tokens'[t].device = tokens[t].device
          /\ tokens[t].device \in Devices /\ ~devices[tokens[t].device].revoked
      BY <1>2, TablesStep DEF TypeOK, SessionsInv, RevokedDeviceHasNoSession
    <2>2. CASE devices'[tokens[t].device] = devices[tokens[t].device]
      BY <2>1, <2>2
    <2>3. CASE devices'[tokens[t].device] # devices[tokens[t].device]
      <3>1. tokens[t].device = Device(w) /\ locked[w]
        BY <2>1, <2>3, TablesStep
      <3>2. CASE CommitRevoke(w)
        <4>1. t \in hit[w]
          BY <2>1, <3>1, <3>2 DEF CommitRevoke, CallsInv, Decided
        <4>2. QED
          BY <3>2, <4>1 DEF CommitRevoke, Live, TypeOK, TokenRows
      <3>3. CASE CommitSession(w)
        BY <2>1, <3>1, <3>3 DEF CommitSession, TypeOK
      <3>4. CASE ~CommitRevoke(w) /\ ~CommitSession(w)
        <4>1. UNCHANGED devices
          BY <3>4, QuietStep DEF Writes, RevokeByHash, CommitRotate, SessionsInv, tables
        <4>2. QED
          BY <2>3, <4>1
      <3>5. QED
        BY <3>2, <3>3, <3>4
    <2>4. QED
      BY <2>2, <2>3
  <1>3. QED
    BY <1>1, <1>2

\* A successor is inserted for a token that is usable, hence has none.
LEMMA RefreshStep ==
  ASSUME AuthInv, NEW w \in Workers, CallStep(w)
  PROVE  OneTimeRefresh'
  <1> USE DEF AuthInv
  <1>1. CallShape(w) /\ LockShape(w)
    BY DEF CallsInv
  <1>2. ASSUME NEW t \in Tokens, tokens[t].state = "revoked"
        PROVE  tokens'[t].state = "revoked"
    BY <1>2, TablesStep, TypeStep DEF TypeOK, TokenRows, Issued, Live
  <1>3. CASE UNCHANGED parent
    <2>1. \A t \in Tokens : parent[t] # None => parent[t] \in Tokens
      BY DEF TypeOK
    <2>2. QED
      BY <1>2, <1>3, <2>1 DEF SessionsInv, OneTimeRefresh
  <1>4. CASE CommitRotate(w)
    <2>1. /\ New(w) \in Tokens /\ Old(w) \in Tokens /\ Live(Old(w))
          /\ ~Issued(New(w)) /\ New(w) # Old(w)
      BY <1>1, <1>4, AuthAssumption DEF CommitRotate, CallShape, LockShape, Issuing,
         LocksHeld, Live, Issued
    <2>2. tokens'[Old(w)].state = "revoked"
      BY <1>4, <2>1 DEF CommitRotate, TypeOK, TokenRows
    <2>3. \A t \in Tokens : parent[t] # Old(w)
      BY <2>1, AuthAssumption DEF SessionsInv, OneTimeRefresh, Live
    <2>4. parent' = [parent EXCEPT ![New(w)] = Old(w)]
      BY <1>4 DEF CommitRotate
    <2>5. SUFFICES ASSUME NEW t \in Tokens, parent'[t] # None
                   PROVE  /\ tokens'[parent'[t]].state = "revoked"
                          /\ \A s \in Tokens : parent'[s] = parent'[t] => s = t
      BY DEF OneTimeRefresh
    <2>6. CASE t = New(w)
      BY <2>1, <2>2, <2>3, <2>4, <2>6 DEF TypeOK
    <2>7. CASE t # New(w)
      <3>1. parent'[t] = parent[t] /\ parent[t] \in Tokens /\ parent[t] # None
        BY <2>1, <2>4, <2>5, <2>7 DEF TypeOK
      <3>2. QED
        BY <1>2, <2>1, <2>3, <2>4, <3>1 DEF SessionsInv, OneTimeRefresh, TypeOK
    <2>8. QED
      BY <2>6, <2>7
  <1>5. QED
    BY <1>3, <1>4, QuietStep DEF Writes, RevokeByHash, CommitSession, CommitRevoke,
       SessionsInv, tables

LEMMA OwnerStep ==
  ASSUME AuthInv, NEW w \in Workers, CallStep(w)
  PROVE  SessionBelongsToDeviceOwner'
  <1> USE DEF AuthInv
  <1> SUFFICES ASSUME NEW t \in Tokens, Issued(t)'
               PROVE  devices'[tokens'[t].device].owner = tokens'[t].owner
    BY DEF SessionBelongsToDeviceOwner
  <1>1. CASE ~Issued(t)
    BY <1>1, InsertedSession
  <1>2. CASE Issued(t)
    BY <1>2, TablesStep, AuthAssumption DEF TypeOK, SessionsInv,
       SessionBelongsToDeviceOwner
  <1>3. QED
    BY <1>1, <1>2

\* An account is inserted with its first session.
LEMMA RegistrationStep ==
  ASSUME AuthInv, NEW w \in Workers, CallStep(w)
  PROVE  RegistrationIsAtomic'
  <1> USE DEF AuthInv
  <1>1. CallShape(w)
    BY DEF CallsInv
  <1>2. users' = users \/ (CommitSession(w) /\ users' = users \cup {User(w)})
    BY QuietStep DEF Writes, RevokeByHash, CommitSession, CommitRotate, CommitRevoke,
       SessionsInv, tables
  <1> SUFFICES ASSUME NEW u \in Users
               PROVE  u \in users' <=> \E t \in Tokens : tokens'[t].owner = u
    BY DEF RegistrationIsAtomic
  <1>3. ASSUME u \in users PROVE \E t \in Tokens : tokens'[t].owner = u
    BY <1>3, TablesStep, AuthAssumption DEF SessionsInv, RegistrationIsAtomic, NoGhosts
  <1>4. ASSUME u \in users', u \notin users
        PROVE  \E t \in Tokens : tokens'[t].owner = u
    <2>1. CommitSession(w) /\ u = User(w) /\ New(w) \in Tokens
      BY <1>1, <1>2, <1>4 DEF CommitSession, CallShape, Issuing
    <2>2. tokens'[New(w)].owner = u
      BY <2>1 DEF CommitSession, Session, TypeOK
    <2>3. QED
      BY <2>1, <2>2
  <1>5. ASSUME NEW t \in Tokens, tokens'[t].owner = u
        PROVE  u \in users'
    <2>1. CASE Issued(t)
      <3>1. tokens[t].owner = u
        BY <1>5, <2>1, TablesStep
      <3>2. QED
        BY <1>2, <3>1 DEF SessionsInv, RegistrationIsAtomic
    <2>2. CASE ~Issued(t)
      <3>1. Issued(t)'
        BY <1>5, GhostsStep, AuthAssumption DEF NoGhosts
      <3>2. QED
        BY <1>5, <2>2, <3>1, InsertedSession
    <2>3. QED
      BY <2>1, <2>2
  <1>6. QED
    BY <1>3, <1>4, <1>5

-----------------------------------------------------------------------------
LEMMA InitAuthInv == Init => AuthInv
  <1> SUFFICES ASSUME Init PROVE AuthInv
    OBVIOUS
  <1> USE DEF Init
  <1>1. TypeOK
    BY DEF TypeOK, DeviceRows, TokenRows, Issued
  <1>2. CallsInv
    BY DEF CallsInv, CallShape, LockShape, Decided, NoCall, Request, Issuing, Kind,
       User, Device, Old, New
  <1>3. LocksHeld
    BY DEF LocksHeld, NoCall, Request, New
  <1>4. NoGhosts /\ SessionsInv
    BY AuthAssumption DEF NoGhosts, SessionsInv, RevokedDeviceHasNoSession,
       OneTimeRefresh, SessionBelongsToDeviceOwner, RegistrationIsAtomic, Live, Issued
  <1>5. QED
    BY <1>1, <1>2, <1>3, <1>4 DEF AuthInv

LEMMA AuthInvStep == AuthInv /\ [Next]_vars => AuthInv'
  <1> SUFFICES ASSUME AuthInv, [Next]_vars PROVE AuthInv'
    OBVIOUS
  <1>1. CASE \E w \in Workers : CallStep(w)
    BY <1>1, TypeStep, CallsStep, LocksStep, GhostsStep, RevokedStep, RefreshStep,
       OwnerStep, RegistrationStep DEF AuthInv, SessionsInv
  <1>2. CASE UNCHANGED <<tables, pc, call, locked, todo, hit>>
             /\ expired' \subseteq Tokens
    <2>1. TypeOK' /\ NoGhosts'
      BY <1>2 DEF AuthInv, TypeOK, tables, NoGhosts, Issued
    <2>2. CallsInv'
      BY <1>2 DEF AuthInv, tables, CallsInv, CallShape, LockShape, Decided, Kind,
         User, Device, Old, New, OwnDevice, Owner, Live, Issued
    <2>3. LocksHeld'
      BY <1>2 DEF AuthInv, tables, LocksHeld, Device, New, Live, Issued
    <2>4. SessionsInv'
      BY <1>2 DEF AuthInv, tables, SessionsInv, RevokedDeviceHasNoSession,
         OneTimeRefresh, SessionBelongsToDeviceOwner, RegistrationIsAtomic, Live, Issued
    <2>5. QED
      BY <2>1, <2>2, <2>3, <2>4 DEF AuthInv
  <1>3. CASE \E t \in Tokens : Expire(t)
    BY <1>2, <1>3 DEF Expire, AuthInv, TypeOK, tables
  <1>4. CASE UNCHANGED vars
    BY <1>2, <1>4 DEF vars, AuthInv, TypeOK, tables
  <1>5. QED
    BY <1>1, <1>3, <1>4 DEF Next, CallStep

\* The inductive invariant holds: each call's variables are as its kind and its step
\* in the transaction say, the locks it relies on are its own, and the rows of sessions
\* agree with the devices.
THEOREM AuthInvariant == Spec => []AuthInv
  BY InitAuthInv, AuthInvStep, PTL DEF Spec

\* Every row and every request has its type in every reachable state, whatever
\* transactions of the auth service interleave.
THEOREM AuthTypes == Spec => []TypeOK
  <1>1. AuthInv => TypeOK
    BY DEF AuthInv
  <1>2. QED
    BY <1>1, AuthInvariant, PTL

\* RevokeDeviceForUser locks a device out: no token of a revoked device can be
\* used, however many logins and refreshes of the device run beside it.
THEOREM RevocationHolds == Spec => []RevokedDeviceHasNoSession
  <1>1. AuthInv => RevokedDeviceHasNoSession
    BY DEF AuthInv, SessionsInv
  <1>2. QED
    BY <1>1, AuthInvariant, PTL

\* RotateRefresh gives a refresh token one successor at most, and then it is
\* dead, however many calls present it at the same time.
THEOREM RefreshRotatesOnce == Spec => []OneTimeRefresh
  <1>1. AuthInv => OneTimeRefresh
    BY DEF AuthInv, SessionsInv
  <1>2. QED
    BY <1>1, AuthInvariant, PTL

\* upsertDevice never gives a session on a device that is another user's.
THEOREM DevicesStayOwned == Spec => []SessionBelongsToDeviceOwner
  <1>1. AuthInv => SessionBelongsToDeviceOwner
    BY DEF AuthInv, SessionsInv
  <1>2. QED
    BY <1>1, AuthInvariant, PTL

\* RegisterWithSession is all or nothing: the accounts are those that were
\* given a session.
THEOREM RegistrationAtomic == Spec => []RegistrationIsAtomic
  <1>1. AuthInv => RegistrationIsAtomic
    BY DEF AuthInv, SessionsInv
  <1>2. QED
    BY <1>1, AuthInvariant, PTL

=============================================================================
