---------------------------- MODULE AuthSessions ----------------------------
(***************************************************************************)
(* Accounts, devices and refresh tokens (internal/server/auth over         *)
(* storage/postgres/auth_repositories.go), one SQL statement per step,     *)
(* with several calls in flight.                                           *)
(*                                                                         *)
(* Every operation is a READ COMMITTED transaction, so its writes become   *)
(* visible at Commit; what it holds until then is the row locks (locked,   *)
(* hit) and the login it inserted.  A statement on a row that is locked by *)
(* another call waits and then judges the row as it has become.  Statements*)
(* that touch only rows the call has locked are part of the step before.   *)
(* Whatever ends a call early is Abort: nothing survives but what has been *)
(* committed.  A lost answer needs no action: the server's state is that   *)
(* of an answered call.                                                    *)
(***************************************************************************)
EXTENDS FiniteSets

CONSTANTS Users,     \* logins; the user id is generated with the account
          Devices,   \* device ids, chosen by clients
          Tokens,    \* refresh tokens: random, told apart by their hash
          Workers,   \* calls in flight
          None

ASSUME AuthAssumption ==
  None \notin Users \cup Devices \cup Tokens

VARIABLES
  users,    \* users: the registered logins
  devices,  \* devices: device id -> owner (None: no row) and revoked_at
  tokens,   \* refresh_tokens: token -> row
  expired,  \* tokens whose expires_at has passed
  parent,   \* the token each token replaced (None: issued by a login)
  pc,       \* the statement a call is at
  call,     \* its request
  locked,   \* it holds the row of its device
  todo,     \* rows its UPDATE of refresh_tokens has still to visit
  hit       \* token rows it holds

tables == <<users, devices, tokens, parent>>
vars   == <<users, devices, tokens, expired, parent, pc, call, locked, todo, hit>>

Kinds == {"register", "login", "refresh", "logout", "revoke"}

DeviceRows == [owner : Users \cup {None}, revoked : BOOLEAN]
TokenRows  == [owner : Users \cup {None}, device : Devices \cup {None},
               state : {"none", "live", "revoked"}]

Requests == [kind : Kinds, user : Users \cup {None},
             device : Devices \cup {None},
             old : Tokens \cup {None}, new : Tokens \cup {None},
             valid : BOOLEAN]

\* None for what a request does not carry; valid: its token had not expired.
Request(kind, user, device, old, new, valid) ==
  [kind |-> kind, user |-> user, device |-> device, old |-> old, new |-> new,
   valid |-> valid]

NoCall == Request("none", None, None, None, None, FALSE)

Init ==
  /\ users = {}
  /\ devices = [d \in Devices |-> [owner |-> None, revoked |-> FALSE]]
  /\ tokens = [t \in Tokens |->
                 [owner |-> None, device |-> None, state |-> "none"]]
  /\ expired = {}
  /\ parent = [t \in Tokens |-> None]
  /\ pc = [w \in Workers |-> "idle"]
  /\ call = [w \in Workers |-> NoCall]
  /\ locked = [w \in Workers |-> FALSE]
  /\ todo = [w \in Workers |-> {}]
  /\ hit = [w \in Workers |-> {}]

Kind(w)   == call[w].kind
User(w)   == call[w].user
Device(w) == call[w].device
Old(w)    == call[w].old
New(w)    == call[w].new

Live(t)   == tokens[t].state = "live"
Issued(t) == tokens[t].state # "none"

-----------------------------------------------------------------------------
(***************************************************************************)
(* PostgreSQL's locks.                                                     *)
(***************************************************************************)
HoldsUser(w)     == Kind(w) = "register" /\ pc[w] \in {"device", "commit"}
UserFree(w)      == \A v \in Workers \ {w} : HoldsUser(v) => User(v) # User(w)
DeviceFree(w)    == \A v \in Workers \ {w} : locked[v] => Device(v) # Device(w)
TokenFree(w, t)  == \A v \in Workers \ {w} : t \notin hit[v]

\* The call of v holds what the call of w waits for.
Blocks(v, w) ==
  /\ v # w
  /\ \/ pc[w] = "user" /\ HoldsUser(v) /\ User(v) = User(w)
     \/ pc[w] \in {"device", "lockDevice"} /\ locked[v] /\ Device(v) = Device(w)
     \/ pc[w] = "token" /\ Old(w) \in hit[v]
     \/ pc[w] = "tokens" /\ todo[w] \cap hit[v] # {}

\* The deadlock detector finds w in a circle of waiting calls.
Deadlocked(w) ==
  \E S \in SUBSET Workers :
    w \in S /\ \A x \in S : \E v \in S : Blocks(v, x)

-----------------------------------------------------------------------------
End(w) ==
  /\ pc' = [pc EXCEPT ![w] = "idle"]
  /\ call' = [call EXCEPT ![w] = NoCall]
  /\ locked' = [locked EXCEPT ![w] = FALSE]
  /\ todo' = [todo EXCEPT ![w] = {}]
  /\ hit' = [hit EXCEPT ![w] = {}]

\* Mutant: the error is not returned, the call tries again and again.
RefuseLater(w) == UNCHANGED <<expired, tables, pc, call, locked, todo, hit>>

\* ErrAlreadyExists, ErrUnauthorized, ErrDeviceNotFound: Rollback.
Refuse(w) == End(w) /\ UNCHANGED <<expired, tables>>

Goto(w, l) == pc' = [pc EXCEPT ![w] = l]

\* NewRefreshToken: a random token, so none that exists or is about to.
FreshToken(t) == ~Issued(t) /\ \A v \in Workers : New(v) # t

Start(w, l, request) ==
  /\ pc[w] = "idle"
  /\ Goto(w, l)
  /\ call' = [call EXCEPT ![w] = request]
  /\ UNCHANGED <<expired, tables, locked, todo, hit>>

Register(w) ==
  \E u \in Users, d \in Devices, t \in Tokens :
    /\ FreshToken(t)
    /\ Start(w, "user", Request("register", u, d, None, t, FALSE))

\* The password was checked against the account of the login.
Login(w) ==
  \E u \in users, d \in Devices, t \in Tokens :
    /\ FreshToken(t)
    /\ Start(w, "device", Request("login", u, d, None, t, FALSE))

\* The clock is read here; the token may expire before it is looked up.
Refresh(w) ==
  \E s \in Tokens, d \in Devices, t \in Tokens :
    /\ Issued(s) /\ FreshToken(t)
    /\ Start(w, "token", Request("refresh", None, d, s, t, s \notin expired))

Logout(w) ==
  \E s \in Tokens :
    /\ Issued(s)
    /\ Start(w, "token", Request("logout", None, None, s, None, FALSE))

RevokeDevice(w) ==
  \E u \in users, d \in Devices :
    Start(w, "device", Request("revoke", u, d, None, None, FALSE))

-----------------------------------------------------------------------------
\* Mutant: the account is committed before the device is accepted.
insertUserAlone(w) ==
  /\ pc[w] = "user"
  /\ UserFree(w)
  /\ \/ User(w) \in users /\ Refuse(w)
     \/ /\ User(w) \notin users
        /\ users' = users \cup {User(w)}
        /\ Goto(w, "device")
        /\ UNCHANGED <<expired, devices, tokens, parent, call, locked, todo, hit>>

\* The unique index on login.
insertUser(w) ==
  /\ pc[w] = "user"
  /\ UserFree(w)
  /\ \/ User(w) \in users /\ Refuse(w)
     \/ /\ User(w) \notin users
        /\ Goto(w, "device")
        /\ UNCHANGED <<expired, tables, call, locked, todo, hit>>

Owner(w) == devices[Device(w)].owner

\* Mutant: ON CONFLICT DO UPDATE without its WHERE clause.
AnyDevice(w) == Device(w) \in Devices

\* WHERE devices.user_id = EXCLUDED.user_id, or no row to conflict with.
OwnDevice(w) == Owner(w) \in {None, User(w)}

\* INSERT ... ON CONFLICT DO UPDATE, then the session row.
upsertDevice(w) ==
  /\ pc[w] = "device" /\ Kind(w) \in {"register", "login"}
  /\ DeviceFree(w)
  /\ \/ ~OwnDevice(w) /\ Refuse(w)
     \/ /\ OwnDevice(w)
        /\ locked' = [locked EXCEPT ![w] = TRUE]
        /\ Goto(w, "commit")
        /\ UNCHANGED <<expired, tables, call, todo, hit>>

\* The rows the SELECT of RotateRefresh finds.
Usable(w) ==
  LET row == tokens[Old(w)]
  IN  /\ row.state = "live" /\ call[w].valid
      /\ row.device = Device(w)
      /\ Owner(w) = row.owner /\ ~devices[Device(w)].revoked

\* Mutant: SELECT without FOR UPDATE, and the affected rows not counted.
lockTokenNot(w) ==
  /\ pc[w] = "token" /\ Kind(w) = "refresh"
  /\ \/ ~Usable(w) /\ Refuse(w)
     \/ /\ Usable(w)
        /\ Goto(w, "lockDevice")
        /\ UNCHANGED <<expired, tables, call, locked, todo, hit>>

\* FOR UPDATE locks the token first ...
lockToken(w) ==
  /\ pc[w] = "token" /\ Kind(w) = "refresh"
  /\ \/ ~Usable(w) /\ Refuse(w)
     \/ /\ Usable(w) /\ TokenFree(w, Old(w))
        /\ hit' = [hit EXCEPT ![w] = {Old(w)}]
        /\ Goto(w, "lockDevice")
        /\ UNCHANGED <<expired, tables, call, locked, todo>>

\* Mutant: FOR UPDATE OF rt, which leaves the device row alone.
lockDeviceNot(w) ==
  /\ pc[w] = "lockDevice"
  /\ Goto(w, "commit")
  /\ UNCHANGED <<expired, tables, call, locked, todo, hit>>

\* ... and then the device, which is judged again if it had to be waited for.
lockDevice(w) ==
  /\ pc[w] = "lockDevice"
  /\ DeviceFree(w)
  /\ \/ devices[Device(w)].revoked /\ Refuse(w)
     \/ /\ ~devices[Device(w)].revoked
        /\ locked' = [locked EXCEPT ![w] = TRUE]
        /\ Goto(w, "commit")
        /\ UNCHANGED <<expired, tables, call, todo, hit>>

\* Logout: one statement on the pool; a token already revoked is no error.
RevokeByHash(w) ==
  /\ pc[w] = "token" /\ Kind(w) = "logout"
  /\ \/ ~Live(Old(w)) /\ UNCHANGED tokens
     \/ /\ Live(Old(w)) /\ TokenFree(w, Old(w))
        /\ tokens' = [tokens EXCEPT ![Old(w)].state = "revoked"]
  /\ End(w)
  /\ UNCHANGED <<expired, users, devices, parent>>

\* The device row: locked if it is to be revoked, passed by if it already is.
revokeDeviceRow(w) ==
  /\ pc[w] = "device" /\ Kind(w) = "revoke"
  /\ \/ Owner(w) # User(w) /\ Refuse(w)
     \/ /\ Owner(w) = User(w)
        /\ \/ devices[Device(w)].revoked /\ UNCHANGED locked
           \/ /\ ~devices[Device(w)].revoked /\ DeviceFree(w)
              /\ locked' = [locked EXCEPT ![w] = TRUE]
        /\ Goto(w, "list")
        /\ UNCHANGED <<expired, tables, call, todo, hit>>

\* The snapshot of the UPDATE of refresh_tokens.
listTokens(w) ==
  /\ pc[w] = "list"
  /\ Goto(w, "tokens")
  /\ todo' = [todo EXCEPT ![w] =
       {t \in Tokens : /\ Live(t) /\ tokens[t].device = Device(w)
                       /\ tokens[t].owner = User(w)}]
  /\ UNCHANGED <<expired, tables, call, locked, hit>>

\* The UPDATE takes the rows one by one; one revoked meanwhile is left alone.
revokeToken(w) ==
  /\ pc[w] = "tokens"
  /\ \E t \in todo[w] :
       /\ TokenFree(w, t)
       /\ todo' = [todo EXCEPT ![w] = @ \ {t}]
       /\ hit' = [hit EXCEPT ![w] = IF Live(t) THEN @ \cup {t} ELSE @]
  /\ UNCHANGED <<expired, tables, pc, call, locked>>

-----------------------------------------------------------------------------
\* Mutant: the user of the new row is not taken over.
SessionUnfilled(w, u) == [owner |-> None, device |-> Device(w), state |-> "live"]

Session(w, u) == [owner |-> u, device |-> Device(w), state |-> "live"]

CommitSession(w) ==
  /\ pc[w] = "commit" /\ Kind(w) \in {"register", "login"}
  /\ users' = users \cup {User(w)}
  /\ devices' = [devices EXCEPT ![Device(w)] =
                   [owner |-> User(w), revoked |-> FALSE]]
  /\ tokens' = [tokens EXCEPT ![New(w)] = Session(w, User(w))]
  /\ End(w)
  /\ UNCHANGED <<expired, parent>>

CommitRotate(w) ==
  /\ pc[w] = "commit" /\ Kind(w) = "refresh"
  /\ tokens' = [tokens EXCEPT ![Old(w)].state = "revoked",
                              ![New(w)] = Session(w, tokens[Old(w)].owner)]
  /\ parent' = [parent EXCEPT ![New(w)] = Old(w)]
  /\ End(w)
  /\ UNCHANGED <<expired, users, devices>>

CommitRevoke(w) ==
  /\ pc[w] = "tokens" /\ todo[w] = {}
  /\ devices' = [devices EXCEPT ![Device(w)].revoked = @ \/ locked[w]]
  /\ tokens' = [t \in Tokens |-> IF t \in hit[w]
                  THEN [tokens[t] EXCEPT !.state = "revoked"] ELSE tokens[t]]
  /\ End(w)
  /\ UNCHANGED <<expired, users, parent>>

\* An error, a cancelled request, a crash, or the deadlock detector.
Abort(w) == pc[w] # "idle" /\ End(w) /\ UNCHANGED <<expired, tables>>

\* Time passes.
Expire(t) ==
  /\ Live(t) /\ t \notin expired
  /\ expired' = expired \cup {t}
  /\ UNCHANGED <<tables, pc, call, locked, todo, hit>>

-----------------------------------------------------------------------------
Step(w) ==
  \/ insertUser(w) \/ upsertDevice(w) \/ lockToken(w) \/ lockDevice(w)
  \/ RevokeByHash(w) \/ revokeDeviceRow(w) \/ listTokens(w) \/ revokeToken(w)
  \/ CommitSession(w) \/ CommitRotate(w) \/ CommitRevoke(w)

Next ==
  \/ \E w \in Workers :
       \/ Register(w) \/ Login(w) \/ Refresh(w) \/ Logout(w) \/ RevokeDevice(w)
       \/ Abort(w) \/ Step(w)
  \/ \E t \in Tokens : Expire(t)

Spec == Init /\ [][Next]_vars

\* Calls keep running.  Fairness is strong because PostgreSQL grants a row lock
\* in the order it was asked for: who comes later does not overtake a waiter.
\* A call found in a deadlock is aborted.
FairSpec ==
  Spec /\ \A w \in Workers :
            SF_vars(Step(w)) /\ WF_vars(Deadlocked(w) /\ Abort(w))

-----------------------------------------------------------------------------
(***************************************************************************)
(* Properties.                                                             *)
(***************************************************************************)

\* The type invariant; a token row names its user and its device.
TypeOK ==
  /\ users \subseteq Users
  /\ devices \in [Devices -> DeviceRows]
  /\ tokens \in [Tokens -> TokenRows]
  /\ expired \subseteq Tokens
  /\ parent \in [Tokens -> Tokens \cup {None}]
  /\ pc \in [Workers -> {"idle", "user", "device", "token", "lockDevice",
                         "list", "tokens", "commit"}]
  /\ call \in [Workers -> Requests \cup {NoCall}]
  /\ locked \in [Workers -> BOOLEAN]
  /\ todo \in [Workers -> SUBSET Tokens]
  /\ hit \in [Workers -> SUBSET Tokens]
  /\ \A t \in Tokens : Issued(t) =>
       tokens[t].owner \in Users /\ tokens[t].device \in Devices

\* A revoked device is out: none of its refresh tokens can be used, although
\* logins and refreshes of the device run while RevokeDeviceForUser does, and
\* insert tokens its UPDATE does not see.  The row lock on the device, which
\* upsertDevice, RotateRefresh and the revocation all take, is what orders them.
RevokedDeviceHasNoSession ==
  \A t \in Tokens : Live(t) => ~devices[tokens[t].device].revoked

\* Refresh rotates once: however many calls present the same refresh token at
\* the same time, one of them gets a successor, and then the token is dead.  So
\* each login has one live refresh token at most.
OneTimeRefresh ==
  \A t \in Tokens : parent[t] # None =>
    /\ tokens[parent[t]].state = "revoked"
    /\ \A s \in Tokens : parent[s] = parent[t] => s = t

\* A session belongs to the owner of its device: nobody gets a session on a
\* device id that is another user's, by racing its registration or by naming it
\* (the WHERE clause of upsertDevice).
SessionBelongsToDeviceOwner ==
  \A t \in Tokens : Issued(t) =>
    devices[tokens[t].device].owner = tokens[t].owner

\* A registration is all or nothing: an account exists iff it was given a
\* session, so a login that was refused or failed half way is free again.
RegistrationIsAtomic ==
  \A u \in Users : u \in users <=> \E t \in Tokens : tokens[t].owner = u

\* No call waits for ever.  RotateRefresh locks token and device in the other
\* order than RevokeDeviceForUser, so the two can wait for each other, and only
\* the deadlock detector ends that, with an error for one of them.
EveryCallEnds == \A w \in Workers : pc[w] # "idle" ~> pc[w] = "idle"

=============================================================================
