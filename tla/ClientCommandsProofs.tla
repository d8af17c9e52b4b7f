------------------------ MODULE ClientCommandsProofs ------------------------
(***************************************************************************)
(* The commands on one data directory, for any number of accounts, keys,   *)
(* operations, files, commands at the same time and changes of account:    *)
(* no key is lost, what is sealed for whom, what can be read, and which    *)
(* operations a race of two commands can drop.                             *)
(***************************************************************************)
EXTENDS ClientCommands, OrderFacts

Elements(q) == {q[k] : k \in DOMAIN q}

AppliedOps == {log[r].op : r \in DOMAIN log}

\* An item that was deleted on the server, and one whose payload may be missing.
Deleted(i) == \E r \in DOMAIN log : log[r].id = i /\ log[r].kind = "delete"
Missing(i) ==
  \E r \in DOMAIN log : log[r].id = i /\ (log[r].kind = "delete" \/ log[r].op \in Large)

\* The keys of the accounts that the directory has had, and of the one that it has.
Held    == {None} \cup {account[u] : u \in had}
OwnKeys == {k \in Keys : auth.user # None /\ k = account[auth.user]}

\* What may be saved in auth_state: a wrapped key in it is the account's.
GoodAuths ==
  {a \in AuthStates :
     /\ a.token = a.user
     /\ a.dek # None => a.user # None /\ a.dek.text = account[a.user]}

\* What may be queued: only a delete carries no key, and an operation that no change of
\* account caught is sealed for the account.
GoodOps ==
  {o \in Pending : /\ o.key \in Held /\ (o.kind # "delete" => o.key # None)
                   /\ o.op \in strays \/ o.key \in {None} \cup OwnKeys}

\* What may be in an answer, and in a row: the fields are missing only once the item was
\* deleted, and the payload alone only once it was written above the threshold.
GoodEvents ==
  {e \in Events : /\ e.sealed \in Held /\ (e.sealed = None => Deleted(e.id))
                  /\ ~e.payload => Missing(e.id)}

GoodRows(i) ==
  {w \in Row : /\ w.sealed \in Held /\ (w.sealed = None => Deleted(i))
               /\ ~w.payload => Missing(i)}

\* What may be in a vault.
GoodPushes ==
  {e \in Pushed : /\ e.key \in Held /\ (e.kind # "delete" => e.key # None)
                  /\ e.key \in {None, account[e.user]} \/ e.op \in strays}

-----------------------------------------------------------------------------
ServerInv ==
  /\ Elements(log) \subseteq GoodPushes
  /\ \A b \in Blobs : blobs[b] # None =>
       /\ blobs[b].key \in Held
       /\ blobs[b].key = account[blobs[b].owner] \/ b \in strays

DirectoryInv ==
  /\ auth \in GoodAuths
  /\ Elements(queue) \subseteq GoodOps
  /\ \A i \in List : /\ rows[i] \in GoodRows(i)
                     /\ rows[i].blob # None => blobs[rows[i].blob] # None

HistoryInv == auth.user \in {None} \cup had

\* A command beside which the account did not change speaks for it and has its key; its
\* file is committed before a row refers to it.
CommandInv(p) ==
  /\ proc[p].auth \in GoodAuths
  /\ Elements(proc[p].queue) \subseteq GoodOps
  /\ proc[p].dek \in Held
  /\ proc[p].inbox \subseteq GoodEvents
  /\ proc[p].blob # None => blobs[proc[p].blob] # None
  /\ ~proc[p].stray => /\ proc[p].token \in {None, auth.user}
                       /\ proc[p].dek \in {None} \cup OwnKeys
  /\ proc[p].stray /\ At(p, "push") => OpsOf(proc[p].queue) \subseteq strays
  /\ At(p, "login") => proc[p].auth.user # None
  /\ ~At(p, "push") => proc[p].done = 0
  /\ At(p, "save") => Len(proc[p].queue) # 0
  /\ At(p, "idle") => proc[p] = Idle

\* What is queued is known to every command that may save the queue; what such a command
\* knows is queued, but for the operation it adds; and what the server went through is
\* applied.  Each time except for operations that were saved beside another command, or
\* are applied.
RaceInv(p) ==
  /\ p \in Holding =>
       /\ OpsOf(queue) \subseteq OpsOf(proc[p].queue) \cup raced \cup AppliedOps
       /\ \A k \in DOMAIN proc[p].queue :
            \/ proc[p].queue[k].op \in OpsOf(queue) \cup raced \cup AppliedOps
            \/ At(p, "save") /\ k = Len(proc[p].queue)
  /\ At(p, "push") /\ ~proc[p].conflict =>
       \A k \in DOMAIN proc[p].queue :
         k <= proc[p].done => proc[p].queue[k].op \in AppliedOps

CommandsInv ==
  /\ TypeOK /\ ServerInv /\ DirectoryInv /\ HistoryInv
  /\ \A p \in Slots : CommandInv(p) /\ RaceInv(p)

-----------------------------------------------------------------------------
(***************************************************************************)
(* Facts about a state.                                                    *)
(***************************************************************************)
LEMMA NoneIsNew ==
  None \notin Users /\ None \notin Keys /\ None \notin Ops /\ None \notin Blobs
  BY CommandsAssumption

LEMMA CommandFacts ==
  ASSUME NEW c \in Commands
  PROVE  /\ c.token \in Maybe(Users) /\ c.auth \in AuthStates
         /\ c.queue \in Seq(Pending) /\ c.rev \in Nat /\ c.dek \in Maybe(Keys)
         /\ c.blob \in Maybe(Blobs) /\ c.done \in Nat /\ c.conflict \in BOOLEAN
         /\ c.inbox \subseteq Events /\ c.stray \in BOOLEAN
  BY DEF Commands

LEMMA NoAuthType == NoAuth \in AuthStates /\ NoAuth.token = NoAuth.user /\ NoAuth.dek = None
  BY DEF NoAuth, AuthStates, Maybe

LEMMA IdleFacts ==
  /\ Idle \in Commands /\ Idle.pc = "idle" /\ Idle.token = None /\ Idle.auth = NoAuth
  /\ Idle.queue = <<>> /\ Idle.rev = 0 /\ Idle.dek = None /\ Idle.blob = None
  /\ Idle.done = 0 /\ Idle.conflict = FALSE /\ Idle.inbox = {} /\ Idle.stray = FALSE
  <1>1. <<>> \in Seq(Pending)
    OBVIOUS
  <1>2. Idle \in Commands
    BY <1>1, NoAuthType DEF Idle, Commands, Maybe
  <1>3. QED
    BY <1>2 DEF Idle

LEMMA StateFacts ==
  ASSUME TypeOK
  PROVE  /\ account \in [Users -> Maybe(Keys)] /\ log \in Seq(Pushed)
         /\ blobs \in [Blobs -> Maybe([owner : Users, key : Keys])]
         /\ auth \in AuthStates /\ rows \in [Ids -> Maybe(Row)]
         /\ queue \in Seq(Pending) /\ lastRev \in 0..Len(log)
         /\ proc \in [Slots -> Commands]
         /\ \A p \in Slots :
              /\ proc[p] \in Commands
              /\ proc[p].pc \in {"unlocked", "uploaded"} => proc[p].dek \in Keys
              /\ proc[p].rev <= Len(log) /\ proc[p].done <= Len(proc[p].queue)
         /\ used \subseteq Ops /\ raced \subseteq Ops /\ strays \subseteq Ops \cup Blobs
         /\ had \subseteq Users
  BY DEF TypeOK

LEMMA SeqFacts ==
  ASSUME NEW S, NEW q \in Seq(S)
  PROVE  /\ Len(q) \in Nat /\ DOMAIN q = 1..Len(q)
         /\ \A k \in DOMAIN q : q[k] \in S
  OBVIOUS

LEMMA AppendFacts ==
  ASSUME NEW q, NEW a, NEW o, Len(q) \in Nat, Len(a) = Len(q) + 1,
         DOMAIN q = 1..Len(q), DOMAIN a = 1..(Len(q) + 1),
         \A k \in 1..Len(q) : a[k] = q[k], a[Len(q) + 1] = o
  PROVE  /\ \A k \in DOMAIN q : k \in DOMAIN a /\ a[k] = q[k] /\ k # Len(a)
         /\ Len(a) \in DOMAIN a /\ a[Len(a)] = o
         /\ \A k \in DOMAIN a : k \in DOMAIN q \/ (k = Len(a) /\ a[k] = o)
         /\ Elements(a) = Elements(q) \cup {o}
  <1>1. /\ \A k \in DOMAIN q : k \in DOMAIN a /\ a[k] = q[k] /\ k # Len(a)
        /\ Len(a) \in DOMAIN a /\ a[Len(a)] = o
        /\ \A k \in DOMAIN a : k \in DOMAIN q \/ (k = Len(a) /\ a[k] = o)
    OBVIOUS
  <1>2. Elements(a) = Elements(q) \cup {o}
    BY <1>1 DEF Elements
  <1>3. QED
    BY <1>1, <1>2

LEMMA EmptyQueue == Elements(<<>>) = {} /\ OpsOf(<<>>) = {} /\ DOMAIN <<>> = {}
  BY DEF Elements, OpsOf

LEMMA OpsOfType ==
  ASSUME NEW q \in Seq(Pending)
  PROVE  OpsOf(q) \subseteq Ops
  <1>1. \A k \in DOMAIN q : q[k] \in Pending
    BY SeqFacts
  <1>2. \A o \in Pending : o.op \in Ops
    BY DEF Pending
  <1>3. QED
    BY <1>1, <1>2 DEF OpsOf

-----------------------------------------------------------------------------
(***************************************************************************)
(* What only grows: every step but a change of account.                    *)
(***************************************************************************)
Later ==
  /\ \A u \in Users : account[u] # None => account'[u] = account[u]
  /\ \A b \in Blobs : blobs[b] # None => blobs'[b] = blobs[b]
  /\ \A r \in DOMAIN log : r \in DOMAIN log' /\ log'[r] = log[r]
  /\ auth.user # None => auth'.user = auth.user
  /\ strays \subseteq strays' /\ raced \subseteq raced' /\ had \subseteq had'

LEMMA LaterSets ==
  ASSUME TypeOK, TypeOK', Later
  PROVE  /\ AppliedOps \subseteq AppliedOps'
         /\ Held \subseteq Held' /\ OwnKeys \subseteq OwnKeys'
         /\ GoodAuths \subseteq GoodAuths' /\ GoodOps \subseteq GoodOps'
         /\ GoodEvents \subseteq GoodEvents' /\ GoodPushes \subseteq GoodPushes'
         /\ \A i \in Ids : GoodRows(i) \subseteq GoodRows(i)'
  <1>1. AppliedOps \subseteq AppliedOps'
    BY DEF Later, AppliedOps
  <1>2. Held \subseteq Held'
    BY StateFacts DEF Later, Held
  <1>3. auth.user \in Maybe(Users) /\ \A a \in AuthStates : a.user \in Maybe(Users)
    BY StateFacts DEF AuthStates
  <1>4. OwnKeys \subseteq OwnKeys'
    BY <1>3, NoneIsNew DEF Later, OwnKeys, Maybe
  <1>5. \A a \in AuthStates : a.dek # None => a.dek.text \in Keys
    BY DEF AuthStates, Maybe, WrappedKeys
  <1>6. GoodAuths \subseteq GoodAuths'
    BY <1>3, <1>5, NoneIsNew DEF Later, GoodAuths, Maybe
  <1>7. GoodOps \subseteq GoodOps'
    BY <1>2, <1>4 DEF Later, GoodOps
  <1>8. /\ GoodEvents \subseteq GoodEvents'
        /\ \A i \in Ids : GoodRows(i) \subseteq GoodRows(i)'
    <2>1. ASSUME NEW i PROVE (Deleted(i) => Deleted(i)') /\ (Missing(i) => Missing(i)')
      BY DEF Later, Deleted, Missing
    <2>2. GoodEvents \subseteq GoodEvents'
      BY <1>2, <2>1 DEF GoodEvents
    <2>3. \A i \in Ids : GoodRows(i) \subseteq GoodRows(i)'
      BY <1>2, <2>1 DEF GoodRows
    <2>4. QED
      BY <2>2, <2>3
  <1>9. \A e \in Pushed : e.user \in Users
    BY DEF Pushed
  <1>10. GoodPushes \subseteq GoodPushes'
    BY <1>2, <1>9 DEF Later, GoodPushes
  <1>11. QED
    BY <1>1, <1>2, <1>4, <1>6, <1>7, <1>8, <1>10

LEMMA ServerKept ==
  ASSUME TypeOK, TypeOK', Later, ServerInv, UNCHANGED <<log, blobs>>
  PROVE  ServerInv'
  <1>1. Elements(log) \subseteq GoodPushes'
    BY LaterSets DEF ServerInv
  <1>2. ASSUME NEW b \in Blobs, blobs[b] # None
        PROVE  /\ blobs[b].key \in Held'
               /\ blobs[b].key = account'[blobs[b].owner] \/ b \in strays'
    <2>1. blobs[b].owner \in Users /\ blobs[b].key \in Keys
      BY <1>2, StateFacts DEF Maybe
    <2>2. QED
      BY <1>2, <2>1, LaterSets, NoneIsNew DEF ServerInv, Later
  <1>3. QED
    BY <1>1, <1>2 DEF ServerInv, Elements

\* The directory with a new row in auth_state, or a new queue.
LEMMA DirectorySaved ==
  ASSUME TypeOK, TypeOK', Later, DirectoryInv, UNCHANGED rows,
         auth' \in GoodAuths', Elements(queue') \subseteq GoodOps'
  PROVE  DirectoryInv'
  <1>1. ASSUME NEW i \in List
        PROVE  /\ rows[i] \in GoodRows(i)'
               /\ rows[i].blob # None => blobs'[rows[i].blob] # None
    <2>1. i \in Ids /\ rows[i].blob \in Maybe(Blobs)
      BY StateFacts DEF List, Maybe, Row
    <2>2. QED
      BY <2>1, LaterSets DEF DirectoryInv, Later, Maybe
  <1>2. QED
    BY <1>1 DEF DirectoryInv, Elements, List

LEMMA DirectoryKept ==
  ASSUME TypeOK, TypeOK', Later, DirectoryInv, UNCHANGED <<auth, queue, rows>>
  PROVE  DirectoryInv'
  <1>1. auth \in GoodAuths' /\ Elements(queue) \subseteq GoodOps'
    BY LaterSets DEF DirectoryInv
  <1>2. auth' \in GoodAuths' /\ Elements(queue') \subseteq GoodOps'
    BY <1>1
  <1>3. QED
    BY <1>2, DirectorySaved

\* A command that takes no step.
LEMMA CommandKept ==
  ASSUME TypeOK, TypeOK', Later, NEW q \in Slots, CommandInv(q), proc'[q] = proc[q]
  PROVE  CommandInv(q)'
  <1>1. proc[q].blob \in Maybe(Blobs) /\ proc[q].token \in Maybe(Users)
    BY StateFacts, CommandFacts
  <1>2. /\ proc[q].auth \in GoodAuths' /\ Elements(proc[q].queue) \subseteq GoodOps'
        /\ proc[q].dek \in Held' /\ proc[q].inbox \subseteq GoodEvents'
    BY LaterSets DEF CommandInv
  <1>3. proc[q].blob # None => blobs'[proc[q].blob] # None
    BY <1>1 DEF CommandInv, Later, Maybe
  <1>4. ~proc[q].stray => /\ proc[q].token \in {None, auth'.user}
                          /\ proc[q].dek \in {None} \cup OwnKeys'
    BY LaterSets DEF CommandInv, Later
  <1>5. proc[q].stray /\ proc[q].pc = "push" => OpsOf(proc[q].queue) \subseteq strays'
    BY DEF CommandInv, Later, At
  <1>6. QED
    BY <1>2, <1>3, <1>4, <1>5 DEF CommandInv, At, Elements, OpsOf

LEMMA OthersKept ==
  ASSUME TypeOK, TypeOK', Later, UNCHANGED queue, NEW q \in Slots,
         CommandInv(q), RaceInv(q), proc'[q] = proc[q]
  PROVE  CommandInv(q)' /\ RaceInv(q)'
  <1>1. CommandInv(q)'
    BY CommandKept
  <1>2. q \in Holding' <=> q \in Holding
    BY DEF Holding, Running, At
  <1>3. RaceInv(q)'
    BY <1>2, LaterSets DEF RaceInv, Later, At, OpsOf
  <1>4. QED
    BY <1>1, <1>3

\* A command that is over.
LEMMA IdleKept ==
  ASSUME TypeOK, NEW p \in Slots, proc'[p] = Idle
  PROVE  CommandInv(p)' /\ RaceInv(p)'
  <1>1. NoAuth \in GoodAuths'
    BY NoAuthType DEF GoodAuths
  <1>2. CommandInv(p)'
    BY <1>1, IdleFacts, EmptyQueue DEF CommandInv, Held, At
  <1>3. p \notin Holding' /\ ~At(p, "push")'
    BY IdleFacts DEF Holding, Running, At
  <1>4. QED
    BY <1>2, <1>3 DEF RaceInv

LEMMA BecomesFacts ==
  ASSUME TypeOK, NEW p \in Slots, NEW c \in Commands, Becomes(p, c)
  PROVE  /\ proc' \in [Slots -> Commands] /\ proc'[p] = c
         /\ \A q \in Slots : q # p => proc'[q] = proc[q]
  BY StateFacts DEF Becomes

\* A step of command p that changes neither auth_state nor the queue: what is left to
\* show is about p and about what the step writes.
LEMMA StepKept ==
  ASSUME CommandsInv, TypeOK', NEW p \in Slots, Later, UNCHANGED queue,
         \A q \in Slots : q # p => proc'[q] = proc[q],
         ServerInv', DirectoryInv', HistoryInv', CommandInv(p)', RaceInv(p)'
  PROVE  CommandsInv'
  <1>1. ASSUME NEW q \in Slots, q # p PROVE CommandInv(q)' /\ RaceInv(q)'
    BY <1>1, OthersKept DEF CommandsInv
  <1>2. QED
    BY <1>1 DEF CommandsInv

\* A step in which p goes on as c: what is left to show of the types.
LEMMA StepTyped ==
  ASSUME TypeOK, NEW p \in Slots, NEW c \in Commands, Becomes(p, c),
         account' \in [Users -> Maybe(Keys)], log' \in Seq(Pushed), Len(log) <= Len(log'),
         blobs' \in [Blobs -> Maybe([owner : Users, key : Keys])],
         auth' \in AuthStates, rows' \in [Ids -> Maybe(Row)],
         queue' \in Seq(Pending), lastRev' \in 0..Len(log'),
         used' \subseteq Ops, raced' \subseteq Ops, strays' \subseteq Ops \cup Blobs,
         had' \subseteq Users,
         c.pc \in {"unlocked", "uploaded"} => c.dek \in Keys,
         c.rev <= Len(log'), c.done <= Len(c.queue)
  PROVE  /\ TypeOK' /\ proc'[p] = c
         /\ \A q \in Slots : q # p => proc'[q] = proc[q]
  <1>1. /\ proc' \in [Slots -> Commands] /\ proc'[p] = c
        /\ \A q \in Slots : q # p => proc'[q] = proc[q]
    BY BecomesFacts
  <1>2. Len(log) \in Nat /\ Len(log') \in Nat
    BY StateFacts, SeqFacts
  <1>3. ASSUME NEW q \in Slots
        PROVE  /\ proc'[q].pc \in {"unlocked", "uploaded"} => proc'[q].dek \in Keys
               /\ proc'[q].rev <= Len(log') /\ proc'[q].done <= Len(proc'[q].queue)
    <2>1. CASE q = p
      BY <1>1, <2>1
    <2>2. CASE q # p
      <3>1. proc[q].rev \in Nat /\ proc[q].rev <= Len(log)
        BY StateFacts, CommandFacts
      <3>2. proc'[q].rev <= Len(log')
        BY <1>1, <1>2, <2>2, <3>1
      <3>3. QED
        BY <1>1, <2>2, <3>2, StateFacts
    <2>3. QED
      BY <2>1, <2>2
  <1>4. QED
    BY <1>1, <1>3 DEF TypeOK

-----------------------------------------------------------------------------
(***************************************************************************)
(* What a command becomes.                                                 *)
(***************************************************************************)
LEMMA LoginCommand ==
  ASSUME NEW a \in AuthStates, NEW d, d = [Idle EXCEPT !.pc = "login", !.auth = a]
  PROVE  /\ d \in Commands /\ d.pc = "login" /\ d.token = None /\ d.auth = a
         /\ d.queue = <<>> /\ d.rev = 0 /\ d.dek = None /\ d.blob = None /\ d.done = 0
         /\ d.conflict = FALSE /\ d.inbox = {} /\ d.stray = FALSE
  <1>1. PICK c \in Commands : c = Idle
    BY IdleFacts
  <1>2. d = [c EXCEPT !.pc = "login", !.auth = a]
    BY <1>1
  <1>3. /\ d \in Commands /\ d.pc = "login" /\ d.auth = a
        /\ d.token = c.token /\ d.queue = c.queue /\ d.rev = c.rev /\ d.dek = c.dek
        /\ d.blob = c.blob /\ d.done = c.done /\ d.conflict = c.conflict
        /\ d.inbox = c.inbox /\ d.stray = c.stray
    BY <1>2 DEF Commands
  <1>4. QED
    BY <1>1, <1>3, IdleFacts

LEMMA OpenedCommand ==
  ASSUME NEW t \in Maybe(Users), NEW d, d = [Idle EXCEPT !.pc = "opened", !.token = t]
  PROVE  /\ d \in Commands /\ d.pc = "opened" /\ d.token = t /\ d.auth = NoAuth
         /\ d.queue = <<>> /\ d.rev = 0 /\ d.dek = None /\ d.blob = None /\ d.done = 0
         /\ d.conflict = FALSE /\ d.inbox = {} /\ d.stray = FALSE
  <1>1. PICK c \in Commands : c = Idle
    BY IdleFacts
  <1>2. d = [c EXCEPT !.pc = "opened", !.token = t]
    BY <1>1
  <1>3. /\ d \in Commands /\ d.pc = "opened" /\ d.token = t
        /\ d.auth = c.auth /\ d.queue = c.queue /\ d.rev = c.rev /\ d.dek = c.dek
        /\ d.blob = c.blob /\ d.done = c.done /\ d.conflict = c.conflict
        /\ d.inbox = c.inbox /\ d.stray = c.stray
    BY <1>2 DEF Commands
  <1>4. QED
    BY <1>1, <1>3, IdleFacts

-----------------------------------------------------------------------------
(***************************************************************************)
(* The steps that write neither the directory nor a vault.                 *)
(***************************************************************************)
LEMMA QuietStep ==
  ASSUME CommandsInv, NEW p \in Slots, NEW c \in Commands, Becomes(p, c),
         UNCHANGED <<log, blobs, auth, rows, queue, lastRev, used, had, raced>>,
         account' \in [Users -> Maybe(Keys)],
         \A u \in Users : account[u] # None => account'[u] = account[u],
         strays \subseteq strays', strays' \subseteq Ops \cup Blobs,
         c.pc \in {"unlocked", "uploaded"} => c.dek \in Keys,
         c.rev <= Len(log), c.done <= Len(c.queue)
  PROVE  /\ TypeOK' /\ Later /\ proc'[p] = c
         /\ CommandInv(p)' /\ RaceInv(p)' => CommandsInv'
  <1>1. TypeOK /\ ServerInv /\ DirectoryInv /\ HistoryInv
    BY DEF CommandsInv
  <1>2. Len(log) \in Nat
    BY <1>1, StateFacts, SeqFacts
  <1>3. /\ TypeOK' /\ proc'[p] = c
        /\ \A q \in Slots : q # p => proc'[q] = proc[q]
    <2>1. /\ log' \in Seq(Pushed) /\ Len(log) <= Len(log')
          /\ blobs' \in [Blobs -> Maybe([owner : Users, key : Keys])]
          /\ auth' \in AuthStates /\ rows' \in [Ids -> Maybe(Row)]
          /\ queue' \in Seq(Pending) /\ lastRev' \in 0..Len(log')
          /\ used' \subseteq Ops /\ raced' \subseteq Ops /\ had' \subseteq Users
      <3>1. /\ log \in Seq(Pushed)
            /\ blobs \in [Blobs -> Maybe([owner : Users, key : Keys])]
            /\ auth \in AuthStates /\ rows \in [Ids -> Maybe(Row)]
            /\ queue \in Seq(Pending) /\ lastRev \in 0..Len(log)
            /\ used \subseteq Ops /\ raced \subseteq Ops /\ had \subseteq Users
        BY <1>1, StateFacts
      <3>2. Len(log) <= Len(log)
        BY <1>2
      <3>3. QED
        BY <3>1, <3>2
    <2>2. c.rev <= Len(log')
      OBVIOUS
    <2>3. QED
      BY <1>1, <2>1, <2>2, StepTyped
  <1>4. Later
    BY DEF Later
  <1>5. ServerInv' /\ DirectoryInv'
    BY <1>1, <1>3, <1>4, ServerKept, DirectoryKept
  <1>6. HistoryInv'
    BY <1>1 DEF HistoryInv
  <1>7. QED
    BY <1>3, <1>4, <1>5, <1>6, StepKept

\* The end of a command, wherever it stops.
LEMMA EndKept ==
  ASSUME CommandsInv, NEW p \in Slots, End(p), UNCHANGED <<server, store, used, history>>
  PROVE  CommandsInv'
  <1>1. TypeOK
    BY DEF CommandsInv
  <1>2. Len(log) \in Nat /\ Len(Idle.queue) = 0
    BY <1>1, StateFacts, SeqFacts, IdleFacts
  <1>3. /\ TypeOK' /\ proc'[p] = Idle
        /\ CommandInv(p)' /\ RaceInv(p)' => CommandsInv'
    <2>1. /\ account' \in [Users -> Maybe(Keys)]
          /\ \A u \in Users : account[u] # None => account'[u] = account[u]
          /\ strays \subseteq strays' /\ strays' \subseteq Ops \cup Blobs
          /\ UNCHANGED <<log, blobs, auth, rows, queue, lastRev, used, had, raced>>
      BY <1>1, StateFacts DEF server, store, history
    <2>2. /\ Idle \in Commands /\ (Idle.pc \in {"unlocked", "uploaded"} => Idle.dek \in Keys)
          /\ Idle.rev <= Len(log) /\ Idle.done <= Len(Idle.queue)
      BY <1>2, IdleFacts
    <2>3. Becomes(p, Idle)
      BY DEF End
    <2>4. QED
      BY <2>1, <2>2, <2>3, QuietStep
  <1>4. QED
    BY <1>1, <1>3, IdleKept

LEMMA LoginStateKept ==
  ASSUME CommandsInv, NEW p \in Slots, NEW a \in AuthStates,
         Becomes(p, [Idle EXCEPT !.pc = "login", !.auth = a]),
         UNCHANGED <<log, blobs, store, used, history>>,
         account' \in [Users -> Maybe(Keys)],
         \A u \in Users : account[u] # None => account'[u] = account[u],
         a \in GoodAuths', a.user # None
  PROVE  CommandsInv'
  <1>1. TypeOK
    BY DEF CommandsInv
  <1>2. PICK c : c = [Idle EXCEPT !.pc = "login", !.auth = a]
    OBVIOUS
  <1>3. /\ c \in Commands /\ c.pc = "login" /\ c.token = None /\ c.auth = a
        /\ c.queue = <<>> /\ c.rev = 0 /\ c.dek = None /\ c.blob = None /\ c.done = 0
        /\ c.conflict = FALSE /\ c.inbox = {} /\ c.stray = FALSE
    BY <1>2, LoginCommand
  <1>4. Len(log) \in Nat /\ Len(c.queue) = 0
    BY <1>1, <1>3, StateFacts, SeqFacts
  <1>5. /\ proc'[p] = c
        /\ CommandInv(p)' /\ RaceInv(p)' => CommandsInv'
    <2>1. /\ strays \subseteq strays' /\ strays' \subseteq Ops \cup Blobs
          /\ UNCHANGED <<log, blobs, auth, rows, queue, lastRev, used, had, raced>>
      BY <1>1, StateFacts DEF store, history
    <2>2. /\ c.pc \in {"unlocked", "uploaded"} => c.dek \in Keys
          /\ c.rev <= Len(log) /\ c.done <= Len(c.queue) /\ Becomes(p, c)
      BY <1>2, <1>3, <1>4
    <2>3. QED
      BY <1>3, <2>1, <2>2, QuietStep
  <1>6. CommandInv(p)'
    BY <1>3, <1>5, EmptyQueue DEF CommandInv, Held, At
  <1>7. p \notin Holding' /\ ~At(p, "push")'
    BY <1>3, <1>5 DEF Holding, Running, At
  <1>8. QED
    BY <1>5, <1>6, <1>7 DEF RaceInv

LEMMA RegisterKept ==
  ASSUME CommandsInv, NEW p \in Slots, NEW u \in Users, registerCmd(p, u)
  PROVE  CommandsInv'
  <1>1. TypeOK
    BY DEF CommandsInv
  <1>2. PICK k \in Keys :
          /\ account' = [account EXCEPT ![u] = k]
          /\ Becomes(p, [Idle EXCEPT !.pc = "login", !.auth = RegisterState(u, k)])
    BY DEF registerCmd
  <1>3. account[u] = None /\ UNCHANGED <<log, blobs, store, used, history>>
    BY DEF registerCmd
  <1>4. /\ account' \in [Users -> Maybe(Keys)]
        /\ \A v \in Users : account[v] # None => account'[v] = account[v]
    BY <1>1, <1>2, <1>3, StateFacts DEF Maybe
  <1>5. PICK a : a = RegisterState(u, k)
    OBVIOUS
  <1>6. a \in AuthStates /\ a.token = a.user /\ a.user # None /\ a.dek = None
    BY <1>5, NoneIsNew DEF RegisterState, NoAuth, AuthStates, Maybe
  <1>7. a \in GoodAuths'
    BY <1>6 DEF GoodAuths
  <1>8. Becomes(p, [Idle EXCEPT !.pc = "login", !.auth = a])
    BY <1>2, <1>5
  <1>9. QED
    BY <1>3, <1>4, <1>6, <1>7, <1>8, LoginStateKept

LEMMA LoginKept ==
  ASSUME CommandsInv, NEW p \in Slots, NEW u \in Users, loginCmd(p, u)
  PROVE  CommandsInv'
  <1>1. TypeOK
    BY DEF CommandsInv
  <1>2. /\ account[u] # None /\ UNCHANGED <<server, store, used, history>>
        /\ Becomes(p, [Idle EXCEPT !.pc = "login", !.auth = LoginState(u)])
    BY DEF loginCmd
  <1>3. PICK a : a = LoginState(u)
    OBVIOUS
  <1>4. PICK k \in Keys : k = account[u]
    BY <1>1, <1>2, StateFacts DEF Maybe
  <1>5. a = [user |-> u, token |-> u, salt |-> k, dek |-> [key |-> <<u, k>>, text |-> k]]
    BY <1>3, <1>4 DEF LoginState, Encrypt, DeriveKey
  <1>6. [key |-> <<u, k>>, text |-> k] \in WrappedKeys
    BY DEF WrappedKeys
  <1>7. a \in AuthStates /\ a.token = a.user /\ a.user = u /\ u # None /\ a.dek.text = k
    BY <1>5, <1>6, NoneIsNew DEF AuthStates, Maybe
  <1>8. UNCHANGED account
    BY <1>2 DEF server
  <1>9. a \in GoodAuths'
    BY <1>4, <1>7, <1>8, NoneIsNew DEF GoodAuths
  <1>10. account' \in [Users -> Maybe(Keys)]
    BY <1>1, <1>8, StateFacts
  <1>11. Becomes(p, [Idle EXCEPT !.pc = "login", !.auth = a])
    BY <1>2, <1>3
  <1>12. UNCHANGED <<log, blobs, store, used, history>>
    BY <1>2 DEF server
  <1>13. QED
    BY <1>7, <1>8, <1>9, <1>10, <1>11, <1>12, LoginStateKept

\* A step of which only the command knows.
LEMMA ProcStep ==
  ASSUME CommandsInv, NEW p \in Slots, NEW c \in Commands, Becomes(p, c),
         UNCHANGED <<server, store, used, history>>,
         c.pc \in {"unlocked", "uploaded"} => c.dek \in Keys,
         c.rev <= Len(log), c.done <= Len(c.queue)
  PROVE  /\ TypeOK' /\ Later /\ proc'[p] = c
         /\ CommandInv(p)' /\ RaceInv(p)' => CommandsInv'
  <1>1. TypeOK
    BY DEF CommandsInv
  <1>2. /\ account' \in [Users -> Maybe(Keys)]
        /\ \A u \in Users : account[u] # None => account'[u] = account[u]
        /\ strays \subseteq strays' /\ strays' \subseteq Ops \cup Blobs
        /\ UNCHANGED <<log, blobs, auth, rows, queue, lastRev, used, had, raced>>
    BY <1>1, StateFacts DEF server, store, history
  <1>3. QED
    BY <1>2, QuietStep

LEMMA OpenKept ==
  ASSUME CommandsInv, NEW p \in Slots, Open(p)
  PROVE  CommandsInv'
  <1>1. TypeOK /\ auth \in GoodAuths
    BY DEF CommandsInv, DirectoryInv
  <1>2. PICK t \in Maybe(Users) : t = auth.token
    BY <1>1, StateFacts DEF AuthStates
  <1>3. PICK c : c = [Idle EXCEPT !.pc = "opened", !.token = t]
    OBVIOUS
  <1>4. /\ c \in Commands /\ c.pc = "opened" /\ c.token = t /\ c.auth = NoAuth
        /\ c.queue = <<>> /\ c.rev = 0 /\ c.dek = None /\ c.blob = None /\ c.done = 0
        /\ c.conflict = FALSE /\ c.inbox = {} /\ c.stray = FALSE
    BY <1>3, OpenedCommand
  <1>5. Len(log) \in Nat /\ Len(c.queue) = 0
    BY <1>1, <1>4, StateFacts, SeqFacts
  <1>6. /\ Becomes(p, c) /\ UNCHANGED <<server, store, used, history>>
        /\ c.pc \in {"unlocked", "uploaded"} => c.dek \in Keys
        /\ c.rev <= Len(log) /\ c.done <= Len(c.queue)
    BY <1>2, <1>3, <1>4, <1>5 DEF Open
  <1>7. proc'[p] = c /\ (CommandInv(p)' /\ RaceInv(p)' => CommandsInv')
    BY <1>4, <1>6, ProcStep
  <1>8. NoAuth \in GoodAuths' /\ t = auth'.user
    BY <1>1, <1>2, <1>6, NoAuthType DEF GoodAuths, store
  <1>9. CommandInv(p)'
    BY <1>4, <1>7, <1>8, EmptyQueue DEF CommandInv, Held, At
  <1>10. p \notin Holding' /\ ~At(p, "push")'
    BY <1>4, <1>7 DEF Holding, Running, At
  <1>11. QED
    BY <1>7, <1>9, <1>10 DEF RaceInv

LEMMA LoadRevisionKept ==
  ASSUME CommandsInv, NEW p \in Slots, LoadRevision(p)
  PROVE  CommandsInv'
  <1>1. TypeOK /\ CommandInv(p) /\ At(p, "opened")
    BY DEF CommandsInv, LoadRevision
  <1>2. PICK d \in Commands : d = proc[p]
    BY <1>1, StateFacts
  <1>3. lastRev \in Nat /\ lastRev <= Len(log) /\ d.done <= Len(d.queue)
    <2>1. Len(log) \in Nat /\ lastRev \in 0..Len(log)
      BY <1>1, StateFacts, SeqFacts
    <2>2. QED
      BY <1>1, <1>2, <2>1, StateFacts
  <1>4. PICK c : c = [d EXCEPT !.pc = "revision", !.rev = lastRev]
    OBVIOUS
  <1>5. /\ c \in Commands /\ c.pc = "revision" /\ c.rev = lastRev
        /\ c.token = d.token /\ c.auth = d.auth /\ c.queue = d.queue /\ c.dek = d.dek
        /\ c.blob = d.blob /\ c.done = d.done /\ c.conflict = d.conflict
        /\ c.inbox = d.inbox /\ c.stray = d.stray
    BY <1>3, <1>4 DEF Commands
  <1>6. /\ Becomes(p, c) /\ UNCHANGED <<server, store, used, history>>
        /\ c.pc \in {"unlocked", "uploaded"} => c.dek \in Keys
        /\ c.rev <= Len(log) /\ c.done <= Len(c.queue)
    BY <1>2, <1>3, <1>4, <1>5 DEF LoadRevision
  <1>7. /\ TypeOK' /\ Later /\ proc'[p] = c
        /\ CommandInv(p)' /\ RaceInv(p)' => CommandsInv'
    BY <1>5, <1>6, ProcStep
  <1>8. CommandInv(p)'
    <2>1. /\ d.auth \in GoodAuths' /\ Elements(d.queue) \subseteq GoodOps'
          /\ d.dek \in Held' /\ d.inbox \subseteq GoodEvents'
      BY <1>1, <1>2, <1>7, LaterSets DEF CommandInv
    <2>2. UNCHANGED <<blobs, auth, account>>
      BY <1>6 DEF server, store
    <2>3. OwnKeys' = OwnKeys
      BY <2>2 DEF OwnKeys
    <2>4. QED
      BY <1>1, <1>2, <1>5, <1>7, <2>1, <2>2, <2>3 DEF CommandInv, At
  <1>9. p \notin Holding' /\ ~At(p, "push")'
    BY <1>5, <1>7 DEF Holding, Running, At
  <1>10. QED
    BY <1>7, <1>8, <1>9 DEF RaceInv

LEMMA LoadQueueKept ==
  ASSUME CommandsInv, NEW p \in Slots, LoadQueue(p)
  PROVE  CommandsInv'
  <1>1. TypeOK /\ DirectoryInv /\ CommandInv(p) /\ At(p, "revision")
    BY DEF CommandsInv, LoadQueue
  <1>2. PICK d \in Commands : d = proc[p]
    BY <1>1, StateFacts
  <1>3. queue \in Seq(Pending) /\ Len(queue) \in Nat /\ d.rev <= Len(log) /\ d.done = 0
    BY <1>1, <1>2, StateFacts, SeqFacts DEF CommandInv, At
  <1>4. PICK c : c = [d EXCEPT !.pc = "ready", !.queue = queue]
    OBVIOUS
  <1>5. /\ c \in Commands /\ c.pc = "ready" /\ c.queue = queue
        /\ c.token = d.token /\ c.auth = d.auth /\ c.rev = d.rev /\ c.dek = d.dek
        /\ c.blob = d.blob /\ c.done = d.done /\ c.conflict = d.conflict
        /\ c.inbox = d.inbox /\ c.stray = d.stray
    BY <1>3, <1>4 DEF Commands
  <1>6. /\ Becomes(p, c) /\ UNCHANGED <<server, store, used, history>>
        /\ c.pc \in {"unlocked", "uploaded"} => c.dek \in Keys
        /\ c.rev <= Len(log) /\ c.done <= Len(c.queue)
    BY <1>2, <1>3, <1>4, <1>5 DEF LoadQueue
  <1>7. /\ TypeOK' /\ Later /\ proc'[p] = c
        /\ CommandInv(p)' /\ RaceInv(p)' => CommandsInv'
    BY <1>5, <1>6, ProcStep
  <1>8. CommandInv(p)'
    <2>1. /\ d.auth \in GoodAuths' /\ Elements(queue) \subseteq GoodOps'
          /\ d.dek \in Held' /\ d.inbox \subseteq GoodEvents'
      BY <1>1, <1>2, <1>7, LaterSets DEF CommandInv, DirectoryInv
    <2>2. UNCHANGED <<blobs, auth, account>>
      BY <1>6 DEF server, store
    <2>3. OwnKeys' = OwnKeys
      BY <2>2 DEF OwnKeys
    <2>4. QED
      BY <1>1, <1>2, <1>3, <1>5, <1>7, <2>1, <2>2, <2>3 DEF CommandInv, At
  <1>9. ~At(p, "push")' /\ queue' = queue
    BY <1>5, <1>6, <1>7 DEF At, store
  <1>10. OpsOf(queue') = OpsOf(proc'[p].queue)
    BY <1>5, <1>7, <1>9
  <1>11. \A k \in DOMAIN proc'[p].queue : proc'[p].queue[k].op \in OpsOf(queue')
    BY <1>10 DEF OpsOf
  <1>12. RaceInv(p)'
    BY <1>9, <1>10, <1>11 DEF RaceInv, At
  <1>13. QED
    BY <1>7, <1>8, <1>12

LEMMA UnlockKept ==
  ASSUME CommandsInv, NEW p \in Slots, NEW u \in Users, Unlock(p, u)
  PROVE  CommandsInv'
  <1>1. /\ TypeOK /\ DirectoryInv /\ HistoryInv /\ CommandInv(p) /\ RaceInv(p) /\ At(p, "ready")
        /\ UNCHANGED <<server, store, used, history>>
    BY DEF CommandsInv, Unlock
  <1>2. CASE End(p)
    BY <1>1, <1>2, EndKept
  <1>3. CASE /\ Decrypt(DeriveKey(u, auth.salt), auth.dek)
             /\ Becomes(p, [proc[p] EXCEPT !.pc = "unlocked", !.dek = auth.dek.text])
    <2>1. auth.dek # None
      BY <1>3 DEF Decrypt
    <2>2. /\ auth.user # None /\ auth.user \in Users /\ auth.dek.text \in Keys
          /\ auth.dek.text = account[auth.user]
      <3>1. auth.user \in Maybe(Users) /\ auth.dek \in Maybe(WrappedKeys)
        BY <1>1, StateFacts DEF AuthStates
      <3>2. QED
        BY <1>1, <2>1, <3>1 DEF DirectoryInv, GoodAuths, Maybe, WrappedKeys
    <2>3. PICK k \in Keys : k = auth.dek.text
      BY <2>2
    <2>4. PICK c : c = [proc[p] EXCEPT !.pc = "unlocked", !.dek = k]
      OBVIOUS
    <2>5. proc[p] \in Commands
      BY <1>1, StateFacts
    <2>6. /\ c \in Commands /\ c.pc = "unlocked" /\ c.dek = k
          /\ c.token = proc[p].token /\ c.auth = proc[p].auth
          /\ c.queue = proc[p].queue /\ c.rev = proc[p].rev
          /\ c.blob = proc[p].blob /\ c.done = proc[p].done
          /\ c.conflict = proc[p].conflict /\ c.inbox = proc[p].inbox
          /\ c.stray = proc[p].stray
      <3>1. PICK d \in Commands : d = proc[p]
        BY <2>5
      <3>2. c = [d EXCEPT !.pc = "unlocked", !.dek = k]
        BY <2>4, <3>1
      <3>3. /\ c \in Commands /\ c.pc = "unlocked" /\ c.dek = k
            /\ c.token = d.token /\ c.auth = d.auth /\ c.queue = d.queue
            /\ c.rev = d.rev /\ c.blob = d.blob /\ c.done = d.done
            /\ c.conflict = d.conflict /\ c.inbox = d.inbox /\ c.stray = d.stray
        BY <3>2 DEF Commands, Maybe
      <3>4. QED
        BY <3>1, <3>3
    <2>7. /\ Becomes(p, c) /\ UNCHANGED <<server, store, used, history>>
          /\ c.pc \in {"unlocked", "uploaded"} => c.dek \in Keys
          /\ c.rev <= Len(log) /\ c.done <= Len(c.queue)
      BY <1>1, <1>3, <2>3, <2>4, <2>6, StateFacts
    <2>8. /\ TypeOK' /\ Later /\ proc'[p] = c
          /\ CommandInv(p)' /\ RaceInv(p)' => CommandsInv'
      BY <2>6, <2>7, ProcStep
    <2>9. UNCHANGED <<blobs, auth, had, account, queue, raced>>
      BY <1>1 DEF server, store, history
    <2>10. OwnKeys' = OwnKeys /\ k \in OwnKeys /\ k \in Held'
      BY <1>1, <2>2, <2>3, <2>9 DEF HistoryInv, OwnKeys, Held
    <2>11. CommandInv(p)'
      <3>1. /\ proc[p].auth \in GoodAuths' /\ Elements(proc[p].queue) \subseteq GoodOps'
            /\ proc[p].inbox \subseteq GoodEvents'
        BY <1>1, <2>8, LaterSets DEF CommandInv
      <3>2. QED
        BY <1>1, <2>6, <2>8, <2>9, <2>10, <3>1 DEF CommandInv, At
    <2>12. RaceInv(p)'
      <3>1. p \in Holding /\ ~At(p, "push")' /\ ~At(p, "save")' /\ ~At(p, "save")
        BY <1>1, <2>6, <2>8 DEF Holding, Running, At
      <3>2. AppliedOps \subseteq AppliedOps'
        BY <1>1, <2>8, LaterSets
      <3>3. QED
        BY <1>1, <2>6, <2>8, <2>9, <3>1, <3>2 DEF RaceInv
    <2>13. QED
      BY <2>8, <2>11, <2>12
  <1>4. QED
    BY <1>2, <1>3 DEF Unlock

LEMMA SyncKept ==
  ASSUME CommandsInv, NEW p \in Slots, syncCmd(p)
  PROVE  CommandsInv'
  <1>1. TypeOK /\ HistoryInv /\ CommandInv(p) /\ RaceInv(p)
    BY DEF CommandsInv
  <1>2. /\ At(p, "ready") /\ Becomes(p, [proc[p] EXCEPT !.pc = "push"])
        /\ strays' = IF proc[p].stray THEN strays \cup OpsOf(proc[p].queue) ELSE strays
        /\ UNCHANGED <<server, store, used, had, raced>>
    BY DEF syncCmd
  <1>3. PICK d \in Commands : d = proc[p]
    BY <1>1, StateFacts
  <1>4. PICK c : c = [d EXCEPT !.pc = "push"]
    OBVIOUS
  <1>5. /\ c \in Commands /\ c.pc = "push"
        /\ c.token = d.token /\ c.auth = d.auth /\ c.queue = d.queue /\ c.rev = d.rev
        /\ c.dek = d.dek /\ c.blob = d.blob /\ c.done = d.done
        /\ c.conflict = d.conflict /\ c.inbox = d.inbox /\ c.stray = d.stray
    BY <1>4 DEF Commands
  <1>6. /\ d.queue \in Seq(Pending) /\ d.rev <= Len(log) /\ d.done <= Len(d.queue)
        /\ d.done = 0
    <2>1. d.queue \in Seq(Pending)
      BY CommandFacts
    <2>2. d.rev <= Len(log) /\ d.done <= Len(d.queue)
      BY <1>1, <1>3, StateFacts
    <2>3. d.done = 0
      BY <1>1, <1>2, <1>3 DEF CommandInv, At
    <2>4. QED
      BY <2>1, <2>2, <2>3
  <1>7. OpsOf(d.queue) \subseteq Ops
    BY <1>6, OpsOfType
  <1>8. strays \subseteq strays' /\ strays' \subseteq Ops \cup Blobs
    BY <1>1, <1>2, <1>3, <1>7, StateFacts
  <1>9. /\ TypeOK' /\ Later /\ proc'[p] = c
        /\ CommandInv(p)' /\ RaceInv(p)' => CommandsInv'
    <2>1. /\ account' \in [Users -> Maybe(Keys)]
          /\ \A u \in Users : account[u] # None => account'[u] = account[u]
          /\ UNCHANGED <<log, blobs, auth, rows, queue, lastRev, used, had, raced>>
      BY <1>1, <1>2, StateFacts DEF server, store
    <2>2. /\ Becomes(p, c) /\ (c.pc \in {"unlocked", "uploaded"} => c.dek \in Keys)
          /\ c.rev <= Len(log) /\ c.done <= Len(c.queue)
      BY <1>2, <1>3, <1>4, <1>5, <1>6
    <2>3. QED
      BY <1>5, <1>8, <2>1, <2>2, QuietStep
  <1>10. CommandInv(p)'
    <2>1. /\ d.auth \in GoodAuths' /\ Elements(d.queue) \subseteq GoodOps'
          /\ d.dek \in Held' /\ d.inbox \subseteq GoodEvents'
      BY <1>1, <1>3, <1>9, LaterSets DEF CommandInv
    <2>2. UNCHANGED <<blobs, auth, account>>
      BY <1>2 DEF server, store
    <2>3. OwnKeys' = OwnKeys
      BY <2>2 DEF OwnKeys
    <2>4. d.stray => OpsOf(d.queue) \subseteq strays'
      BY <1>2, <1>3
    <2>5. QED
      BY <1>1, <1>3, <1>5, <1>9, <2>1, <2>2, <2>3, <2>4 DEF CommandInv, At
  <1>11. RaceInv(p)'
    <2>1. p \in Holding /\ ~At(p, "save")' /\ ~At(p, "save")
      BY <1>2, <1>5, <1>9 DEF Holding, Running, At
    <2>2. AppliedOps \subseteq AppliedOps' /\ UNCHANGED <<queue, raced>>
      BY <1>1, <1>2, <1>9, LaterSets DEF store
    <2>3. /\ OpsOf(queue) \subseteq OpsOf(d.queue) \cup raced \cup AppliedOps
          /\ \A k \in DOMAIN d.queue : d.queue[k].op \in OpsOf(queue) \cup raced \cup AppliedOps
      BY <1>1, <1>3, <2>1 DEF RaceInv
    <2>4. \A k \in DOMAIN d.queue : ~(k <= d.done)
      BY <1>6, SeqFacts
    <2>5. QED
      BY <1>5, <1>9, <2>2, <2>3, <2>4 DEF RaceInv
  <1>12. QED
    BY <1>9, <1>10, <1>11

-----------------------------------------------------------------------------
(***************************************************************************)
(* The answer of a sync.                                                   *)
(***************************************************************************)
LEMMA LastOfIsIn ==
  ASSUME TypeOK, NEW S \in SUBSET DOMAIN log, S # {}
  PROVE  LastOf(S) \in S
  <1>1. DOMAIN log = 1..Len(log) /\ Len(log) \in Nat
    BY StateFacts, SeqFacts
  <1>2. S \in SUBSET Nat /\ \A y \in S : y <= Len(log)
    BY <1>1
  <1>3. \E x \in S : \A y \in S : y <= x
    BY <1>1, <1>2, GreatestNumber
  <1>4. QED
    BY <1>3 DEF LastOf

LEMMA MaxRevisionFacts ==
  ASSUME TypeOK, NEW u \in Users
  PROVE  MaxRevision(u) \in Nat /\ MaxRevision(u) <= Len(log)
  <1>1. DOMAIN log = 1..Len(log) /\ Len(log) \in Nat
    BY StateFacts, SeqFacts
  <1>2. CASE OfUser(u) = {}
    BY <1>1, <1>2 DEF MaxRevision
  <1>3. CASE OfUser(u) # {}
    <2>1. OfUser(u) \in SUBSET DOMAIN log
      BY DEF OfUser
    <2>2. LastOf(OfUser(u)) \in DOMAIN log
      BY <1>3, <2>1, LastOfIsIn
    <2>3. QED
      BY <1>1, <1>3, <2>2 DEF MaxRevision
  <1>4. QED
    BY <1>2, <1>3

\* What an item holds that was changed with content: a push of its user left it there.
LEMMA ContentFacts ==
  ASSUME TypeOK, ServerInv, NEW u \in Users, NEW r \in OfUser(u),
         log[r].kind # "delete"
  PROVE  \E s \in DOMAIN log :
           /\ Content(u, log[r].id) = log[s] /\ log[s].id = log[r].id
           /\ log[s].key \in Keys /\ log[s].key \in Held
  <1> DEFINE S == {s \in Revisions(u, log[r].id) : log[s].kind # "delete"}
  <1>1. r \in S /\ S \in SUBSET DOMAIN log
    BY DEF OfUser, Revisions
  <1>2. PICK s : s = LastOf(S)
    OBVIOUS
  <1> HIDE DEF S
  <1>3. s \in S
    BY <1>1, <1>2, LastOfIsIn
  <1>4. s \in DOMAIN log /\ log[s].id = log[r].id /\ log[s].kind # "delete"
    BY <1>3 DEF S, Revisions
  <1>5. log[s] \in GoodPushes
    BY <1>4 DEF ServerInv, Elements
  <1>6. log[s].key \in Maybe(Keys) /\ log[s].key \in Held /\ log[s].key # None
    BY <1>4, <1>5 DEF GoodPushes, Pushed
  <1>7. Content(u, log[r].id) = log[s]
    BY <1>2 DEF Content, S
  <1>8. QED
    BY <1>4, <1>6, <1>7 DEF Maybe

LEMMA EventsFacts ==
  ASSUME TypeOK, ServerInv, NEW u \in Users, NEW n \in Nat, NEW e \in EventsAfter(u, n)
  PROVE  e \in GoodEvents
  <1>1. PICK r \in {s \in OfUser(u) : s > n} : e = Event(u, r)
    BY DEF EventsAfter
  <1>2. r \in DOMAIN log /\ log[r].user = u /\ r \in Nat /\ r \in OfUser(u)
    <2>1. DOMAIN log = 1..Len(log) /\ Len(log) \in Nat
      BY StateFacts, SeqFacts
    <2>2. QED
      BY <1>1, <2>1 DEF OfUser
  <1>3. log[r].id \in Ids
    <2>1. log[r] \in Pushed
      BY <1>2, StateFacts, SeqFacts
    <2>2. QED
      BY <2>1 DEF Pushed, Ids, Maybe
  <1>4. CASE log[r].kind = "delete"
    <2>1. e = [rev |-> r, id |-> log[r].id, sealed |-> None, payload |-> FALSE]
      BY <1>1, <1>4 DEF Event
    <2>2. e \in Events /\ e.id = log[r].id /\ e.sealed = None
      BY <1>2, <1>3, <2>1 DEF Events, Maybe
    <2>3. Deleted(log[r].id) /\ Missing(log[r].id)
      BY <1>2, <1>4 DEF Deleted, Missing
    <2>4. QED
      BY <2>2, <2>3 DEF GoodEvents, Held
  <1>5. CASE log[r].kind # "delete"
    <2>1. PICK s \in DOMAIN log :
            /\ Content(u, log[r].id) = log[s] /\ log[s].id = log[r].id
            /\ log[s].key \in Keys /\ log[s].key \in Held
      BY <1>2, <1>5, ContentFacts
    <2>2. PICK b \in BOOLEAN : b = Inline(log[s].op)
      BY DEF Inline
    <2>3. e = [rev |-> r, id |-> log[r].id, sealed |-> log[s].key, payload |-> b]
      BY <1>1, <1>5, <2>1, <2>2 DEF Event
    <2>4. /\ e \in Events /\ e.id = log[r].id /\ e.sealed = log[s].key
          /\ e.payload = b
      BY <1>2, <1>3, <2>1, <2>3 DEF Events, Maybe
    <2>5. ~b => Missing(log[r].id)
      BY <2>1, <2>2 DEF Inline, Missing
    <2>6. QED
      BY <2>1, <2>4, <2>5, NoneIsNew DEF GoodEvents
  <1>6. QED
    BY <1>4, <1>5

\* The user a call is made for is the account, unless the account has changed beside it.
LEMMA CallerFacts ==
  ASSUME NEW p \in Slots, CommandInv(p), NEW u \in Users, Caller(Bearer(proc[p].token), u)
  PROVE  proc[p].token = u /\ (~proc[p].stray => u = auth.user)
  <1>1. proc[p].token = u
    BY DEF Caller, Bearer
  <1>2. QED
    BY <1>1, NoneIsNew DEF CommandInv

LEMMA AnswerKept ==
  ASSUME CommandsInv, NEW p \in Slots, Answer(p)
  PROVE  CommandsInv'
  <1>1. TypeOK /\ ServerInv /\ CommandInv(p) /\ RaceInv(p)
    BY DEF CommandsInv
  <1>2. PICK u \in Users :
          /\ At(p, "push") /\ proc[p].done = Len(proc[p].queue)
          /\ Caller(Bearer(proc[p].token), u)
          /\ Becomes(p, [Idle EXCEPT !.pc = "apply",
                           !.inbox = EventsAfter(u, proc[p].rev),
                           !.rev = MaxRevision(u), !.queue = QueueAfter(p)])
          /\ UNCHANGED <<server, store, used, history>>
    BY DEF Answer
  <1>3. /\ proc[p] \in Commands /\ proc[p].queue \in Seq(Pending) /\ proc[p].rev \in Nat
        /\ <<>> \in Seq(Pending)
    BY <1>1, StateFacts, CommandFacts
  <1>4. PICK q \in Seq(Pending) : q = QueueAfter(p)
    BY <1>3 DEF QueueAfter
  <1>5. PICK n \in Nat : n = MaxRevision(u) /\ n <= Len(log)
    BY <1>1, MaxRevisionFacts
  <1>6. EventsAfter(u, proc[p].rev) \subseteq GoodEvents
    BY <1>1, <1>3, EventsFacts
  <1>7. GoodEvents \subseteq Events
    BY DEF GoodEvents
  <1>8. PICK E \in SUBSET Events : E = EventsAfter(u, proc[p].rev)
    BY <1>6, <1>7
  <1>9. PICK c : c = [Idle EXCEPT !.pc = "apply", !.inbox = E, !.rev = n, !.queue = q]
    OBVIOUS
  <1>10. /\ c \in Commands /\ c.pc = "apply" /\ c.queue = q /\ c.rev = n /\ c.inbox = E
         /\ c.token = None /\ c.auth = NoAuth /\ c.dek = None /\ c.blob = None
         /\ c.done = 0 /\ c.conflict = FALSE /\ c.stray = FALSE
    <2>1. PICK d \in Commands : d = Idle
      BY IdleFacts
    <2>2. c = [d EXCEPT !.pc = "apply", !.inbox = E, !.rev = n, !.queue = q]
      BY <1>9, <2>1
    <2>3. /\ c \in Commands /\ c.pc = "apply" /\ c.queue = q /\ c.rev = n /\ c.inbox = E
          /\ c.token = d.token /\ c.auth = d.auth /\ c.dek = d.dek /\ c.blob = d.blob
          /\ c.done = d.done /\ c.conflict = d.conflict /\ c.stray = d.stray
      BY <2>2 DEF Commands
    <2>4. QED
      BY <2>1, <2>3, IdleFacts
  <1>11. Len(q) \in Nat
    BY SeqFacts
  <1>12. Becomes(p, c)
    BY <1>2, <1>4, <1>5, <1>8, <1>9
  <1>13. /\ c.pc \in {"unlocked", "uploaded"} => c.dek \in Keys
         /\ c.rev <= Len(log) /\ c.done <= Len(c.queue)
    BY <1>5, <1>10, <1>11
  <1>14. /\ TypeOK' /\ Later /\ proc'[p] = c
         /\ CommandInv(p)' /\ RaceInv(p)' => CommandsInv'
    BY <1>2, <1>10, <1>12, <1>13, ProcStep
  <1>15. CommandInv(p)'
    <2>1. Elements(q) \subseteq GoodOps
      BY <1>1, <1>4, EmptyQueue DEF CommandInv, QueueAfter
    <2>2. NoAuth \in GoodAuths' /\ None \in Held'
      BY NoAuthType DEF GoodAuths, Held
    <2>3. Elements(q) \subseteq GoodOps' /\ E \subseteq GoodEvents'
      BY <1>1, <1>6, <1>8, <1>14, <2>1, LaterSets
    <2>4. QED
      BY <1>10, <1>14, <2>2, <2>3 DEF CommandInv, At
  <1>16. RaceInv(p)'
    <2>1. p \in Holding /\ ~At(p, "save") /\ ~At(p, "push")'
      BY <1>2, <1>10, <1>14 DEF Holding, Running, At
    <2>2. AppliedOps \subseteq AppliedOps' /\ UNCHANGED <<queue, raced>>
      BY <1>1, <1>2, <1>14, LaterSets DEF store, history
    <2>3. /\ OpsOf(queue) \subseteq OpsOf(proc[p].queue) \cup raced \cup AppliedOps
          /\ \A k \in DOMAIN proc[p].queue :
               proc[p].queue[k].op \in OpsOf(queue) \cup raced \cup AppliedOps
      BY <1>1, <2>1 DEF RaceInv
    <2>4. ~proc[p].conflict => OpsOf(proc[p].queue) \subseteq AppliedOps
      <3>1. \A k \in DOMAIN proc[p].queue : k <= proc[p].done
        BY <1>2, <1>3, SeqFacts
      <3>2. QED
        BY <1>1, <1>2, <3>1 DEF RaceInv, OpsOf
    <2>5. CASE proc[p].conflict
      <3>1. q = proc[p].queue
        BY <1>4, <2>5 DEF QueueAfter
      <3>2. QED
        BY <1>10, <1>14, <2>1, <2>2, <2>3, <3>1 DEF RaceInv
    <2>6. CASE ~proc[p].conflict
      <3>1. q = <<>>
        BY <1>4, <2>6 DEF QueueAfter
      <3>2. OpsOf(queue) \subseteq raced \cup AppliedOps
        BY <2>3, <2>4, <2>6
      <3>3. QED
        BY <1>10, <1>14, <2>1, <2>2, <3>1, <3>2, EmptyQueue DEF RaceInv
    <2>7. QED
      BY <2>5, <2>6
  <1>17. QED
    BY <1>14, <1>15, <1>16

-----------------------------------------------------------------------------
(***************************************************************************)
(* The steps that write.                                                   *)
(***************************************************************************)
\* A turn of the push, with what it left in the log.
LEMMA TurnKept ==
  ASSUME CommandsInv, NEW p \in Slots, NEW b \in BOOLEAN, At(p, "push"),
         proc[p].done < Len(proc[p].queue), NextTurn(p, b),
         UNCHANGED <<account, blobs, store, used, history>>,
         log' \in Seq(Pushed), Len(log) <= Len(log'),
         \A r \in DOMAIN log : r \in DOMAIN log' /\ log'[r] = log[r],
         Elements(log') \subseteq GoodPushes,
         ~b => ~proc[p].conflict /\ NextOperation(p).op \in AppliedOps'
  PROVE  CommandsInv'
  <1>1. TypeOK /\ ServerInv /\ DirectoryInv /\ HistoryInv /\ CommandInv(p) /\ RaceInv(p)
    BY DEF CommandsInv
  <1>2. PICK d \in Commands : d = proc[p]
    BY <1>1, StateFacts
  <1>3. d.done \in Nat /\ d.queue \in Seq(Pending) /\ Len(d.queue) \in Nat
    BY CommandFacts, SeqFacts
  <1>4. PICK n \in Nat : n = d.done + 1
    BY <1>3
  <1>5. PICK c : c = [d EXCEPT !.done = n, !.conflict = b]
    OBVIOUS
  <1>6. /\ c \in Commands /\ c.done = n /\ c.conflict = b
        /\ c.pc = d.pc /\ c.token = d.token /\ c.auth = d.auth /\ c.queue = d.queue
        /\ c.rev = d.rev /\ c.dek = d.dek /\ c.blob = d.blob
        /\ c.inbox = d.inbox /\ c.stray = d.stray
    BY <1>5 DEF Commands
  <1>7. Becomes(p, c)
    <2>1. Becomes(p, [d EXCEPT !.done = d.done + 1, !.conflict = b])
      BY <1>2 DEF NextTurn
    <2>2. QED
      BY <1>4, <1>5, <2>1
  <1>8. UNCHANGED <<auth, rows, queue, lastRev, had, strays, raced>>
    BY DEF store, history
  <1>9. c.rev <= Len(log') /\ c.done <= Len(c.queue)
    <2>1. d.rev \in Nat /\ Len(log) \in Nat /\ Len(log') \in Nat
      BY <1>1, CommandFacts, StateFacts, SeqFacts
    <2>2. d.rev <= Len(log) /\ d.done < Len(d.queue)
      BY <1>1, <1>2, StateFacts
    <2>3. QED
      BY <1>3, <1>4, <1>6, <2>1, <2>2
  <1>10. /\ TypeOK' /\ proc'[p] = c
         /\ \A q \in Slots : q # p => proc'[q] = proc[q]
    <2>1. /\ account' \in [Users -> Maybe(Keys)]
          /\ blobs' \in [Blobs -> Maybe([owner : Users, key : Keys])]
          /\ auth' \in AuthStates /\ rows' \in [Ids -> Maybe(Row)]
          /\ queue' \in Seq(Pending)
          /\ used' \subseteq Ops /\ raced' \subseteq Ops /\ strays' \subseteq Ops \cup Blobs
          /\ had' \subseteq Users
      BY <1>1, <1>8, StateFacts
    <2>2. lastRev' \in 0..Len(log')
      <3>1. Len(log) \in Nat /\ Len(log') \in Nat /\ lastRev \in 0..Len(log)
        BY <1>1, StateFacts, SeqFacts
      <3>2. QED
        BY <1>8, <3>1
    <2>3. c.pc \in {"unlocked", "uploaded"} => c.dek \in Keys
      BY <1>2, <1>6 DEF At
    <2>4. QED
      BY <1>1, <1>6, <1>7, <1>9, <2>1, <2>2, <2>3, StepTyped
  <1>11. Later
    BY <1>8 DEF Later
  <1>12. ServerInv'
    <2>1. Elements(log') \subseteq GoodPushes'
      BY <1>1, <1>10, <1>11, LaterSets
    <2>2. Held \subseteq Held'
      BY <1>1, <1>10, <1>11, LaterSets
    <2>3. QED
      BY <1>1, <1>8, <2>1, <2>2 DEF ServerInv, Elements
  <1>13. DirectoryInv' /\ HistoryInv'
    BY <1>1, <1>8, <1>10, <1>11, DirectoryKept DEF HistoryInv
  <1>14. CommandInv(p)'
    <2>1. /\ d.auth \in GoodAuths' /\ Elements(d.queue) \subseteq GoodOps'
          /\ d.dek \in Held' /\ d.inbox \subseteq GoodEvents'
          /\ OwnKeys \subseteq OwnKeys'
      BY <1>1, <1>2, <1>10, <1>11, LaterSets DEF CommandInv
    <2>2. d.pc = "push"
      BY <1>2 DEF At
    <2>3. QED
      BY <1>1, <1>2, <1>6, <1>8, <1>10, <2>1, <2>2 DEF CommandInv, At
  <1>15. RaceInv(p)'
    <2>1. p \in Holding /\ ~At(p, "save") /\ At(p, "push")'
      BY <1>2, <1>6, <1>10 DEF Holding, Running, At
    <2>2. AppliedOps \subseteq AppliedOps'
      BY <1>1, <1>10, <1>11, LaterSets
    <2>3. /\ OpsOf(queue) \subseteq OpsOf(d.queue) \cup raced \cup AppliedOps
          /\ \A k \in DOMAIN d.queue : d.queue[k].op \in OpsOf(queue) \cup raced \cup AppliedOps
      BY <1>1, <1>2, <2>1 DEF RaceInv
    <2>4. ASSUME ~b, NEW k \in DOMAIN d.queue, k <= n
          PROVE  d.queue[k].op \in AppliedOps'
      <3>1. k \in Nat
        BY <1>3, SeqFacts
      <3>2. CASE k <= d.done
        BY <1>1, <1>2, <2>2, <2>4, <3>2 DEF RaceInv
      <3>3. CASE ~(k <= d.done)
        <4>1. k = d.done + 1
          BY <1>3, <1>4, <2>4, <3>1, <3>3
        <4>2. QED
          BY <1>2, <2>4, <4>1 DEF NextOperation
      <3>4. QED
        BY <3>2, <3>3
    <2>5. QED
      BY <1>6, <1>8, <1>10, <2>1, <2>2, <2>3, <2>4 DEF RaceInv
  <1>16. QED
    BY <1>8, <1>10, <1>11, <1>12, <1>13, <1>14, <1>15, StepKept

LEMMA PushKept ==
  ASSUME CommandsInv, NEW p \in Slots, applyPendingOperation(p)
  PROVE  CommandsInv'
  <1>1. TypeOK /\ ServerInv /\ CommandInv(p)
    BY DEF CommandsInv
  <1>2. PICK u \in Users :
          /\ At(p, "push") /\ proc[p].done < Len(proc[p].queue)
          /\ Caller(Bearer(proc[p].token), u)
          /\ LET o == NextOperation(p)
                 i == IF o.kind = "create" THEN <<u, o.op>> ELSE o.id
             IN  \/ /\ Processed(u, o.op)
                    /\ NextTurn(p, proc[p].conflict)
                    /\ UNCHANGED log
                 \/ /\ End(p)
                    /\ UNCHANGED log
                 \/ /\ NextTurn(p, TRUE)
                    /\ UNCHANGED log
                 \/ /\ o.kind = "create" \/ LiveItem(u, i)
                    /\ log' = Append(log, [user |-> u, op |-> o.op, id |-> i,
                                           kind |-> o.kind, key |-> o.key])
                    /\ NextTurn(p, proc[p].conflict)
    BY DEF applyPendingOperation
  <1>3. UNCHANGED <<account, blobs, store, used, history>>
    BY DEF applyPendingOperation
  <1>4. /\ Len(log) \in Nat /\ log \in Seq(Pushed) /\ proc[p].conflict \in BOOLEAN
        /\ proc[p].queue \in Seq(Pending) /\ proc[p].done \in Nat
    BY <1>1, StateFacts, CommandFacts, SeqFacts
  <1>5. PICK o : o = NextOperation(p)
    OBVIOUS
  <1>6. o \in Elements(proc[p].queue)
    <2>1. DOMAIN proc[p].queue = 1..Len(proc[p].queue) /\ Len(proc[p].queue) \in Nat
      BY <1>4, SeqFacts
    <2>2. proc[p].done + 1 \in DOMAIN proc[p].queue
      BY <1>2, <1>4, <2>1
    <2>3. QED
      BY <1>5, <2>2 DEF NextOperation, Elements
  <1>7. o \in GoodOps /\ o \in Pending
    BY <1>1, <1>6 DEF CommandInv, GoodOps
  <1>8. PICK i : i = IF o.kind = "create" THEN <<u, o.op>> ELSE o.id
    OBVIOUS
  <1>9. CASE End(p) /\ UNCHANGED log
    BY <1>3, <1>9, EndKept DEF server
  <1>10. ASSUME UNCHANGED log
         PROVE  /\ log' \in Seq(Pushed) /\ Len(log) <= Len(log')
                /\ \A r \in DOMAIN log : r \in DOMAIN log' /\ log'[r] = log[r]
                /\ Elements(log') \subseteq GoodPushes
    BY <1>1, <1>4, <1>10 DEF ServerInv
  <1>11. CASE Processed(u, o.op) /\ NextTurn(p, proc[p].conflict) /\ UNCHANGED log
    <2>1. o.op \in AppliedOps'
      BY <1>11 DEF Processed, AppliedOps
    <2>2. QED
      BY <1>2, <1>3, <1>4, <1>5, <1>10, <1>11, <2>1, TurnKept
  <1>12. CASE NextTurn(p, TRUE) /\ UNCHANGED log
    BY <1>2, <1>3, <1>10, <1>12, TurnKept
  <1>13. CASE /\ o.kind = "create" \/ LiveItem(u, i)
              /\ log' = Append(log, [user |-> u, op |-> o.op, id |-> i,
                                     kind |-> o.kind, key |-> o.key])
              /\ NextTurn(p, proc[p].conflict)
    <2>1. PICK e : e = [user |-> u, op |-> o.op, id |-> i, kind |-> o.kind, key |-> o.key]
      OBVIOUS
    <2>2. i \in Users \X Ops
      <3>1. CASE o.kind = "create"
        BY <1>7, <1>8, <3>1 DEF Pending
      <3>2. CASE o.kind # "create"
        <4>1. PICK r \in DOMAIN log : log[r].id = i
          BY <1>13, <3>2 DEF LiveItem, Revisions
        <4>2. log[r] \in Pushed
          BY <1>4, SeqFacts
        <4>3. QED
          BY <4>1, <4>2 DEF Pushed
      <3>3. QED
        BY <3>1, <3>2
    <2>3. e \in Pushed
      BY <1>7, <2>1, <2>2 DEF Pending, Pushed
    <2>4. e \in GoodPushes
      <3>1. e.user = u /\ e.op = o.op /\ e.kind = o.kind /\ e.key = o.key
        BY <2>1
      <3>2. o.key \in Held /\ (o.kind # "delete" => o.key # None)
        BY <1>7 DEF GoodOps
      <3>3. o.key \in {None, account[u]} \/ o.op \in strays
        <4>1. CASE proc[p].stray
          <5>1. OpsOf(proc[p].queue) \subseteq strays
            BY <1>1, <1>2, <4>1 DEF CommandInv
          <5>2. o.op \in OpsOf(proc[p].queue)
            BY <1>6 DEF Elements, OpsOf
          <5>3. QED
            BY <5>1, <5>2
        <4>2. CASE ~proc[p].stray
          <5>1. u = auth.user
            BY <1>1, <1>2, <4>2, CallerFacts
          <5>2. QED
            BY <1>7, <5>1 DEF GoodOps, OwnKeys
        <4>3. QED
          BY <4>1, <4>2
      <3>4. QED
        BY <2>3, <3>1, <3>2, <3>3 DEF GoodPushes
    <2>5. log' = Append(log, e)
      BY <1>13, <2>1
    <2>6. /\ log' \in Seq(Pushed) /\ Len(log') = Len(log) + 1
          /\ \A r \in DOMAIN log : r \in DOMAIN log' /\ log'[r] = log[r]
          /\ Len(log') \in DOMAIN log' /\ log'[Len(log')] = e
          /\ Elements(log') = Elements(log) \cup {e}
      <3>1. PICK a : a = Append(log, e)
        OBVIOUS
      <3>2. PICK q \in Seq(Pushed) : q = log
        BY <1>4
      <3>3. a = Append(q, e)
        BY <3>1, <3>2
      <3>4. /\ a \in Seq(Pushed) /\ Len(a) = Len(q) + 1
            /\ \A r \in DOMAIN q : r \in DOMAIN a /\ a[r] = q[r] /\ r # Len(a)
            /\ Len(a) \in DOMAIN a /\ a[Len(a)] = e
            /\ Elements(a) = Elements(q) \cup {e}
        <4>1. /\ a \in Seq(Pushed) /\ Len(a) = Len(q) + 1 /\ DOMAIN a = 1..(Len(q) + 1)
              /\ DOMAIN q = 1..Len(q) /\ Len(q) \in Nat
              /\ \A r \in 1..Len(q) : a[r] = q[r]
              /\ a[Len(q) + 1] = e
          BY <2>3, <3>3
        <4>2. QED
          BY <4>1, AppendFacts
      <3>5. log' = a
        BY <2>5, <3>1
      <3>6. QED
        BY <3>2, <3>4, <3>5 DEF Elements
    <2>7. Elements(log') \subseteq GoodPushes
      BY <1>1, <2>4, <2>6 DEF ServerInv
    <2>8. o.op \in AppliedOps'
      <3>1. e.op = o.op
        BY <2>1
      <3>2. QED
        BY <2>6, <3>1 DEF AppliedOps
    <2>9. Len(log) <= Len(log')
      BY <1>4, <2>6
    <2>10. QED
      BY <1>2, <1>3, <1>4, <1>5, <1>13, <2>6, <2>7, <2>8, <2>9, TurnKept
  <1>14. QED
    BY <1>2, <1>5, <1>8, <1>9, <1>11, <1>12, <1>13

\* An edit: its row, and its operation in the command's queue.
LEMMA EditKept ==
  ASSUME CommandsInv, NEW p \in Slots, proc[p].pc \in {"unlocked", "uploaded"},
         NEW op \in Ops, NEW kind \in Kinds, NEW i \in Ids, NEW row \in Maybe(Row),
         NEW key \in Maybe(Keys), Edit(p, op, kind, i, row, key),
         kind # "delete" => key = proc[p].dek, kind = "delete" => key = None,
         row # None => /\ row.sealed = proc[p].dek /\ row.payload = TRUE
                       /\ row.blob # None => blobs[row.blob] # None
  PROVE  CommandsInv'
  <1>1. TypeOK /\ ServerInv /\ DirectoryInv /\ HistoryInv /\ CommandInv(p) /\ RaceInv(p)
    BY DEF CommandsInv
  <1>2. PICK d \in Commands : d = proc[p]
    BY <1>1, StateFacts
  <1>3. /\ d.queue \in Seq(Pending) /\ d.rev \in Nat /\ d.rev <= Len(log)
        /\ d.dek \in Keys /\ d.stray \in BOOLEAN /\ Len(d.queue) \in Nat
    <2>1. d.queue \in Seq(Pending) /\ d.rev \in Nat /\ d.stray \in BOOLEAN
      BY CommandFacts
    <2>2. d.rev <= Len(log) /\ d.dek \in Keys
      BY <1>1, <1>2, StateFacts
    <2>3. QED
      BY <2>1, <2>2, SeqFacts
  <1>4. PICK o : o = [op |-> op, kind |-> kind, id |-> i, key |-> key]
    OBVIOUS
  <1>5. o \in Pending /\ o.op = op /\ o.kind = kind /\ o.key = key
    BY <1>4 DEF Pending
  <1>6. PICK a : a = Append(d.queue, o)
    OBVIOUS
  <1>7. /\ a \in Seq(Pending) /\ Len(a) = Len(d.queue) + 1
        /\ \A k \in DOMAIN d.queue : k \in DOMAIN a /\ a[k] = d.queue[k] /\ k # Len(a)
        /\ Len(a) \in DOMAIN a /\ a[Len(a)] = o
        /\ \A k \in DOMAIN a : k \in DOMAIN d.queue \/ (k = Len(a) /\ a[k] = o)
        /\ Elements(a) = Elements(d.queue) \cup {o}
    <2>1. PICK q \in Seq(Pending) : q = d.queue
      BY <1>3
    <2>2. /\ a \in Seq(Pending) /\ Len(a) = Len(q) + 1 /\ DOMAIN a = 1..(Len(q) + 1)
          /\ DOMAIN q = 1..Len(q) /\ Len(q) \in Nat
          /\ \A k \in 1..Len(q) : a[k] = q[k]
          /\ a[Len(q) + 1] = o
      <3>1. a = Append(q, o) /\ o \in Pending
        BY <1>5, <1>6, <2>1
      <3>2. QED
        BY <3>1
    <2>3. /\ \A k \in DOMAIN q : k \in DOMAIN a /\ a[k] = q[k] /\ k # Len(a)
          /\ Len(a) \in DOMAIN a /\ a[Len(a)] = o
          /\ \A k \in DOMAIN a : k \in DOMAIN q \/ (k = Len(a) /\ a[k] = o)
          /\ Elements(a) = Elements(q) \cup {o}
      BY <2>2, AppendFacts
    <2>4. QED
      BY <2>1, <2>2, <2>3
  <1>8. PICK c : c = [Idle EXCEPT !.pc = "save", !.rev = d.rev, !.queue = a]
    OBVIOUS
  <1>9. /\ c \in Commands /\ c.pc = "save" /\ c.queue = a /\ c.rev = d.rev
        /\ c.token = None /\ c.auth = NoAuth /\ c.dek = None /\ c.blob = None
        /\ c.done = 0 /\ c.conflict = FALSE /\ c.inbox = {} /\ c.stray = FALSE
    <2>1. PICK e \in Commands : e = Idle
      BY IdleFacts
    <2>2. c = [e EXCEPT !.pc = "save", !.rev = d.rev, !.queue = a]
      BY <1>8, <2>1
    <2>3. /\ c \in Commands /\ c.pc = "save" /\ c.queue = a /\ c.rev = d.rev
          /\ c.token = e.token /\ c.auth = e.auth /\ c.dek = e.dek /\ c.blob = e.blob
          /\ c.done = e.done /\ c.conflict = e.conflict /\ c.inbox = e.inbox
          /\ c.stray = e.stray
      BY <1>3, <1>7, <2>2 DEF Commands
    <2>4. QED
      BY <2>1, <2>3, IdleFacts
  <1>10. /\ Becomes(p, c) /\ used' = used \cup {op} /\ rows' = [rows EXCEPT ![i] = row]
         /\ strays' = IF d.stray THEN strays \cup {op} ELSE strays
         /\ UNCHANGED <<server, auth, queue, lastRev, had, raced>>
    BY <1>2, <1>4, <1>6, <1>8 DEF Edit
  <1>11. UNCHANGED <<account, log, blobs>>
    BY <1>10 DEF server
  <1>12. /\ TypeOK' /\ proc'[p] = c
         /\ \A q \in Slots : q # p => proc'[q] = proc[q]
    <2>1. /\ account' \in [Users -> Maybe(Keys)] /\ log' \in Seq(Pushed)
          /\ blobs' \in [Blobs -> Maybe([owner : Users, key : Keys])]
          /\ auth' \in AuthStates /\ queue' \in Seq(Pending) /\ lastRev' \in 0..Len(log')
          /\ raced' \subseteq Ops /\ had' \subseteq Users
      BY <1>1, <1>10, <1>11, StateFacts
    <2>2. rows' \in [Ids -> Maybe(Row)]
      BY <1>1, <1>10, StateFacts
    <2>3. used' \subseteq Ops /\ strays' \subseteq Ops \cup Blobs
      BY <1>1, <1>10, StateFacts
    <2>4. Len(log) <= Len(log')
      <3>1. Len(log) \in Nat
        BY <1>1, StateFacts, SeqFacts
      <3>2. QED
        BY <1>11, <3>1
    <2>5. /\ c.pc \in {"unlocked", "uploaded"} => c.dek \in Keys
          /\ c.rev <= Len(log') /\ c.done <= Len(c.queue)
      BY <1>3, <1>7, <1>9, <1>11
    <2>6. QED
      BY <1>1, <1>9, <1>10, <2>1, <2>2, <2>3, <2>4, <2>5, StepTyped
  <1>13. Later
    BY <1>10, <1>11 DEF Later
  <1>14. HistoryInv'
    BY <1>1, <1>10 DEF HistoryInv
  <1>15. d.dek \in Held /\ (~d.stray => d.dek \in OwnKeys)
    BY <1>1, <1>2, <1>3, NoneIsNew DEF CommandInv
  <1>16. /\ Held \subseteq Held' /\ OwnKeys \subseteq OwnKeys' /\ GoodAuths \subseteq GoodAuths'
         /\ GoodOps \subseteq GoodOps' /\ (\A j \in Ids : GoodRows(j) \subseteq GoodRows(j)')
         /\ AppliedOps \subseteq AppliedOps'
    BY <1>1, <1>12, <1>13, LaterSets
  <1>17. ServerInv'
    BY <1>1, <1>11, <1>12, <1>13, ServerKept
  <1>18. DirectoryInv'
    <2>1. row # None => row \in GoodRows(i)'
      <3>1. ASSUME row # None PROVE row \in Row /\ row.sealed \in Held' /\ row.sealed # None
        BY <1>2, <1>3, <1>15, <1>16, <3>1, NoneIsNew DEF Maybe
      <3>2. QED
        BY <3>1 DEF GoodRows
    <2>2. rows'[i] = row /\ \A j \in Ids : j # i => rows'[j] = rows[j]
      BY <1>1, <1>10, StateFacts
    <2>3. ASSUME NEW j \in Ids, rows'[j] # None
          PROVE  /\ rows'[j] \in GoodRows(j)'
                 /\ rows'[j].blob # None => blobs'[rows'[j].blob] # None
      <3>1. CASE j = i
        BY <1>2, <1>11, <2>1, <2>2, <2>3, <3>1
      <3>2. CASE j # i
        BY <1>1, <1>11, <1>16, <2>2, <2>3, <3>2 DEF DirectoryInv, List
      <3>3. QED
        BY <3>1, <3>2
    <2>4. auth' \in GoodAuths' /\ Elements(queue') \subseteq GoodOps'
      BY <1>1, <1>10, <1>16 DEF DirectoryInv
    <2>5. QED
      BY <2>3, <2>4 DEF DirectoryInv, List
  <1>19. CommandInv(p)'
    <2>1. o \in GoodOps'
      <3>1. o.key \in Held' /\ (o.kind # "delete" => o.key # None)
        BY <1>2, <1>3, <1>5, <1>15, <1>16, NoneIsNew DEF Held
      <3>2. o.op \in strays' \/ o.key \in {None} \cup OwnKeys'
        BY <1>2, <1>5, <1>10, <1>15, <1>16
      <3>3. QED
        BY <1>5, <3>1, <3>2 DEF GoodOps
    <2>2. Elements(a) \subseteq GoodOps'
      BY <1>1, <1>2, <1>7, <1>16, <2>1 DEF CommandInv
    <2>3. NoAuth \in GoodAuths' /\ None \in Held'
      BY NoAuthType DEF GoodAuths, Held
    <2>4. Len(a) # 0
      BY <1>3, <1>7
    <2>5. QED
      BY <1>9, <1>12, <2>2, <2>3, <2>4 DEF CommandInv, At
  <1>20. RaceInv(p)'
    <2>1. p \in Holding /\ ~At(p, "save") /\ At(p, "save")' /\ ~At(p, "push")'
      BY <1>2, <1>9, <1>12 DEF Holding, Running, At
    <2>2. /\ OpsOf(queue) \subseteq OpsOf(d.queue) \cup raced \cup AppliedOps
          /\ \A k \in DOMAIN d.queue : d.queue[k].op \in OpsOf(queue) \cup raced \cup AppliedOps
      BY <1>1, <1>2, <2>1 DEF RaceInv
    <2>3. OpsOf(d.queue) \subseteq OpsOf(a)
      BY <1>7 DEF OpsOf
    <2>4. \A k \in DOMAIN a :
            \/ a[k].op \in OpsOf(queue) \cup raced \cup AppliedOps
            \/ k = Len(a)
      BY <1>7, <2>2
    <2>5. QED
      BY <1>9, <1>10, <1>12, <1>16, <2>1, <2>2, <2>3, <2>4 DEF RaceInv
  <1>21. QED
    BY <1>10, <1>12, <1>13, <1>14, <1>17, <1>18, <1>19, <1>20, StepKept

LEMMA AddItemKept ==
  ASSUME CommandsInv, NEW p \in Slots, proc[p].pc \in {"unlocked", "uploaded"},
         NEW op \in Ops, NEW b \in Maybe(Blobs), b # None => blobs[b] # None,
         AddItem(p, op, b)
  PROVE  CommandsInv'
  <1>1. TypeOK
    BY DEF CommandsInv
  <1>2. PICK k \in Keys : k = proc[p].dek
    BY <1>1, StateFacts
  <1>3. Edit(p, op, "create", LocalId(op), [sealed |-> k, payload |-> TRUE, blob |-> b], k)
    BY <1>2 DEF AddItem
  <1>4. PICK row : row = [sealed |-> k, payload |-> TRUE, blob |-> b]
    OBVIOUS
  <1>5. row \in Maybe(Row) /\ row.sealed = k /\ row.payload = TRUE /\ row.blob = b
    BY <1>4 DEF Row, Maybe
  <1>6. LocalId(op) \in Ids /\ "create" \in Kinds /\ k \in Maybe(Keys)
    BY DEF LocalId, Ids, Kinds, Maybe
  <1>7. Edit(p, op, "create", LocalId(op), row, k)
    BY <1>3, <1>4
  <1>8. QED
    BY <1>2, <1>5, <1>6, <1>7, EditKept

LEMMA UpdateKept ==
  ASSUME CommandsInv, NEW p \in Slots, updateCmd(p)
  PROVE  CommandsInv'
  <1>1. TypeOK /\ DirectoryInv /\ proc[p].pc \in {"unlocked", "uploaded"}
    BY DEF CommandsInv, updateCmd, At
  <1>2. PICK k \in Keys : k = proc[p].dek
    BY <1>1, StateFacts
  <1>3. PICK op \in Ops, i \in Ids :
          /\ rows[i] # None
          /\ Edit(p, op, "update", i, [rows[i] EXCEPT !.sealed = k, !.payload = TRUE], k)
    BY <1>2 DEF updateCmd
  <1>4. PICK old \in Row : old = rows[i]
    BY <1>1, <1>3, StateFacts DEF Maybe
  <1>5. PICK row : row = [old EXCEPT !.sealed = k, !.payload = TRUE]
    OBVIOUS
  <1>6. row \in Row /\ row.sealed = k /\ row.payload = TRUE /\ row.blob = old.blob
    BY <1>5 DEF Row, Maybe
  <1>7. old.blob # None => blobs[old.blob] # None
    BY <1>1, <1>3, <1>4 DEF DirectoryInv, List
  <1>8. "update" \in Kinds /\ k \in Maybe(Keys) /\ row \in Maybe(Row)
    BY <1>6 DEF Kinds, Maybe
  <1>9. Edit(p, op, "update", i, row, k)
    BY <1>3, <1>4, <1>5
  <1>10. row # None => /\ row.sealed = proc[p].dek /\ row.payload = TRUE
                       /\ row.blob # None => blobs[row.blob] # None
    BY <1>2, <1>6, <1>7
  <1>11. QED
    BY <1>1, <1>2, <1>8, <1>9, <1>10, EditKept

LEMMA DeleteKept ==
  ASSUME CommandsInv, NEW p \in Slots, deleteCmd(p)
  PROVE  CommandsInv'
  <1>1. proc[p].pc \in {"unlocked", "uploaded"}
    BY DEF deleteCmd, At
  <1>2. PICK op \in Ops, i \in Ids : Edit(p, op, "delete", i, None, None)
    BY DEF deleteCmd
  <1>3. "delete" \in Kinds /\ None \in Maybe(Keys) /\ None \in Maybe(Row)
    BY DEF Kinds, Maybe
  <1>4. QED
    BY <1>1, <1>2, <1>3, EditKept

LEMMA UploadKept ==
  ASSUME CommandsInv, NEW p \in Slots, uploadCmd(p)
  PROVE  CommandsInv'
  <1>1. TypeOK /\ ServerInv /\ DirectoryInv /\ HistoryInv /\ CommandInv(p) /\ RaceInv(p)
    BY DEF CommandsInv
  <1>2. PICK b \in Blobs, u \in Users :
          /\ At(p, "unlocked") /\ Caller(Bearer(proc[p].token), u)
          /\ blobs[b] = None
          /\ blobs' = [blobs EXCEPT ![b] = [owner |-> u, key |-> proc[p].dek]]
          /\ Becomes(p, [proc[p] EXCEPT !.pc = "uploaded", !.blob = b, !.token = None])
          /\ strays' = IF proc[p].stray THEN strays \cup {b} ELSE strays
          /\ UNCHANGED <<account, log, store, used, had, raced>>
    BY DEF uploadCmd
  <1>3. PICK d \in Commands : d = proc[p]
    BY <1>1, StateFacts
  <1>4. /\ d.dek \in Keys /\ d.pc = "unlocked" /\ d.stray \in BOOLEAN
        /\ d.rev <= Len(log) /\ d.done <= Len(d.queue)
    BY <1>1, <1>2, <1>3, StateFacts, CommandFacts DEF At
  <1>5. PICK c : c = [d EXCEPT !.pc = "uploaded", !.blob = b, !.token = None]
    OBVIOUS
  <1>6. /\ c \in Commands /\ c.pc = "uploaded" /\ c.blob = b /\ c.token = None
        /\ c.auth = d.auth /\ c.queue = d.queue /\ c.rev = d.rev /\ c.dek = d.dek
        /\ c.done = d.done /\ c.conflict = d.conflict
        /\ c.inbox = d.inbox /\ c.stray = d.stray
    BY <1>5 DEF Commands, Maybe
  <1>7. UNCHANGED <<auth, rows, queue, lastRev>>
    BY <1>2 DEF store
  <1>8. PICK f : f = [owner |-> u, key |-> d.dek]
    OBVIOUS
  <1>9. f \in [owner : Users, key : Keys] /\ f.owner = u /\ f.key = d.dek /\ f # None
    <2>1. f \in [owner : Users, key : Keys] /\ f.owner = u /\ f.key = d.dek
      BY <1>4, <1>8
    <2>2. QED
      BY <2>1, CommandsAssumption
  <1>10. blobs'[b] = f /\ \A a \in Blobs : a # b => blobs'[a] = blobs[a]
    BY <1>1, <1>2, <1>3, <1>8, StateFacts
  <1>11. /\ TypeOK' /\ proc'[p] = c
         /\ \A q \in Slots : q # p => proc'[q] = proc[q]
    <2>1. /\ account' \in [Users -> Maybe(Keys)] /\ log' \in Seq(Pushed)
          /\ auth' \in AuthStates /\ queue' \in Seq(Pending) /\ lastRev' \in 0..Len(log')
          /\ rows' \in [Ids -> Maybe(Row)] /\ raced' \subseteq Ops /\ used' \subseteq Ops
          /\ had' \subseteq Users
      BY <1>1, <1>2, <1>7, StateFacts
    <2>2. blobs' \in [Blobs -> Maybe([owner : Users, key : Keys])]
      BY <1>1, <1>2, <1>3, <1>8, <1>9, StateFacts DEF Maybe
    <2>3. strays' \subseteq Ops \cup Blobs
      BY <1>1, <1>2, StateFacts
    <2>4. Len(log) <= Len(log')
      <3>1. Len(log) \in Nat
        BY <1>1, StateFacts, SeqFacts
      <3>2. QED
        BY <1>2, <3>1
    <2>5. /\ Becomes(p, c) /\ (c.pc \in {"unlocked", "uploaded"} => c.dek \in Keys)
          /\ c.rev <= Len(log') /\ c.done <= Len(c.queue)
      BY <1>2, <1>3, <1>4, <1>5, <1>6
    <2>6. QED
      BY <1>1, <1>6, <2>1, <2>2, <2>3, <2>4, <2>5, StepTyped
  <1>12. Later
    BY <1>2, <1>7, <1>10 DEF Later
  <1>13. HistoryInv'
    BY <1>1, <1>2, <1>7 DEF HistoryInv
  <1>14. d.dek \in Held /\ (~d.stray => d.dek = account[u])
    <2>1. d.dek \in Held /\ (~d.stray => d.dek \in OwnKeys)
      BY <1>1, <1>3, <1>4, NoneIsNew DEF CommandInv
    <2>2. ~d.stray => u = auth.user
      BY <1>1, <1>2, <1>3, CallerFacts
    <2>3. QED
      BY <2>1, <2>2 DEF OwnKeys
  <1>15. /\ Held \subseteq Held' /\ OwnKeys \subseteq OwnKeys' /\ GoodAuths \subseteq GoodAuths'
         /\ GoodOps \subseteq GoodOps' /\ GoodEvents \subseteq GoodEvents'
         /\ AppliedOps \subseteq AppliedOps' /\ GoodPushes \subseteq GoodPushes'
    BY <1>1, <1>11, <1>12, LaterSets
  <1>16. ServerInv'
    <2>1. ASSUME NEW a \in Blobs, blobs'[a] # None
          PROVE  /\ blobs'[a].key \in Held'
                 /\ blobs'[a].key = account'[blobs'[a].owner] \/ a \in strays'
      <3>1. CASE a = b
        BY <1>2, <1>3, <1>9, <1>10, <1>14, <1>15, <3>1
      <3>2. CASE a # b
        BY <1>1, <1>2, <1>10, <1>15, <2>1, <3>2 DEF ServerInv
      <3>3. QED
        BY <3>1, <3>2
    <2>2. Elements(log') \subseteq GoodPushes'
      BY <1>1, <1>2, <1>15 DEF ServerInv
    <2>3. QED
      BY <2>1, <2>2 DEF ServerInv
  <1>17. DirectoryInv'
    BY <1>1, <1>7, <1>11, <1>12, DirectoryKept
  <1>18. CommandInv(p)'
    <2>1. /\ d.auth \in GoodAuths' /\ Elements(d.queue) \subseteq GoodOps'
          /\ d.dek \in Held' /\ d.inbox \subseteq GoodEvents'
      BY <1>1, <1>3, <1>15 DEF CommandInv
    <2>2. blobs'[b] # None
      BY <1>9, <1>10
    <2>3. d.done = 0 /\ (~d.stray => d.dek \in OwnKeys')
      BY <1>1, <1>3, <1>4, <1>15, NoneIsNew DEF CommandInv, At
    <2>4. QED
      BY <1>2, <1>6, <1>11, <2>1, <2>2, <2>3 DEF CommandInv, At
  <1>19. RaceInv(p)'
    <2>1. p \in Holding /\ ~At(p, "save") /\ ~At(p, "push")'
      BY <1>3, <1>4, <1>6, <1>11 DEF Holding, Running, At
    <2>2. QED
      BY <1>1, <1>2, <1>3, <1>6, <1>7, <1>11, <1>15, <2>1 DEF RaceInv
  <1>20. QED
    BY <1>7, <1>11, <1>12, <1>13, <1>16, <1>17, <1>18, <1>19, StepKept

LEMMA ApplyKept ==
  ASSUME CommandsInv, NEW p \in Slots, applyEvent(p)
  PROVE  CommandsInv'
  <1>1. TypeOK /\ ServerInv /\ DirectoryInv /\ HistoryInv /\ CommandInv(p) /\ RaceInv(p)
    BY DEF CommandsInv
  <1>2. PICK e \in proc[p].inbox :
          /\ At(p, "apply")
          /\ rows' = [rows EXCEPT ![e.id] = EventRow(e)]
          /\ Becomes(p, [proc[p] EXCEPT !.inbox = @ \ {e}])
          /\ UNCHANGED <<server, auth, queue, lastRev, used, history>>
    BY DEF applyEvent
  <1>3. PICK d \in Commands : d = proc[p]
    BY <1>1, StateFacts
  <1>4. /\ d.pc = "apply" /\ d.inbox \subseteq Events /\ e \in d.inbox
        /\ d.rev <= Len(log) /\ d.done <= Len(d.queue)
    BY <1>1, <1>2, <1>3, StateFacts, CommandFacts DEF At
  <1>5. PICK c : c = [d EXCEPT !.inbox = @ \ {e}]
    OBVIOUS
  <1>6. /\ c \in Commands /\ c.inbox = d.inbox \ {e}
        /\ c.pc = d.pc /\ c.token = d.token /\ c.auth = d.auth /\ c.queue = d.queue
        /\ c.rev = d.rev /\ c.dek = d.dek /\ c.blob = d.blob /\ c.done = d.done
        /\ c.conflict = d.conflict /\ c.stray = d.stray
    BY <1>5 DEF Commands
  <1>7. UNCHANGED <<account, log, blobs, had, strays, raced>>
    BY <1>2 DEF server, history
  <1>8. PICK row : row = EventRow(e)
    OBVIOUS
  <1>9. e.id \in Ids /\ row \in Row /\ row \in GoodRows(e.id) /\ row.blob = None
    <2>1. e \in Events
      BY <1>4
    <2>2. e \in GoodEvents
      BY <1>1, <1>2 DEF CommandInv
    <2>3. /\ e.id \in Ids /\ row \in Row /\ row.blob = None
          /\ row.sealed = e.sealed /\ row.payload = e.payload
      BY <1>8, <2>1 DEF Events, EventRow, Row, Maybe
    <2>4. QED
      BY <2>2, <2>3 DEF GoodEvents, GoodRows
  <1>10. rows'[e.id] = row /\ \A j \in Ids : j # e.id => rows'[j] = rows[j]
    BY <1>1, <1>2, <1>8, <1>9, StateFacts
  <1>11. /\ TypeOK' /\ proc'[p] = c
         /\ \A q \in Slots : q # p => proc'[q] = proc[q]
    <2>1. /\ account' \in [Users -> Maybe(Keys)] /\ log' \in Seq(Pushed)
          /\ blobs' \in [Blobs -> Maybe([owner : Users, key : Keys])]
          /\ auth' \in AuthStates /\ queue' \in Seq(Pending) /\ lastRev' \in 0..Len(log')
          /\ raced' \subseteq Ops /\ used' \subseteq Ops /\ strays' \subseteq Ops \cup Blobs
          /\ had' \subseteq Users
      BY <1>1, <1>2, <1>7, StateFacts
    <2>2. rows' \in [Ids -> Maybe(Row)]
      BY <1>1, <1>2, <1>8, <1>9, StateFacts DEF Maybe
    <2>3. Len(log) <= Len(log')
      <3>1. Len(log) \in Nat
        BY <1>1, StateFacts, SeqFacts
      <3>2. QED
        BY <1>7, <3>1
    <2>4. /\ Becomes(p, c) /\ (c.pc \in {"unlocked", "uploaded"} => c.dek \in Keys)
          /\ c.rev <= Len(log') /\ c.done <= Len(c.queue)
      BY <1>2, <1>3, <1>4, <1>5, <1>6, <1>7
    <2>5. QED
      BY <1>1, <1>6, <2>1, <2>2, <2>3, <2>4, StepTyped
  <1>12. Later
    BY <1>2, <1>7 DEF Later
  <1>13. ServerInv' /\ HistoryInv'
    BY <1>1, <1>2, <1>7, <1>11, <1>12, ServerKept DEF HistoryInv
  <1>14. /\ OwnKeys \subseteq OwnKeys' /\ GoodAuths \subseteq GoodAuths' /\ Held \subseteq Held'
         /\ GoodOps \subseteq GoodOps' /\ GoodEvents \subseteq GoodEvents'
         /\ \A j \in Ids : GoodRows(j) \subseteq GoodRows(j)'
         /\ AppliedOps \subseteq AppliedOps'
    BY <1>1, <1>11, <1>12, LaterSets
  <1>15. DirectoryInv'
    <2>1. ASSUME NEW j \in Ids, rows'[j] # None
          PROVE  /\ rows'[j] \in GoodRows(j)'
                 /\ rows'[j].blob # None => blobs'[rows'[j].blob] # None
      <3>1. CASE j = e.id
        BY <1>9, <1>10, <1>14, <3>1
      <3>2. CASE j # e.id
        BY <1>1, <1>7, <1>10, <1>14, <2>1, <3>2 DEF DirectoryInv, List
      <3>3. QED
        BY <3>1, <3>2
    <2>2. auth' \in GoodAuths' /\ Elements(queue') \subseteq GoodOps'
      BY <1>1, <1>2, <1>14 DEF DirectoryInv
    <2>3. QED
      BY <2>1, <2>2 DEF DirectoryInv, List
  <1>16. CommandInv(p)'
    <2>1. /\ d.auth \in GoodAuths' /\ Elements(d.queue) \subseteq GoodOps'
          /\ d.dek \in Held' /\ d.inbox \ {e} \subseteq GoodEvents'
      BY <1>1, <1>3, <1>14 DEF CommandInv
    <2>2. QED
      BY <1>1, <1>2, <1>3, <1>4, <1>6, <1>7, <1>11, <1>14, <2>1 DEF CommandInv, At
  <1>17. RaceInv(p)'
    <2>1. p \in Holding /\ ~At(p, "save") /\ ~At(p, "push")'
      BY <1>3, <1>4, <1>6, <1>11 DEF Holding, Running, At
    <2>2. QED
      BY <1>1, <1>2, <1>3, <1>6, <1>7, <1>11, <1>14, <2>1 DEF RaceInv
  <1>18. QED
    BY <1>2, <1>11, <1>12, <1>13, <1>15, <1>16, <1>17, StepKept

-----------------------------------------------------------------------------
(***************************************************************************)
(* The steps that save.                                                    *)
(***************************************************************************)
LEMMA IdleTyped ==
  Len(Idle.queue) = 0 /\ Idle.done <= Len(Idle.queue) /\ Idle.rev = 0
    /\ Idle.pc \notin {"unlocked", "uploaded"}
  <1>1. Len(Idle.queue) = 0
    BY IdleFacts
  <1>2. QED
    BY <1>1, IdleFacts

LEMMA SaveSyncKept ==
  ASSUME CommandsInv, NEW p \in Slots, SaveSync(p)
  PROVE  CommandsInv'
  <1>1. TypeOK /\ ServerInv /\ DirectoryInv /\ HistoryInv /\ CommandInv(p) /\ RaceInv(p)
    BY DEF CommandsInv
  <1>2. /\ At(p, "save") \/ At(p, "apply")
        /\ queue' = proc[p].queue /\ lastRev' = proc[p].rev
        /\ raced' = IF At(p, "save") /\ Holding # {p}
                    THEN raced \cup {proc[p].queue[Len(proc[p].queue)].op} ELSE raced
        /\ Becomes(p, Idle)
        /\ UNCHANGED <<server, auth, rows, used, had, strays>>
    BY DEF SaveSync, End
  <1>3. UNCHANGED <<account, log, blobs>>
    BY <1>2 DEF server
  <1>4. p \in Holding
    BY <1>2 DEF Holding, Running, At
  <1>5. /\ proc[p] \in Commands /\ proc[p].queue \in Seq(Pending)
        /\ proc[p].rev \in Nat /\ proc[p].rev <= Len(log) /\ Len(log) \in Nat
    BY <1>1, StateFacts, CommandFacts, SeqFacts
  <1>6. raced \subseteq raced' /\ raced' \subseteq Ops
    <2>1. DOMAIN proc[p].queue = 1..Len(proc[p].queue) /\ Len(proc[p].queue) \in Nat
      BY <1>5, SeqFacts
    <2>2. At(p, "save") => Len(proc[p].queue) \in DOMAIN proc[p].queue
      BY <1>1, <2>1 DEF CommandInv
    <2>3. OpsOf(proc[p].queue) \subseteq Ops
      BY <1>5, OpsOfType
    <2>4. At(p, "save") => proc[p].queue[Len(proc[p].queue)].op \in Ops
      BY <2>2, <2>3 DEF OpsOf
    <2>5. raced \subseteq Ops
      BY <1>1, StateFacts
    <2>6. QED
      BY <1>2, <2>4, <2>5
  <1>7. /\ TypeOK' /\ proc'[p] = Idle
        /\ \A q \in Slots : q # p => proc'[q] = proc[q]
    <2>1. /\ account' \in [Users -> Maybe(Keys)] /\ log' \in Seq(Pushed)
          /\ blobs' \in [Blobs -> Maybe([owner : Users, key : Keys])]
          /\ auth' \in AuthStates /\ rows' \in [Ids -> Maybe(Row)]
          /\ used' \subseteq Ops /\ strays' \subseteq Ops \cup Blobs
          /\ had' \subseteq Users
      BY <1>1, <1>2, <1>3, StateFacts
    <2>2. queue' \in Seq(Pending) /\ lastRev' \in 0..Len(log') /\ Len(log) <= Len(log')
      BY <1>2, <1>3, <1>5
    <2>3. /\ Idle \in Commands /\ Idle.rev <= Len(log') /\ Idle.done <= Len(Idle.queue)
          /\ Idle.pc \in {"unlocked", "uploaded"} => Idle.dek \in Keys
      BY <1>3, <1>5, IdleFacts, IdleTyped
    <2>4. QED
      BY <1>1, <1>2, <1>6, <2>1, <2>2, <2>3, StepTyped
  <1>8. Later
    BY <1>2, <1>3, <1>6 DEF Later
  <1>9. ServerInv' /\ HistoryInv'
    BY <1>1, <1>2, <1>3, <1>7, <1>8, ServerKept DEF HistoryInv
  <1>10. DirectoryInv'
    <2>1. auth' \in GoodAuths' /\ Elements(queue') \subseteq GoodOps'
      BY <1>1, <1>2, <1>7, <1>8, LaterSets DEF DirectoryInv, CommandInv
    <2>2. QED
      BY <1>1, <1>2, <1>7, <1>8, <2>1, DirectorySaved
  <1>11. /\ OpsOf(queue) \subseteq OpsOf(queue') \cup raced \cup AppliedOps
         /\ \A k \in DOMAIN proc[p].queue :
              \/ proc[p].queue[k].op \in OpsOf(queue) \cup raced \cup AppliedOps
              \/ At(p, "save") /\ k = Len(proc[p].queue)
    BY <1>1, <1>2, <1>4 DEF RaceInv
  <1>12. AppliedOps' = AppliedOps
    BY <1>3 DEF AppliedOps
  <1>13. ASSUME NEW q \in Slots, q # p
         PROVE  CommandInv(q)' /\ RaceInv(q)'
    <2>1. CommandInv(q) /\ RaceInv(q) /\ proc'[q] = proc[q]
      BY <1>7, <1>13 DEF CommandsInv
    <2>2. CommandInv(q)'
      BY <1>1, <1>7, <1>8, <2>1, CommandKept
    <2>3. q \in Holding' => q \in Holding
      BY <2>1 DEF Holding, Running, At
    <2>4. ASSUME q \in Holding
          PROVE  OpsOf(queue') \subseteq OpsOf(proc[q].queue) \cup raced' \cup AppliedOps
      <3>1. At(p, "save") => proc[p].queue[Len(proc[p].queue)].op \in raced'
        BY <1>2, <1>13, <2>4
      <3>2. OpsOf(queue) \subseteq OpsOf(proc[q].queue) \cup raced \cup AppliedOps
        BY <2>1, <2>4 DEF RaceInv
      <3>3. \A k \in DOMAIN proc[p].queue :
              proc[p].queue[k].op \in OpsOf(proc[q].queue) \cup raced' \cup AppliedOps
        BY <1>6, <1>11, <3>1, <3>2
      <3>4. QED
        BY <1>2, <3>3 DEF OpsOf
    <2>5. ASSUME q \in Holding, NEW k \in DOMAIN proc[q].queue
          PROVE  \/ proc[q].queue[k].op \in OpsOf(queue') \cup raced' \cup AppliedOps
                 \/ At(q, "save") /\ k = Len(proc[q].queue)
      BY <1>6, <1>11, <2>1, <2>5 DEF RaceInv
    <2>6. RaceInv(q)'
      BY <1>12, <2>1, <2>3, <2>4, <2>5 DEF RaceInv, At
    <2>7. QED
      BY <2>2, <2>6
  <1>14. CommandInv(p)' /\ RaceInv(p)'
    BY <1>1, <1>7, IdleKept
  <1>15. QED
    BY <1>7, <1>9, <1>10, <1>13, <1>14 DEF CommandsInv

\* A login or registration of the account that the directory has, or of its first one.
LEMMA SameAccountKept ==
  ASSUME CommandsInv, NEW p \in Slots, At(p, "login"), auth' = proc[p].auth,
         auth.user \in {None, proc[p].auth.user}, Becomes(p, Idle),
         had' = had \cup {proc[p].auth.user},
         UNCHANGED <<server, rows, queue, lastRev, used, strays, raced>>
  PROVE  CommandsInv'
  <1>1. TypeOK /\ ServerInv /\ DirectoryInv /\ HistoryInv /\ CommandInv(p)
    BY DEF CommandsInv
  <1>2. UNCHANGED <<account, log, blobs>>
    BY DEF server
  <1>3. /\ proc[p] \in Commands /\ proc[p].auth \in AuthStates /\ Len(log) \in Nat
        /\ proc[p].auth.user \in Users
    <2>1. proc[p] \in Commands /\ proc[p].auth \in AuthStates /\ Len(log) \in Nat
      BY <1>1, StateFacts, CommandFacts, SeqFacts
    <2>2. QED
      BY <1>1, <2>1 DEF CommandInv, AuthStates, Maybe
  <1>4. /\ TypeOK' /\ proc'[p] = Idle
        /\ \A q \in Slots : q # p => proc'[q] = proc[q]
    <2>1. /\ account' \in [Users -> Maybe(Keys)] /\ log' \in Seq(Pushed)
          /\ blobs' \in [Blobs -> Maybe([owner : Users, key : Keys])]
          /\ rows' \in [Ids -> Maybe(Row)] /\ queue' \in Seq(Pending)
          /\ lastRev' \in 0..Len(log') /\ used' \subseteq Ops /\ raced' \subseteq Ops
          /\ strays' \subseteq Ops \cup Blobs
      BY <1>1, <1>2, StateFacts
    <2>2. auth' \in AuthStates /\ had' \subseteq Users
      BY <1>1, <1>3, StateFacts
    <2>3. Len(log) <= Len(log')
      BY <1>2, <1>3
    <2>4. /\ Idle \in Commands /\ Idle.rev <= Len(log') /\ Idle.done <= Len(Idle.queue)
          /\ Idle.pc \in {"unlocked", "uploaded"} => Idle.dek \in Keys
      BY <1>2, <1>3, IdleFacts, IdleTyped
    <2>5. QED
      BY <1>1, <2>1, <2>2, <2>3, <2>4, StepTyped
  <1>5. Later
    BY <1>2 DEF Later
  <1>6. ServerInv' /\ HistoryInv'
    BY <1>1, <1>2, <1>4, <1>5, ServerKept DEF HistoryInv
  <1>7. DirectoryInv'
    <2>1. auth' \in GoodAuths' /\ Elements(queue') \subseteq GoodOps'
      BY <1>1, <1>4, <1>5, LaterSets DEF DirectoryInv, CommandInv
    <2>2. QED
      BY <1>1, <1>4, <1>5, <2>1, DirectorySaved
  <1>8. CommandInv(p)' /\ RaceInv(p)'
    BY <1>1, <1>4, IdleKept
  <1>9. QED
    BY <1>4, <1>5, <1>6, <1>7, <1>8, StepKept

\* A login or registration of another account: what was queued, what commands have in
\* memory and the files they stored are strays from now on, and so are the commands.
LEMMA OtherAccountKept ==
  ASSUME CommandsInv, NEW p \in Slots, At(p, "login"), auth' = proc[p].auth,
         had' = had \cup {proc[p].auth.user},
         strays' = strays \cup OpsOf(queue)
                     \cup (UNION {OpsOf(proc[q].queue) : q \in Slots})
                     \cup ({proc[q].blob : q \in Slots} \ {None}),
         proc' = [q \in Slots |->
                    IF q = p THEN Idle
                    ELSE IF q \in Running
                         THEN [proc[q] EXCEPT !.stray = TRUE] ELSE proc[q]],
         UNCHANGED <<server, rows, queue, lastRev, used, raced>>
  PROVE  CommandsInv'
  <1>1. TypeOK /\ ServerInv /\ DirectoryInv
    BY DEF CommandsInv
  <1>2. UNCHANGED <<account, log, blobs>>
    BY DEF server
  <1>3. had' \subseteq Users
    <2>1. proc[p] \in Commands /\ CommandInv(p)
      BY <1>1, StateFacts DEF CommandsInv
    <2>2. proc[p].auth.user \in Maybe(Users) /\ proc[p].auth.user # None
      BY <2>1, CommandFacts DEF CommandInv, AuthStates
    <2>3. QED
      BY <1>1, <2>2, StateFacts DEF Maybe
  <1>4. ASSUME NEW q \in Slots
        PROVE  /\ proc[q] \in Commands /\ proc[q].auth \in AuthStates
               /\ proc[q].queue \in Seq(Pending) /\ proc[q].blob \in Maybe(Blobs)
               /\ proc[q].rev <= Len(log) /\ proc[q].done <= Len(proc[q].queue)
               /\ OpsOf(proc[q].queue) \subseteq strays'
    BY <1>1, StateFacts, CommandFacts
  <1>5. strays \subseteq strays' /\ OpsOf(queue) \subseteq strays'
    OBVIOUS
  <1>6. strays' \subseteq Ops \cup Blobs
    <2>1. strays \subseteq Ops \cup Blobs /\ OpsOf(queue) \subseteq Ops
      BY <1>1, StateFacts, OpsOfType
    <2>2. \A q \in Slots : OpsOf(proc[q].queue) \subseteq Ops
      BY <1>4, OpsOfType
    <2>3. \A q \in Slots : proc[q].blob \in Blobs \cup {None}
      BY <1>4 DEF Maybe
    <2>4. ASSUME NEW x \in strays' PROVE x \in Ops \cup Blobs
      <3>1. \/ x \in strays \/ x \in OpsOf(queue)
            \/ \E q \in Slots : x \in OpsOf(proc[q].queue)
            \/ \E q \in Slots : x = proc[q].blob /\ x # None
        BY <2>4
      <3>2. QED
        BY <2>1, <2>2, <2>3, <3>1
    <2>5. QED
      BY <2>4
  <1>7. proc'[p] = Idle
    OBVIOUS
  <1>8. ASSUME NEW q \in Slots, q # p, q \in Running
        PROVE  /\ proc'[q] \in Commands /\ proc'[q].stray = TRUE
               /\ proc'[q].pc = proc[q].pc /\ proc'[q].token = proc[q].token
               /\ proc'[q].auth = proc[q].auth /\ proc'[q].queue = proc[q].queue
               /\ proc'[q].rev = proc[q].rev /\ proc'[q].dek = proc[q].dek
               /\ proc'[q].blob = proc[q].blob /\ proc'[q].done = proc[q].done
               /\ proc'[q].conflict = proc[q].conflict /\ proc'[q].inbox = proc[q].inbox
    <2>1. PICK d \in Commands : d = proc[q]
      BY <1>4
    <2>2. PICK c : c = [d EXCEPT !.stray = TRUE]
      OBVIOUS
    <2>3. /\ c \in Commands /\ c.stray = TRUE
          /\ c.pc = d.pc /\ c.token = d.token /\ c.auth = d.auth /\ c.queue = d.queue
          /\ c.rev = d.rev /\ c.dek = d.dek /\ c.blob = d.blob /\ c.done = d.done
          /\ c.conflict = d.conflict /\ c.inbox = d.inbox
      BY <2>2 DEF Commands
    <2>4. proc'[q] = [proc[q] EXCEPT !.stray = TRUE]
      BY <1>8
    <2>5. proc'[q] = c
      BY <2>1, <2>2, <2>4
    <2>6. QED
      BY <2>1, <2>3, <2>5
  <1>9. ASSUME NEW q \in Slots, q # p, q \notin Running
        PROVE  proc'[q] = Idle
    <2>1. proc'[q] = proc[q]
      BY <1>9
    <2>2. CommandInv(q) /\ At(q, "idle")
      BY <1>9 DEF CommandsInv, Running
    <2>3. QED
      BY <2>1, <2>2 DEF CommandInv
  <1>10. TypeOK'
    <2>1. Len(log) \in Nat
      BY <1>1, StateFacts, SeqFacts
    <2>2. ASSUME NEW q \in Slots
          PROVE  /\ proc'[q] \in Commands
                 /\ proc'[q].pc \in {"unlocked", "uploaded"} => proc'[q].dek \in Keys
                 /\ proc'[q].rev <= Len(log) /\ proc'[q].done <= Len(proc'[q].queue)
      <3>1. CASE q = p \/ q \notin Running
        BY <1>7, <1>9, <2>1, <3>1, IdleFacts, IdleTyped
      <3>2. CASE q # p /\ q \in Running
        BY <1>1, <1>4, <1>8, <3>2, StateFacts
      <3>3. QED
        BY <3>1, <3>2
    <2>3. proc' \in [Slots -> Commands]
      BY <2>2
    <2>4. auth' \in AuthStates
      BY <1>4
    <2>5. /\ account' \in [Users -> Maybe(Keys)] /\ log' \in Seq(Pushed)
          /\ blobs' \in [Blobs -> Maybe([owner : Users, key : Keys])]
          /\ rows' \in [Ids -> Maybe(Row)] /\ queue' \in Seq(Pending)
          /\ lastRev' \in 0..Len(log') /\ used' \subseteq Ops /\ raced' \subseteq Ops
      BY <1>1, <1>2, StateFacts
    <2>6. QED
      BY <1>2, <1>3, <1>6, <2>2, <2>3, <2>4, <2>5 DEF TypeOK
  <1>11. Held \subseteq Held' /\ AppliedOps' = AppliedOps /\ GoodAuths' = GoodAuths
    BY <1>2 DEF Held, AppliedOps, GoodAuths
  <1>12. /\ GoodPushes \subseteq GoodPushes' /\ GoodEvents \subseteq GoodEvents'
         /\ \A i \in Ids : GoodRows(i) \subseteq GoodRows(i)'
    <2>1. GoodPushes \subseteq GoodPushes'
      BY <1>2, <1>5, <1>11 DEF GoodPushes
    <2>2. ASSUME NEW i PROVE (Deleted(i) => Deleted(i)') /\ (Missing(i) => Missing(i)')
      BY <1>2 DEF Deleted, Missing
    <2>3. GoodEvents \subseteq GoodEvents'
      BY <1>11, <2>2 DEF GoodEvents
    <2>4. \A i \in Ids : GoodRows(i) \subseteq GoodRows(i)'
      BY <1>11, <2>2 DEF GoodRows
    <2>5. QED
      BY <2>1, <2>3, <2>4
  <1>13. \A o \in GoodOps : o.op \in strays' => o \in GoodOps'
    BY <1>11 DEF GoodOps
  <1>14. ServerInv'
    <2>1. Elements(log') \subseteq GoodPushes'
      BY <1>1, <1>2, <1>12 DEF ServerInv
    <2>2. QED
      BY <1>1, <1>2, <1>5, <1>11, <2>1 DEF ServerInv
  <1>15. DirectoryInv'
    <2>1. auth' \in GoodAuths'
      BY <1>11 DEF CommandsInv, CommandInv
    <2>2. \A o \in Elements(queue) : o \in GoodOps /\ o.op \in OpsOf(queue)
      BY <1>1 DEF DirectoryInv, Elements, OpsOf
    <2>3. Elements(queue') \subseteq GoodOps'
      BY <1>5, <1>13, <2>2
    <2>4. QED
      BY <1>1, <1>2, <1>12, <2>1, <2>3 DEF DirectoryInv, List
  <1>16. HistoryInv'
    BY DEF HistoryInv
  <1>17. ASSUME NEW q \in Slots
         PROVE  CommandInv(q)' /\ RaceInv(q)'
    <2>1. CASE q = p \/ q \notin Running
      <3>1. proc'[q] = Idle
        BY <1>7, <1>9, <2>1
      <3>2. QED
        BY <1>1, <3>1, IdleKept
    <2>2. CASE q # p /\ q \in Running
      <3>1. CommandInv(q) /\ RaceInv(q)
        BY DEF CommandsInv
      <3>2. \A o \in Elements(proc[q].queue) :
              o \in GoodOps /\ o.op \in OpsOf(proc[q].queue)
        BY <3>1 DEF CommandInv, Elements, OpsOf
      <3>3. Elements(proc[q].queue) \subseteq GoodOps'
        BY <1>4, <1>13, <3>2
      <3>4. /\ proc[q].auth \in GoodAuths' /\ proc[q].dek \in Held'
            /\ proc[q].inbox \subseteq GoodEvents'
            /\ proc[q].blob # None => blobs'[proc[q].blob] # None
        BY <1>2, <1>11, <1>12, <3>1 DEF CommandInv
      <3>5. At(q, "idle")' <=> At(q, "idle")
        BY <1>8, <2>2 DEF At
      <3>6. ~At(q, "idle")
        BY <2>2 DEF Running
      <3>7. CommandInv(q)'
        <4>1. OpsOf(proc[q].queue) \subseteq strays'
          BY <1>4
        <4>2. /\ proc[q].pc # "push" => proc[q].done = 0
              /\ proc[q].pc = "save" => Len(proc[q].queue) # 0
              /\ proc[q].pc = "login" => proc[q].auth.user # None
          BY <3>1 DEF CommandInv, At
        <4>3. /\ proc'[q].stray = TRUE /\ proc'[q].pc = proc[q].pc
              /\ proc'[q].auth = proc[q].auth /\ proc'[q].queue = proc[q].queue
              /\ proc'[q].dek = proc[q].dek /\ proc'[q].blob = proc[q].blob
              /\ proc'[q].done = proc[q].done /\ proc'[q].inbox = proc[q].inbox
          BY <1>8, <2>2
        <4>4. proc[q].pc # "idle"
          BY <3>6 DEF At
        <4>5. QED
          BY <3>3, <3>4, <4>1, <4>2, <4>3, <4>4 DEF CommandInv, At
      <3>8. q \in Holding' <=> q \in Holding
        BY <1>8, <2>2 DEF Holding, Running, At
      <3>9. RaceInv(q)'
        <4>1. /\ proc'[q].pc = proc[q].pc /\ proc'[q].queue = proc[q].queue
              /\ proc'[q].done = proc[q].done /\ proc'[q].conflict = proc[q].conflict
          BY <1>8, <2>2
        <4>2. UNCHANGED <<queue, raced>>
          OBVIOUS
        <4>3. QED
          BY <1>11, <3>1, <3>8, <4>1, <4>2 DEF RaceInv, At
      <3>10. QED
        BY <3>7, <3>9
    <2>3. QED
      BY <2>1, <2>2
  <1>18. QED
    BY <1>10, <1>14, <1>15, <1>16, <1>17 DEF CommandsInv

LEMMA SaveKept ==
  ASSUME CommandsInv, NEW p \in Slots, Save(p)
  PROVE  CommandsInv'
  <1>1. /\ At(p, "login") /\ auth' = proc[p].auth /\ had' = had \cup {proc[p].auth.user}
        /\ UNCHANGED <<server, rows, queue, lastRev, used, raced>>
    BY DEF Save, Saved
  <1>2. CASE auth.user \in {None, proc[p].auth.user}
    <2>1. /\ UNCHANGED strays
          /\ proc' = [q \in Slots |-> IF q = p THEN Idle ELSE proc[q]]
      BY <1>2 DEF Save
    <2>2. proc \in [Slots -> Commands]
      BY StateFacts DEF CommandsInv
    <2>3. Becomes(p, Idle)
      BY <2>1, <2>2 DEF Becomes
    <2>4. QED
      BY <1>1, <1>2, <2>1, <2>3, SameAccountKept
  <1>3. CASE auth.user \notin {None, proc[p].auth.user}
    <2>1. /\ strays' = strays \cup OpsOf(queue)
                         \cup (UNION {OpsOf(proc[q].queue) : q \in Slots})
                         \cup ({proc[q].blob : q \in Slots} \ {None})
          /\ proc' = [q \in Slots |->
                        IF q = p THEN Idle
                        ELSE IF q \in Running
                             THEN [proc[q] EXCEPT !.stray = TRUE] ELSE proc[q]]
      BY <1>3 DEF Save
    <2>2. QED
      BY <1>1, <2>1, OtherAccountKept
  <1>4. QED
    BY <1>2, <1>3

-----------------------------------------------------------------------------
(***************************************************************************)
(* The theorems.                                                           *)
(***************************************************************************)
LEMMA InitKept == Init => CommandsInv
  <1> SUFFICES ASSUME Init PROVE CommandsInv
    OBVIOUS
  <1>1. /\ account = [u \in Users |-> None] /\ log = <<>>
        /\ blobs = [b \in Blobs |-> None] /\ auth = NoAuth
        /\ rows = [i \in Ids |-> None] /\ queue = <<>> /\ lastRev = 0
        /\ proc = [p \in Slots |-> Idle]
        /\ used = {} /\ had = {} /\ strays = {} /\ raced = {}
    BY DEF Init
  <1>2. \A p \in Slots : proc[p] = Idle
    BY <1>1
  <1>3. log \in Seq(Pushed) /\ queue \in Seq(Pending) /\ Len(log) = 0
    BY <1>1
  <1>4. TypeOK
    <2>1. /\ account \in [Users -> Maybe(Keys)]
          /\ blobs \in [Blobs -> Maybe([owner : Users, key : Keys])]
          /\ rows \in [Ids -> Maybe(Row)]
      BY <1>1 DEF Maybe
    <2>2. auth \in AuthStates /\ proc \in [Slots -> Commands]
      BY <1>1, NoAuthType, IdleFacts
    <2>3. lastRev \in 0..Len(log)
      BY <1>1, <1>3
    <2>4. \A p \in Slots :
            /\ proc[p].pc \in {"unlocked", "uploaded"} => proc[p].dek \in Keys
            /\ proc[p].rev <= Len(log) /\ proc[p].done <= Len(proc[p].queue)
      BY <1>2, <1>3, IdleFacts, IdleTyped
    <2>5. used \cup raced \subseteq Ops /\ strays \subseteq Ops \cup Blobs /\ had \subseteq Users
      BY <1>1
    <2>6. QED
      BY <1>3, <2>1, <2>2, <2>3, <2>4, <2>5 DEF TypeOK
  <1>5. ServerInv
    BY <1>1, EmptyQueue DEF ServerInv
  <1>6. DirectoryInv
    <2>1. auth \in GoodAuths
      BY <1>1, NoAuthType DEF GoodAuths
    <2>2. List = {}
      BY <1>1 DEF List
    <2>3. QED
      BY <1>1, <2>1, <2>2, EmptyQueue DEF DirectoryInv
  <1>7. HistoryInv
    BY <1>1 DEF HistoryInv, NoAuth
  <1>8. ASSUME NEW p \in Slots PROVE CommandInv(p) /\ RaceInv(p)
    <2>1. NoAuth \in GoodAuths /\ None \in Held
      BY NoAuthType DEF GoodAuths, Held
    <2>2. CommandInv(p)
      BY <1>2, <2>1, IdleFacts, EmptyQueue DEF CommandInv, At
    <2>3. p \notin Holding /\ ~At(p, "push")
      BY <1>2, IdleFacts DEF Holding, Running, At
    <2>4. QED
      BY <2>2, <2>3 DEF RaceInv
  <1>9. QED
    BY <1>4, <1>5, <1>6, <1>7, <1>8 DEF CommandsInv

LEMMA ShowKept ==
  ASSUME CommandsInv, NEW p \in Slots, NEW results, Show(p, results)
  PROVE  CommandsInv'
  BY EndKept DEF Show

LEMMA AddKept ==
  ASSUME CommandsInv, NEW p \in Slots, addCmd(p) \/ AddUploaded(p)
  PROVE  CommandsInv'
  <1>1. CASE addCmd(p)
    <2>1. proc[p].pc \in {"unlocked", "uploaded"} /\ None \in Maybe(Blobs)
      BY <1>1 DEF addCmd, At, Maybe
    <2>2. PICK op \in Ops : AddItem(p, op, None)
      BY <1>1 DEF addCmd
    <2>3. QED
      BY <2>1, <2>2, AddItemKept
  <1>2. CASE AddUploaded(p)
    <2>1. proc[p].pc \in {"unlocked", "uploaded"}
      BY <1>2 DEF AddUploaded, At
    <2>2. PICK op \in Ops : AddItem(p, op, proc[p].blob)
      BY <1>2 DEF AddUploaded
    <2>3. TypeOK /\ CommandInv(p)
      BY DEF CommandsInv
    <2>4. /\ proc[p].blob \in Maybe(Blobs)
          /\ proc[p].blob # None => blobs[proc[p].blob] # None
      BY <2>3, StateFacts, CommandFacts DEF CommandInv
    <2>5. QED
      BY <2>1, <2>2, <2>4, AddItemKept
  <1>3. QED
    BY <1>1, <1>2

LEMMA NextKept ==
  ASSUME CommandsInv, [Next]_vars
  PROVE  CommandsInv'
  <1>1. CASE UNCHANGED vars
    <2>1. UNCHANGED <<account, log, blobs, auth, rows, queue, lastRev, proc, used, had,
                      strays, raced>>
      BY <1>1 DEF vars, server, store, history
    <2>2. TypeOK'
      BY <2>1 DEF CommandsInv, TypeOK
    <2>3. Later
      BY <2>1 DEF Later
    <2>4. ServerInv' /\ DirectoryInv' /\ HistoryInv'
      BY <2>1, <2>2, <2>3, ServerKept, DirectoryKept DEF CommandsInv, HistoryInv
    <2>5. \A p \in Slots : CommandInv(p)' /\ RaceInv(p)'
      BY <2>1, <2>2, <2>3, OthersKept DEF CommandsInv
    <2>6. QED
      BY <2>2, <2>4, <2>5 DEF CommandsInv
  <1>2. ASSUME NEW p \in Slots, Start(p) PROVE CommandsInv'
    BY <1>2, OpenKept, RegisterKept, LoginKept DEF Start
  <1>3. ASSUME NEW p \in Slots, Continue(p) PROVE CommandsInv'
    <2>1. CASE \/ Save(p) \/ LoadRevision(p) \/ LoadQueue(p)
               \/ \E u \in Users : Unlock(p, u)
      BY <2>1, SaveKept, LoadRevisionKept, LoadQueueKept, UnlockKept
    <2>2. CASE \/ addCmd(p) \/ updateCmd(p) \/ deleteCmd(p) \/ uploadCmd(p)
               \/ AddUploaded(p)
      BY <2>2, AddKept, UpdateKept, DeleteKept, UploadKept
    <2>3. CASE listCmd(p) \/ getCmd(p) \/ downloadCmd(p)
      BY <2>3, ShowKept DEF listCmd, getCmd, downloadCmd
    <2>4. CASE syncCmd(p) \/ applyPendingOperation(p) \/ Answer(p) \/ applyEvent(p)
      BY <2>4, SyncKept, PushKept, AnswerKept, ApplyKept
    <2>5. CASE SaveSync(p)
      BY <2>5, SaveSyncKept
    <2>6. CASE Fail(p)
      BY <2>6, EndKept DEF Fail
    <2>7. QED
      BY <1>3, <2>1, <2>2, <2>3, <2>4, <2>5, <2>6 DEF Continue
  <1>4. QED
    BY <1>1, <1>2, <1>3 DEF Next

\* The inductive invariant: every step of any command, among any number of others, keeps
\* what the server, the directory and the other commands know of accounts, keys and queued
\* operations.
THEOREM CommandsInvariant == Spec => []CommandsInv
  <1>1. Init => CommandsInv
    BY InitKept
  <1>2. CommandsInv /\ [Next]_vars => CommandsInv'
    BY NextKept
  <1>3. QED
    BY <1>1, <1>2, PTL DEF Spec

\* The types hold, whatever the interleaving: in particular a command that got past Unlock
\* has a key, and a revision that a command or the directory knows has been handed out.
THEOREM CommandsTyped == Spec => []TypeOK
  <1>1. CommandsInv => TypeOK
    BY DEF CommandsInv
  <1>2. QED
    BY <1>1, CommandsInvariant, PTL

\* No key is ever lost (KeysRecoverable), for any accounts, crashes and refused or lost
\* registrations.
THEOREM KeysAreRecoverable == Spec => []KeysRecoverable
  <1>1. CommandsInv => KeysRecoverable
    <2> SUFFICES ASSUME CommandsInv PROVE KeysRecoverable
      OBVIOUS
    <2>1. TypeOK /\ ServerInv /\ DirectoryInv /\ \A p \in Slots : CommandInv(p)
      BY DEF CommandsInv
    <2>2. \A i \in List : rows[i].sealed \in Held
      BY <2>1 DEF DirectoryInv, GoodRows
    <2>3. \A k \in DOMAIN queue : queue[k].key \in Held
      BY <2>1 DEF DirectoryInv, GoodOps, Elements
    <2>4. \A r \in DOMAIN log : log[r].key \in Held
      BY <2>1 DEF ServerInv, GoodPushes, Elements
    <2>5. \A b \in Blobs : blobs[b] # None => blobs[b].key \in Held
      BY <2>1 DEF ServerInv
    <2>6. \A p \in Slots : proc[p].dek \in Held
      BY <2>1 DEF CommandInv
    <2>7. Held \subseteq {None} \cup {account[u] : u \in Users}
      BY <2>1, StateFacts DEF Held
    <2>8. QED
      BY <2>2, <2>3, <2>4, <2>5, <2>6, <2>7 DEF KeysRecoverable
  <1>2. QED
    BY <1>1, CommandsInvariant, PTL

\* A vault holds only what its owner can open, but for what a change of account caught on
\* the way (SealedForOwner).
THEOREM VaultsSealedForOwner == Spec => []SealedForOwner
  <1>1. CommandsInv => SealedForOwner
    BY DEF CommandsInv, ServerInv, GoodPushes, Elements, SealedForOwner
  <1>2. QED
    BY <1>1, CommandsInvariant, PTL

\* No row refers to a file that is not committed (RowBlobCommitted), wherever uploads and
\* edits stop.
THEOREM RowBlobsCommitted == Spec => []RowBlobCommitted
  <1>1. CommandsInv => RowBlobCommitted
    BY DEF CommandsInv, DirectoryInv, RowBlobCommitted
  <1>2. QED
    BY <1>1, CommandsInvariant, PTL

\* With the right password, an item that cannot be decrypted is sealed for another account
\* that the directory has had; one without a field was deleted on the server or written
\* there above the threshold; and a file of the caller's opens unless a change of account
\* caught its upload or this command (OwnDataReadable).
THEOREM OwnDataIsReadable == Spec => []OwnDataReadable
  <1>1. ASSUME CommandsInv, NEW p \in Slots, At(p, "unlocked"), NEW i \in List
        PROVE  /\ DecryptItem(proc[p].dek, rows[i]) = "error" =>
                    \E u \in had : rows[i].sealed = account[u] /\ account[u] # proc[p].dek
               /\ DecryptItem(proc[p].dek, rows[i]) = "panic" => Missing(i)
    <2>1. rows[i] \in GoodRows(i)
      BY <1>1 DEF CommandsInv, DirectoryInv
    <2>2. /\ rows[i].sealed \in Held /\ rows[i].payload \in BOOLEAN
          /\ rows[i].sealed = None => Deleted(i)
          /\ ~rows[i].payload => Missing(i)
      BY <2>1 DEF GoodRows, Row
    <2>3. Deleted(i) => Missing(i)
      BY DEF Deleted, Missing
    <2>4. CASE rows[i].sealed = None
      BY <2>2, <2>3, <2>4 DEF DecryptItem
    <2>5. CASE rows[i].sealed # None /\ rows[i].sealed = proc[p].dek
      BY <2>2, <2>5 DEF DecryptItem
    <2>6. CASE rows[i].sealed \notin {None, proc[p].dek}
      <3>1. DecryptItem(proc[p].dek, rows[i]) = "error"
        BY <2>6 DEF DecryptItem
      <3>2. PICK u \in had : rows[i].sealed = account[u]
        BY <2>2, <2>6 DEF Held
      <3>3. QED
        BY <2>6, <3>1, <3>2
    <2>7. QED
      BY <2>4, <2>5, <2>6
  <1>2. ASSUME CommandsInv, NEW p \in Slots, At(p, "unlocked"), NEW b \in DownloadBlob(p),
               b \notin strays, ~proc[p].stray
        PROVE  blobs[b].key = proc[p].dek
    <2>1. TypeOK /\ ServerInv /\ CommandInv(p)
      BY <1>2 DEF CommandsInv
    <2>2. proc[p].dek \in OwnKeys
      <3>1. proc[p].dek \in Keys
        BY <1>2, <2>1, StateFacts DEF At
      <3>2. QED
        BY <1>2, <2>1, <3>1, NoneIsNew DEF CommandInv
    <2>3. b \in Blobs /\ blobs[b] # None /\ Caller(Bearer(proc[p].token), blobs[b].owner)
      BY DEF DownloadBlob
    <2>4. blobs[b].owner \in Users
      BY <2>1, <2>3, StateFacts DEF Maybe
    <2>5. blobs[b].owner = auth.user
      BY <1>2, <2>1, <2>3, <2>4, CallerFacts
    <2>6. blobs[b].key = account[blobs[b].owner]
      BY <1>2, <2>1, <2>3 DEF ServerInv
    <2>7. QED
      BY <2>2, <2>5, <2>6 DEF OwnKeys
  <1>3. CommandsInv => OwnDataReadable
    BY <1>1, <1>2 DEF OwnDataReadable, Missing
  <1>4. QED
    BY <1>3, CommandsInvariant, PTL

LEMMA QueueStep ==
  ASSUME [Next]_vars
  PROVE  UNCHANGED queue \/ \E p \in Slots : SaveSync(p)
  <1>1. CASE UNCHANGED vars
    BY <1>1 DEF vars, store
  <1>2. ASSUME NEW p \in Slots, Start(p) PROVE UNCHANGED queue
    BY <1>2 DEF Start, Open, registerCmd, loginCmd, store
  <1>3. ASSUME NEW p \in Slots, Continue(p), ~SaveSync(p) PROVE UNCHANGED queue
    <2>1. CASE \/ Save(p) \/ LoadRevision(p) \/ LoadQueue(p)
               \/ \E u \in Users : Unlock(p, u)
      BY <2>1 DEF Save, LoadRevision, LoadQueue, Unlock, store
    <2>2. CASE \/ addCmd(p) \/ updateCmd(p) \/ deleteCmd(p) \/ uploadCmd(p)
               \/ AddUploaded(p)
      BY <2>2 DEF addCmd, updateCmd, deleteCmd, uploadCmd, AddUploaded, AddItem, Edit, store
    <2>3. CASE listCmd(p) \/ getCmd(p) \/ downloadCmd(p) \/ Fail(p)
      BY <2>3 DEF listCmd, getCmd, downloadCmd, Show, Fail, store
    <2>4. CASE syncCmd(p) \/ applyPendingOperation(p) \/ Answer(p) \/ applyEvent(p)
      BY <2>4 DEF syncCmd, applyPendingOperation, Answer, applyEvent, store
    <2>5. QED
      BY <1>3, <2>1, <2>2, <2>3, <2>4 DEF Continue
  <1>4. QED
    BY <1>1, <1>2, <1>3 DEF Next

\* A saved operation leaves the queue only once the server has applied it, or if it was
\* saved beside another command that had the queue in memory (QueuedOpSurvives).
THEOREM QueuedOpsSurvive == Spec => QueuedOpSurvives
  <1>1. ASSUME CommandsInv, [Next]_vars, NEW op \in OpsOf(queue) \ OpsOf(queue')
        PROVE  op \in raced \/ \E u \in Users : Processed(u, op)
    <2>1. PICK p \in Slots : SaveSync(p)
      BY <1>1, QueueStep
    <2>2. queue' = proc[p].queue /\ p \in Holding
      BY <2>1 DEF SaveSync, Holding, Running, At
    <2>3. op \in raced \cup AppliedOps
      BY <1>1, <2>2 DEF CommandsInv, RaceInv
    <2>4. CASE op \in AppliedOps
      <3>1. PICK r \in DOMAIN log : log[r].op = op
        BY <2>4 DEF AppliedOps
      <3>2. log \in Seq(Pushed)
        BY <1>1, StateFacts DEF CommandsInv
      <3>3. log[r] \in Pushed
        BY <3>2, SeqFacts
      <3>4. log[r].user \in Users
        BY <3>3 DEF Pushed
      <3>5. QED
        BY <3>1, <3>4 DEF Processed
    <2>5. QED
      BY <2>3, <2>4
  <1>2. CommandsInv /\ [Next]_vars =>
          [\A op \in OpsOf(queue) \ OpsOf(queue') :
             op \in raced \/ \E u \in Users : Processed(u, op)]_vars
    BY <1>1
  <1>3. QED
    BY <1>2, CommandsInvariant, PTL DEF Spec, QueuedOpSurvives

=============================================================================
