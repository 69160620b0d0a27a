------------------------------ MODULE Sessions ------------------------------
(***************************************************************************)
(* Conversations of the panel and the memory that is made of them when     *)
(* they are closed (app/api.py, app/agent.py, app/pipeline.py,             *)
(* app/memory_legacy.py).                                                  *)
(*                                                                         *)
(* The routes are plain functions that the web server runs in threads.     *)
(* Each has a database session of its own: a query reads what is committed *)
(* and holds nothing, and what is written up to a commit is one            *)
(* transaction, of which SQLite runs one at a time.  A step is a query or  *)
(* a transaction; between two of them other handlers run, and the process  *)
(* may die.                                                                *)
(***************************************************************************)
EXTENDS Integers, FiniteSets

CONSTANTS
  Handlers,     \* requests that the server handles at a time
  Codes,        \* debug codes of devices
  NoCode,       \* a session that belongs to no device
  Limit,        \* experiences kept in the table, 1000 in the code
  PerClose,     \* experiences that one closing may add, 5 in the code
  MaxSessions,  \* bound: sessions that are ever opened
  MaxLessons,   \* bound: experiences that are ever written
  MaxCrashes    \* bound: restarts of the process

ASSUME HandlersAssumption == IsFiniteSet(Handlers)
ASSUME CodesAssumption == NoCode \notin Codes
ASSUME LimitsAssumption ==
  /\ Limit \in Nat /\ PerClose \in Nat
  /\ MaxSessions \in Nat /\ MaxLessons \in Nat /\ MaxCrashes \in Nat

VARIABLES
  created,     \* rows of the table of sessions, numbered in order of insertion
  status,      \* sessions.status, "none" for a number not given yet
  title,       \* sessions.title: the code in "global-<code>", or NoCode
  ended,       \* sessions with an ended_at
  spoken,      \* sessions with messages
  summarised,  \* sessions with a row in summaries (and keywords)
  made,        \* experiences written so far, numbered in order of created_at
  table,       \* those in the table experiences
  archive,     \* those in the archive file
  writes,      \* history: how often the memory of a session was written
  pc,          \* where each handler is
  sid,         \* the session it works on, 0 for none
  asked,       \* the code of a request that opens a session
  excess,      \* how many experiences an eviction has to take
  picked,      \* the ones it has chosen
  crashes      \* restarts so far

rows == <<created, status, title, ended>>
memory == <<summarised, made, table, archive, writes>>
local == <<sid, asked, excess, picked>>
vars == <<rows, spoken, memory, pc, local, crashes>>

SessionIds == 1..MaxSessions
Lessons == 1..MaxLessons
Active == {s \in SessionIds : status[s] = "active"}

\* Points at which a closing has written its memory and the session is not
\* marked yet, and those before.
Evicting == {"count", "select", "archive", "delete"}
Storing == Evicting \union {"end"}
Summing == {"load", "ask"}
Places == Storing \union Summing
          \union {"idle", "reuse", "replace", "inject", "post", "new", "agent", "say", "reply"}

\* A handler goes on, with what it knows.
Goto(h, p) == pc' = [pc EXCEPT ![h] = p] /\ UNCHANGED local

\* Or it returns, and what it knew is gone.
Return(h) ==
  /\ pc' = [pc EXCEPT ![h] = "idle"]
  /\ sid' = [sid EXCEPT ![h] = 0]
  /\ asked' = [asked EXCEPT ![h] = NoCode]
  /\ excess' = [excess EXCEPT ![h] = 0]
  /\ picked' = [picked EXCEPT ![h] = {}]

\* Or it goes on with session s.
GotoWith(h, p, s) ==
  /\ pc' = [pc EXCEPT ![h] = p]
  /\ sid' = [sid EXCEPT ![h] = s]
  /\ asked' = [asked EXCEPT ![h] = NoCode]
  /\ UNCHANGED <<excess, picked>>

\* There is room for a session beside those about to be inserted.
Room == created + Cardinality({h \in Handlers : pc[h] \in {"replace", "new"}}) < MaxSessions

-----------------------------------------------------------------------------
(* Opening a session *)

\* INSERT: the next row, active.  before is what else the transaction has
\* made of the statuses.
Insert(h, t, before) ==
  /\ created' = created + 1
  /\ title' = [title EXCEPT ![created + 1] = t]
  /\ status' = [before EXCEPT ![created + 1] = "active"]
  /\ UNCHANGED <<ended, spoken, memory, crashes>>

\* UPDATE: the active sessions in S are closed, with no summary and no
\* ended_at.
Closed(S) == [s \in SessionIds |-> IF s \in S \intersect Active THEN "closed" ELSE status[s]]

\* The active session of a device, if there is one; nothing is held until the
\* step that follows.
LookUp(h, c) ==
  /\ pc[h] = "idle" /\ Room
  /\ \/ \E s \in Active : title[s] = c /\ GotoWith(h, "reuse", s)
     \/ /\ \A s \in Active : title[s] # c
        /\ pc' = [pc EXCEPT ![h] = "replace"]
        /\ asked' = [asked EXCEPT ![h] = c]
        /\ UNCHANGED <<sid, excess, picked>>
  /\ UNCHANGED <<rows, spoken, memory, crashes>>

\* It is used again, and every other active session is closed.
Reuse(h) ==
  /\ pc[h] = "reuse"
  /\ status' = Closed(SessionIds \ {sid[h]})
  /\ Goto(h, "inject")
  /\ UNCHANGED <<created, title, ended, spoken, memory, crashes>>

\* MUTANT: the old sessions are closed only if one is used again.
ReplaceNone(h) ==
  /\ pc[h] = "replace"
  /\ Insert(h, asked[h], status)
  /\ GotoWith(h, "inject", created + 1)

\* Or every active session is closed and a new one inserted, in one
\* transaction.
Replace(h) ==
  /\ pc[h] = "replace"
  /\ Insert(h, asked[h], Closed(SessionIds))
  /\ GotoWith(h, "inject", created + 1)

\* A request without a code inserts a session and closes none.  Its title is
\* taken not to be that of a device.
Open(h) ==
  /\ pc[h] = "idle" /\ Room
  /\ Insert(h, NoCode, status)
  /\ GotoWith(h, "inject", created + 1)

\* The session closed last, if it has a memory to tell session s about; those
\* without an ended_at come last.
Previous(s) ==
  {t \in summarised \ {s} : /\ status[t] = "closed"
                            /\ t \in ended \/ ended \subseteq {s}}

\* What is remembered of it becomes the first message, unless nothing is found.
Inject(h) ==
  /\ pc[h] = "inject"
  /\ \/ Previous(sid[h]) # {} /\ spoken' = spoken \union {sid[h]}
     \/ UNCHANGED spoken
  /\ Return(h)
  /\ UNCHANGED <<rows, memory, crashes>>

-----------------------------------------------------------------------------
(* Messages *)

\* A session that is not there or closed takes no message.
CheckPost(h, s) ==
  /\ pc[h] = "idle" /\ status[s] = "active"
  /\ GotoWith(h, "post", s)
  /\ UNCHANGED <<rows, spoken, memory, crashes>>

\* A message is stored, whatever has become of the session meanwhile.
Speak(h) ==
  /\ spoken' = spoken \union {sid[h]}
  /\ UNCHANGED <<rows, memory, crashes>>

Post(h) == pc[h] = "post" /\ Speak(h) /\ Return(h)

\* The agent talks in the active session opened last.
PickLatest(h) ==
  /\ pc[h] = "idle"
  /\ \E s \in Active : (\A t \in Active : t <= s) /\ GotoWith(h, "agent", s)
  /\ UNCHANGED <<rows, spoken, memory, crashes>>

\* There is none: it will open one.
FindNone(h) ==
  /\ pc[h] = "idle" /\ Active = {} /\ Room
  /\ Goto(h, "new")
  /\ UNCHANGED <<rows, spoken, memory, crashes>>

OpenChat(h) ==
  /\ pc[h] = "new"
  /\ Insert(h, NoCode, status)
  /\ GotoWith(h, "agent", created + 1)

\* agent_run looks again: a session closed meanwhile is refused.
CheckAgent(h) ==
  /\ pc[h] = "agent"
  /\ IF status[sid[h]] = "closed" THEN Return(h) ELSE Goto(h, "say")
  /\ UNCHANGED <<rows, spoken, memory, crashes>>

\* The user's message, and after the model's turns the answer.
Say(h) == pc[h] = "say" /\ Speak(h) /\ Goto(h, "reply")
Reply(h) == pc[h] = "reply" /\ Speak(h) /\ Return(h)

-----------------------------------------------------------------------------
(* Closing a session *)

\* MUTANT: a closed session is closed again.
LookAgain(h, s) ==
  /\ pc[h] = "idle" /\ status[s] # "none"
  /\ GotoWith(h, "load", s)
  /\ UNCHANGED <<rows, spoken, memory, crashes>>

\* close_session looks at the status.  A closed session is answered from the
\* memory and nothing changes.
LookClose(h, s) ==
  /\ pc[h] = "idle" /\ status[s] # "none"
  /\ IF status[s] = "closed" THEN UNCHANGED <<pc, local>> ELSE GotoWith(h, "load", s)
  /\ UNCHANGED <<rows, spoken, memory, crashes>>

\* MUTANT: the session is marked closed before its memory is written.
LoadEnds(h) ==
  /\ pc[h] = "load"
  /\ IF sid[h] \in spoken
     THEN /\ status' = [status EXCEPT ![sid[h]] = "closed"]
          /\ ended' = ended \union {sid[h]}
          /\ Goto(h, "ask")
     ELSE Return(h) /\ UNCHANGED <<status, ended>>
  /\ UNCHANGED <<created, title, spoken, memory, crashes>>

\* A session without messages is not closed.
Load(h) ==
  /\ pc[h] = "load"
  /\ IF sid[h] \in spoken THEN Goto(h, "ask") ELSE Return(h)
  /\ UNCHANGED <<rows, spoken, memory, crashes>>

\* The model fails twice: the session stays as it is.
ModelFails(h) ==
  /\ pc[h] = "ask"
  /\ Return(h)
  /\ UNCHANGED <<rows, spoken, memory, crashes>>

\* The model has answered: summary and keywords replace what there was, the
\* experiences are added, in one transaction.
Write(h) ==
  /\ pc[h] = "ask"
  /\ \E n \in 0..PerClose :
       /\ made + n <= MaxLessons
       /\ made' = made + n
       /\ table' = table \union ((made + 1)..(made + n))
  /\ summarised' = summarised \union {sid[h]}
  /\ writes' = [writes EXCEPT ![sid[h]] = @ + 1]
  /\ Goto(h, "count")
  /\ UNCHANGED <<rows, spoken, archive, crashes>>

\* Eviction: the experiences above n are counted,
CountAbove(h, n, otherwise) ==
  /\ pc[h] = "count"
  /\ IF Cardinality(table) <= n
     THEN otherwise
     ELSE /\ pc' = [pc EXCEPT ![h] = "select"]
          /\ excess' = [excess EXCEPT ![h] = Cardinality(table) - n]
          /\ UNCHANGED <<sid, asked, picked>>
  /\ UNCHANGED <<rows, spoken, memory, crashes>>

\* MUTANT: when there is nothing to evict the closing returns.
CountReturns(h) == CountAbove(h, Limit, Return(h))

\* MUTANT: one experience too many is kept.
CountShort(h) == CountAbove(h, Limit + 1, Goto(h, "end"))

Count(h) == CountAbove(h, Limit, Goto(h, "end"))

\* so many of the oldest chosen,
Oldest(n) == {e \in table : Cardinality({d \in table : d < e}) < n}

Select(h) ==
  /\ pc[h] = "select"
  /\ pc' = [pc EXCEPT ![h] = IF Oldest(excess[h]) = {} THEN "end" ELSE "archive"]
  /\ picked' = [picked EXCEPT ![h] = Oldest(excess[h])]
  /\ excess' = [excess EXCEPT ![h] = 0]
  /\ UNCHANGED <<rows, spoken, memory, sid, asked, crashes>>

\* MUTANT: they are deleted before they are archived.
ArchiveLast(h) ==
  /\ pc[h] = "archive"
  /\ table' = table \ picked[h]
  /\ Goto(h, "delete")
  /\ UNCHANGED <<rows, spoken, summarised, made, archive, writes, crashes>>

\* appended to the archive,
Archive(h) ==
  /\ pc[h] = "archive"
  /\ archive' = archive \union picked[h]
  /\ Goto(h, "delete")
  /\ UNCHANGED <<rows, spoken, summarised, made, table, writes, crashes>>

\* and deleted, those that another eviction has not deleted.
Delete(h) ==
  /\ pc[h] = "delete"
  /\ table' = table \ picked[h]
  /\ pc' = [pc EXCEPT ![h] = "end"]
  /\ picked' = [picked EXCEPT ![h] = {}]
  /\ UNCHANGED <<rows, spoken, summarised, made, archive, writes, sid, asked, excess, crashes>>

\* The session is marked closed.
End(h) ==
  /\ pc[h] = "end"
  /\ status' = [status EXCEPT ![sid[h]] = "closed"]
  /\ ended' = ended \union {sid[h]}
  /\ Return(h)
  /\ UNCHANGED <<created, title, spoken, memory, crashes>>

-----------------------------------------------------------------------------
(* The process dies and starts again.  Of an append under way a part may   *)
(* have reached the file.                                                  *)
Crash ==
  /\ crashes < MaxCrashes
  /\ crashes' = crashes + 1
  /\ \E part \in SUBSET UNION {picked[h] : h \in {g \in Handlers : pc[g] = "archive"}} :
       archive' = archive \union part
  /\ pc' = [h \in Handlers |-> "idle"]
  /\ sid' = [h \in Handlers |-> 0]
  /\ asked' = [h \in Handlers |-> NoCode]
  /\ excess' = [h \in Handlers |-> 0]
  /\ picked' = [h \in Handlers |-> {}]
  /\ UNCHANGED <<rows, spoken, summarised, made, table, writes>>

Init ==
  /\ created = 0
  /\ status = [s \in SessionIds |-> "none"]
  /\ title = [s \in SessionIds |-> NoCode]
  /\ ended = {} /\ spoken = {} /\ summarised = {}
  /\ made = 0 /\ table = {} /\ archive = {}
  /\ writes = [s \in SessionIds |-> 0]
  /\ pc = [h \in Handlers |-> "idle"]
  /\ sid = [h \in Handlers |-> 0]
  /\ asked = [h \in Handlers |-> NoCode]
  /\ excess = [h \in Handlers |-> 0]
  /\ picked = [h \in Handlers |-> {}]
  /\ crashes = 0

Start(h) ==
  \/ Open(h) \/ PickLatest(h) \/ FindNone(h)
  \/ \E c \in Codes : LookUp(h, c)
  \/ \E s \in SessionIds : CheckPost(h, s) \/ LookClose(h, s)

Opening(h) == Reuse(h) \/ Replace(h) \/ Inject(h)
Talking(h) == Post(h) \/ OpenChat(h) \/ CheckAgent(h) \/ Say(h) \/ Reply(h)
Evict(h) == Count(h) \/ Select(h) \/ Archive(h) \/ Delete(h)
Closing(h) == Load(h) \/ ModelFails(h) \/ Write(h) \/ Evict(h) \/ End(h)

\* What a handler does after it has begun.
Go(h) == Opening(h) \/ Talking(h) \/ Closing(h)

Next == Crash \/ \E h \in Handlers : Start(h) \/ Go(h)

Spec == Init /\ [][Next]_vars

\* A handler that has begun goes on: a transaction waits for those of others,
\* which are short, and the model for 60 s at most, twice.
FairSpec == Spec /\ \A h \in Handlers : WF_vars(Go(h))

-----------------------------------------------------------------------------
(* Properties *)

TypeOK ==
  /\ created \in 0..MaxSessions
  /\ status \in [SessionIds -> {"none", "active", "closed"}]
  /\ \A s \in SessionIds : status[s] = "none" <=> s > created
  /\ title \in [SessionIds -> Codes \union {NoCode}]
  /\ ended \subseteq SessionIds /\ spoken \subseteq SessionIds
  /\ summarised \subseteq SessionIds
  /\ made \in 0..MaxLessons /\ table \subseteq 1..made /\ archive \subseteq 1..made
  /\ writes \in [SessionIds -> Nat]
  /\ pc \in [Handlers -> Places]
  /\ sid \in [Handlers -> 0..created]
  /\ \A h \in Handlers : sid[h] = 0 <=> pc[h] \in {"idle", "replace", "new"}
  /\ asked \in [Handlers -> Codes \union {NoCode}]
  /\ excess \in [Handlers -> Nat]
  /\ picked \in [Handlers -> SUBSET (1..made)]
  /\ crashes \in 0..MaxCrashes

\* What a device is promised, a session it alone has and comes back to: however
\* requests of several devices, of the agent and of closings interleave, no
\* device has two active sessions.
OneActivePerCode ==
  \A s, t \in Active : title[s] = title[t] /\ title[s] # NoCode => s = t

\* A session that was ended by closing it has its memory, even if the process
\* dies in the middle and whoever closes it at the same time.
EndedIsRemembered ==
  \A s \in ended : s \in summarised /\ status[s] = "closed"

\* Closing is not idempotent while it goes on, nor across a crash; but the
\* memory of a session is written once by each handler at most, and again only
\* after a crash.
WritesBounded ==
  \A s \in SessionIds : writes[s] <= Cardinality(Handlers) * (crashes + 1)

\* An experience that was written is in the table or in the archive, although
\* evictions overlap and may be cut off between any two of their steps.
NothingLost == 1..made = table \union archive

\* When no eviction is under way the table is within its limit, but for what
\* crashes have left behind.
TableBounded ==
  (\A h \in Handlers : pc[h] \notin Evicting)
    => Cardinality(table) <= Limit + PerClose * Cardinality(Handlers) * crashes

\* A closing that has written its memory closes the session, unless the
\* process dies.
StoringCloses ==
  \A s \in SessionIds, n \in 0..MaxCrashes :
    (crashes = n /\ \E h \in Handlers : pc[h] \in Storing /\ sid[h] = s)
      ~> (crashes > n \/ status[s] = "closed")

\* What memory_legacy.py:163 says of an eviction, "Archive oldest experiences
\* when count > 1000": the newest Limit experiences stay.
EvictsOnlyExcess ==
  [][table \ table' # {} => Cardinality(table') >= Limit]_vars
=============================================================================
