----------------------------- MODULE PanelStore -----------------------------
(***************************************************************************)
(* The JSON documents of the control panel (admin/router.py, extra.py and  *)
(* admin_api.py).                                                          *)
(* Every handler reads a whole document, edits its copy and writes the     *)
(* whole copy back; the handlers are plain functions, so they run in       *)
(* threads, and nothing locks a document.  Calls are counted by a          *)
(* middleware (main.py), which runs in the event loop.  The documents are  *)
(* separate files and no edit looks at two of them, so kind, chosen at the *)
(* start, says which of them the behaviour is about.                       *)
(*                                                                         *)
(* _save is write_text: the file is emptied and then written.  A handler   *)
(* that reads an empty file gets the default, and so do all later ones     *)
(* when two writes overlapped and the shorter left the other's tail.       *)
(***************************************************************************)
EXTENDS Naturals, Sequences, FiniteSets

CONSTANTS StoreThreads, \* requests being handled
          Clients,      \* client addresses, or names of users, providers, tools, plugins
          MaxRequests   \* bound on the requests of a behaviour

VARIABLES kind,    \* the document, one of Kinds
          file,    \* what a handler reads from it
          past,    \* entries older than their window (20 minutes, 7 days)
          count,   \* requests so far; the next one's number names what it creates
          req,     \* what each thread is doing: [at, doc]
          tracked  \* requests counted in the statistics since they were last lost

storeVars == <<kind, file, past, count, req, tracked>>

Kinds == {"board", "sessions", "users", "keys", "notices", "stats", "tools", "accounts", "plugins",
          "downloads", "reports"}
Loop == "loop"  \* the thread of the event loop
Handlers == StoreThreads \cup {Loop}
NoDoc == <<>>  \* the default of every _load, also when the file is empty or torn
Ready == [at |-> "idle", doc |-> NoDoc]

\* The list of plugins comes with the installation, the other documents with their first write.
StoreInit == /\ kind \in Kinds /\ past = {} /\ count = 0 /\ tracked = 0
             /\ file = IF kind = "plugins" THEN [p \in Clients |-> 0] ELSE NoDoc
             /\ req = [t \in Handlers |-> Ready]

-----------------------------------------------------------------------------
(* The edits.  Each gives the set of documents a handler may save, empty   *)
(* when it refuses or has nothing to save.                                 *)

New == count + 1
Put(doc, k, v) == {[j \in DOMAIN doc \cup {k} |-> IF j = k THEN v ELSE doc[j]]}
Drop(doc, k) == [j \in DOMAIN doc \ {k} |-> doc[j]]
IfThere(doc, k, docs) == IF k \in DOMAIN doc THEN docs ELSE {}

\* Suggestions (bugs and features).
\* MUTANT: a resolved suggestion is not counted.
SubmittedOpen(doc, ip) == \E i \in DOMAIN doc : doc[i].ip = ip /\ i \notin past /\ doc[i].status = "open"
Submitted(doc, ip) == \E i \in DOMAIN doc : doc[i].ip = ip /\ i \notin past
Create(doc, ip) == IF Submitted(doc, ip) THEN {}
                   ELSE Put(doc, New, [ip |-> ip, votes |-> 0, voters |-> <<>>, pinned |-> FALSE, status |-> "open"])
HasVoted(item, ip) == \E n \in 1..Len(item.voters) : item.voters[n] = ip
Vote(doc, i, ip) == IfThere(doc, i, IF HasVoted(doc[i], ip) THEN {}
                      ELSE {[doc EXCEPT ![i].votes = @ + 1, ![i].voters = Append(@, ip)]})
Pin(doc, i) == IfThere(doc, i, {[doc EXCEPT ![i].pinned = ~@]})
Resolve(doc, i) == IfThere(doc, i, {[doc EXCEPT ![i].status = IF @ = "resolved" THEN "open" ELSE "resolved"]})
SetVotes(doc, i) == IfThere(doc, i, {[doc EXCEPT ![i].votes = n] : n \in {0, 9}})
Remove(doc, i) == {Drop(doc, i)}
BoardEdits(doc) == UNION ({Create(doc, ip) : ip \in Clients}
                          \cup {Vote(doc, i, ip) : i \in 1..count, ip \in Clients}
                          \cup {Pin(doc, i) \cup Resolve(doc, i) \cup SetVotes(doc, i) \cup Remove(doc, i) : i \in 1..count})

\* The administrator's sessions: login, a check that finds one expired, logout.
LoginSession(doc) == Put(doc, New, "live")
CheckSession(doc, s) == IfThere(doc, s, IF s \in past THEN {Drop(doc, s)} ELSE {})
Logout(doc, s) == IfThere(doc, s, {Drop(doc, s)})
SessionEdits(doc) == LoginSession(doc) \cup UNION {CheckSession(doc, s) \cup Logout(doc, s) : s \in 1..count}

\* Users: each call is counted, the administrator blocks those there are.
RecordCall(doc, u) == IF u \in DOMAIN doc THEN {[doc EXCEPT ![u].calls = @ + 1]}
                      ELSE Put(doc, u, [calls |-> 1, blocked |-> FALSE])
Block(doc, u) == IfThere(doc, u, {[doc EXCEPT ![u].blocked = b] : b \in BOOLEAN})
UserEdits(t, doc) == UNION {IF t = Loop THEN RecordCall(doc, u) ELSE Block(doc, u) : u \in Clients}

\* Statistics: each answered call, by provider and by day; this may be the first of its day.
Stats(doc) == IF DOMAIN doc = {} THEN [total |-> 0, errors |-> 0, daily |-> <<>>, providers |-> NoDoc] ELSE doc
Days(daily) == {Append(daily, 1)} \cup {[daily EXCEPT ![d] = @ + 1] : d \in {Len(daily)} \ {0}}
RecordRequest(doc, p, error) ==
  LET s == Stats(doc)
  IN {[total |-> s.total + 1, errors |-> s.errors + (IF error THEN 1 ELSE 0), daily |-> d,
       providers |-> [q \in DOMAIN s.providers \cup {p} |->
                        (IF q \in DOMAIN s.providers THEN s.providers[q] ELSE 0) + (IF q = p THEN 1 ELSE 0)]]
      : d \in Days(s.daily)}
StatsEdits(t, doc) == IF t = Loop THEN UNION {RecordRequest(doc, p, e) : p \in Clients, e \in BOOLEAN} ELSE {}

\* Provider keys: the new default takes the mark from the others.
SetKey(doc, p, on, default) ==
  Put([q \in DOMAIN doc |-> IF default THEN [doc[q] EXCEPT !.default = FALSE] ELSE doc[q]],
      p, [enabled |-> on, default |-> default])
DeleteKey(doc, p) == {Drop(doc, p)}
KeyEdits(doc) == UNION ({SetKey(doc, p, on, d) : p \in Clients, on \in BOOLEAN, d \in BOOLEAN}
                        \cup {DeleteKey(doc, p) : p \in Clients})
\* client_default: the enabled default, else any enabled one.
Served(doc) == LET on == {p \in DOMAIN doc : doc[p].enabled}
                   first == {p \in on : doc[p].default}
               IN IF first # {} THEN first ELSE on

\* Notices: created, archived, never deleted.
CreateNotice(doc) == Put(doc, New, "open")
Archive(doc, i) == {[j \in DOMAIN doc |-> IF j = i THEN "archived" ELSE doc[j]]}
NoticeEdits(doc) == CreateNotice(doc) \cup UNION {Archive(doc, i) : i \in 1..count}

\* The markets (extra.py).  The list of tools is kept here by the number of their upload,
\* which is its order: a tool uploaded again moves to the end.  An install is counted in the
\* list of plugins (of a plugin not in it, the list is only written again), unless the list
\* cannot be read, which the handler passes over.
UploadTool(doc, n) == Put([u \in {v \in DOMAIN doc : doc[v] # n} |-> doc[u]], New, n)
ToolEdits(doc) == UNION {UploadTool(doc, n) : n \in Clients}
AccountEdits(doc) == UNION {Put(doc, k, New) : k \in Clients}
PluginEdits(doc) == IF DOMAIN doc = {} THEN {}
                    ELSE {doc} \cup {[doc EXCEPT ![p] = @ + 1] : p \in DOMAIN doc}

\* Downloads of a file, in all and since the last reset; what a device reported last.
TrackDownload(doc, f) == LET d == IF f \in DOMAIN doc THEN doc[f] ELSE [total |-> 0, today |-> 0]
                         IN Put(doc, f, [total |-> d.total + 1, today |-> d.today + 1])
ResetDaily(doc) == {[f \in DOMAIN doc |-> [doc[f] EXCEPT !.today = 0]]}
DownloadEdits(doc) == ResetDaily(doc) \cup UNION {TrackDownload(doc, f) : f \in Clients}
ReceiveReport(doc) == UNION {Put(doc, device, New) : device \in Clients}

ThreadEdits(doc) == CASE kind = "board" -> BoardEdits(doc) [] kind = "sessions" -> SessionEdits(doc)
                      [] kind = "keys" -> KeyEdits(doc)    [] kind = "notices" -> NoticeEdits(doc)
                      [] kind = "tools" -> ToolEdits(doc)  [] kind = "accounts" -> AccountEdits(doc)
                      [] kind = "plugins" -> PluginEdits(doc) [] kind = "reports" -> ReceiveReport(doc)
                      [] kind = "downloads" -> DownloadEdits(doc)
Edits(t, doc) == CASE kind = "users" -> UserEdits(t, doc)
                   [] kind = "stats" -> StatsEdits(t, doc)
                   [] OTHER -> IF t = Loop THEN {} ELSE ThreadEdits(doc)

-----------------------------------------------------------------------------
(* The steps of a handler: read and edit, empty the file, write.           *)

Read(t) == /\ req[t] = Ready /\ count < MaxRequests
           /\ \E doc \in Edits(t, file) : req' = [req EXCEPT ![t] = [at |-> "edited", doc |-> doc]]
           /\ count' = count + 1
           /\ UNCHANGED <<kind, file, past, tracked>>

Empty(t) == /\ req[t].at = "edited"
            /\ file' = NoDoc /\ req' = [req EXCEPT ![t].at = "emptied"]
            /\ UNCHANGED <<kind, past, count, tracked>>

\* Whoever emptied the file before this write will write over it.
Write(t) == /\ req[t].at \in {"emptied", "overtaken"}
            /\ \/ file' = req[t].doc
               \/ req[t].at = "overtaken" /\ file' = NoDoc
            /\ tracked' = IF kind = "stats" THEN tracked + 1 ELSE 0
            /\ req' = [u \in Handlers |-> IF u = t THEN Ready
                                          ELSE IF req[u].at = "emptied" THEN [req[u] EXCEPT !.at = "overtaken"]
                                          ELSE req[u]]
            /\ UNCHANGED <<kind, past, count>>

Age == \E i \in 1..count : /\ i \notin past /\ past' = past \cup {i}
                           /\ UNCHANGED <<kind, file, count, req, tracked>>

\* A restart of the panel: what was not written is gone, a document just emptied altogether.
RestartStore == /\ \E t \in Handlers : req[t] # Ready
                /\ req' = [t \in Handlers |-> Ready]
                /\ tracked' = IF req[Loop].at = "emptied" THEN 0 ELSE tracked
                /\ UNCHANGED <<kind, file, past, count>>

StoreNext == Age \/ RestartStore \/ \E t \in Handlers : Read(t) \/ Empty(t) \/ Write(t)
StoreSpec == StoreInit /\ [][StoreNext]_storeVars

-----------------------------------------------------------------------------
\* The requests that the counts in f stand for, and how many they are.
Counted(f) == UNION {{k} \X (1..f[k]) : k \in DOMAIN f}
SumOf(f) == Cardinality(Counted(f))

\* What survives every interleaving of whole-document writes, torn reads included: nobody
\* votes twice for a suggestion; the suggestions of one address are 20 minutes apart; at most
\* one key is the default, and clients are served it whenever it is enabled; no tool is
\* listed twice; the counts of the days and those of the providers add up to all requests, and
\* none is missing from the statistics, as only the loop writes them, but for those that a
\* restart in the middle of a write took away.
Sound(doc) ==
  /\ kind = "board" => \A i \in DOMAIN doc :
       /\ \A m, n \in 1..Len(doc[i].voters) : doc[i].voters[m] = doc[i].voters[n] => m = n
       /\ \A j \in DOMAIN doc \ {i} : doc[i].ip = doc[j].ip => i \in past \/ j \in past
  /\ kind = "keys" => \A p \in DOMAIN doc : doc[p].default =>
       /\ \A q \in DOMAIN doc \ {p} : ~doc[q].default
       /\ doc[p].enabled => Served(doc) = {p}
  /\ kind = "tools" => \A u, v \in DOMAIN doc : doc[u] = doc[v] => u = v
  /\ kind = "downloads" => \A f \in DOMAIN doc : doc[f].today <= doc[f].total
  /\ kind = "plugins" => DOMAIN doc \in {{}, Clients}
  /\ kind = "stats" => LET s == Stats(doc) IN SumOf(s.daily) = s.total /\ SumOf(s.providers) = s.total
  /\ kind = "stats" /\ req[Loop].at # "emptied" => Stats(doc).total = tracked /\ Stats(doc).errors <= tracked
DocumentSound == Sound(file)
=============================================================================
