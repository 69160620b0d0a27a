----------------------------- MODULE LegacyPool -----------------------------
(***************************************************************************)
(* The keys the control panel asks its own model with: the pool of keys    *)
(* that users' devices and MiClaw instances contribute                     *)
(* (token_pool_legacy.py), the client that is made for each request        *)
(* (llm.py) and what asks through it (scheduler/scheduler.py, pipeline).   *)
(*                                                                         *)
(* A client is made in the thread of its request; nothing locks the pool   *)
(* or its file.  Nothing reports a failed request back to the pool.        *)
(***************************************************************************)
EXTENDS Naturals, Sequences, Functions

CONSTANTS LlmThreads, \* requests being handled
          Instances,  \* codes of the MiClaw instances, in the order of their file
          Donors,     \* codes of the users' devices, in the order of their directory
          Envs,       \* what the environment gives: [base, key], "" where it is silent
          MaxAsked    \* bound on requests

VARIABLES env,    \* MBCLAW_LLM_BASE_URL and MBCLAW_LLM_API_KEY
          given,  \* codes whose file holds a key: heartbeats with one, instances logged in
          cache,  \* token_pool.json: code -> [status, used]
          pools,  \* the TokenPool objects of this process: code -> [status, used]
          single, \* _pool: the number of the shared one, 0 before the first get_pool
          ask,    \* what each thread is doing
          asked,  \* requests so far
          passed, \* codes that a test has answered
          dead,   \* codes whose test failed and whose key has been there since
          apart   \* no two requests have been in the pool at once

legacyVars == <<env, given, cache, pools, single, ask, asked, passed, dead, apart>>

None == ""
NoCache == <<>>  \* what _load takes from a file that is missing, empty or torn
Idle == [at |-> "idle", kind |-> "none", obj |-> 0, code |-> None, doc |-> NoCache, then |-> "idle", tries |-> 0]

Codes == Range(Instances) \cup Range(Donors)
LegacyInit == /\ env \in Envs /\ given \in {{}, Codes}
              /\ cache = NoCache /\ pools = <<>> /\ single = 0
              /\ ask = [t \in LlmThreads |-> Idle]
              /\ asked = 0 /\ passed = {} /\ dead = {} /\ apart = TRUE

At(t, where) == ask[t].at = where
Goes(t, r) == ask' = [ask EXCEPT ![t] = r]

-----------------------------------------------------------------------------
(* The pool object.                                                        *)

\* _load: an instance needs no test.  What the file says of a code goes before that, also when
\* the code's key is another one now.
Fresh(c) == [status |-> IF c \in Range(Instances) THEN "working" ELSE "unknown", used |-> 0]
Loaded == [c \in given |-> IF c \in DOMAIN cache THEN cache[c] ELSE Fresh(c)]

Keys(t) == pools[ask[t].obj]
With(t, status) == {c \in DOMAIN Keys(t) : Keys(t)[c].status = status}
SetKey(t, key) == pools' = [pools EXCEPT ![ask[t].obj][ask[t].code] = key]

\* The first of some codes in the order of the list: instances, then devices.
Place(c) == CHOOSE i \in DOMAIN (Instances \o Donors) : (Instances \o Donors)[i] = c
First(S) == CHOOSE c \in S : \A d \in S : Place(c) <= Place(d)
LeastUsed(t, S) == First({c \in S : \A d \in S : Keys(t)[c].used <= Keys(t)[d].used})
\* Which of the working keys pick takes: an instance if there is one.
Choice(t) == LET own == With(t, "working") \cap Range(Instances)
             IN LeastUsed(t, IF own # {} THEN own ELSE With(t, "working"))

\* get_pool: look, make one, return what is stored.
GetPool(t) == /\ At(t, "pool")
              /\ Goes(t, [ask[t] EXCEPT !.at = IF single = 0 THEN "make" ELSE "pick", !.obj = single])
              /\ UNCHANGED <<env, given, cache, pools, single, asked, passed, dead, apart>>
MakePool(t) == /\ At(t, "make")
               /\ pools' = Append(pools, Loaded) /\ single' = Len(pools) + 1
               /\ Goes(t, [ask[t] EXCEPT !.at = "fetch"])
               /\ UNCHANGED <<env, given, cache, asked, passed, dead, apart>>
FetchPool(t) == /\ At(t, "fetch")
                /\ Goes(t, [ask[t] EXCEPT !.at = "pick", !.obj = single])
                /\ UNCHANGED <<env, given, cache, pools, single, asked, passed, dead, apart>>

\* pick: a working key, or the first untested one if it passes its test, or none.
Pick(t) == /\ At(t, "pick")
           /\ Goes(t, IF With(t, "working") # {} THEN [ask[t] EXCEPT !.at = "count", !.code = Choice(t)]
                      ELSE IF With(t, "unknown") # {} THEN [ask[t] EXCEPT !.at = "test", !.code = First(With(t, "unknown"))]
                      ELSE [ask[t] EXCEPT !.at = "send"])
           /\ UNCHANGED <<env, given, cache, pools, single, asked, passed, dead, apart>>
\* MUTANT: only a test that passed is written down.
TestKeyQuietly(t, ok) ==
  /\ At(t, "test")
  /\ SetKey(t, [Keys(t)[ask[t].code] EXCEPT !.status = IF ok THEN "working" ELSE "failed"])
  /\ passed' = IF ok THEN passed \cup {ask[t].code} ELSE passed
  /\ dead'   = IF ok THEN dead ELSE dead \cup ({ask[t].code} \cap given)
  /\ Goes(t, IF ok THEN [ask[t] EXCEPT !.at = "save", !.then = "count"]
             ELSE [ask[t] EXCEPT !.at = "send", !.code = None])
  /\ UNCHANGED <<env, given, cache, single, asked, apart>>
\* test_key: a request of up to 15 s; its answer becomes the status and is saved.
TestKey(t, ok) == /\ At(t, "test")
                  /\ SetKey(t, [Keys(t)[ask[t].code] EXCEPT !.status = IF ok THEN "working" ELSE "failed"])
                  /\ passed' = IF ok THEN passed \cup {ask[t].code} ELSE passed
                  /\ dead'   = IF ok THEN dead ELSE dead \cup ({ask[t].code} \cap given)
                  /\ Goes(t, [ask[t] EXCEPT !.at = "save", !.then = IF ok THEN "count" ELSE "send"])
                  /\ UNCHANGED <<env, given, cache, single, asked, apart>>
Count(t) == /\ At(t, "count")
            /\ SetKey(t, [Keys(t)[ask[t].code] EXCEPT !.used = @ + 1])
            /\ Goes(t, [ask[t] EXCEPT !.at = "save", !.then = "send"])
            /\ UNCHANGED <<env, given, cache, single, asked, passed, dead, apart>>

\* _save: the file is emptied, then written; one that two requests write at once may be torn.
EmptyCache(t) == /\ At(t, "save")
                 /\ cache' = NoCache /\ Goes(t, [ask[t] EXCEPT !.at = "emptied", !.doc = Keys(t)])
                 /\ UNCHANGED <<env, given, pools, single, asked, passed, dead, apart>>
Saved(t) == LET r == ask[t]
                failed == r.then = "send" /\ r.doc[r.code].status = "failed"
            IN [r EXCEPT !.at = r.then, !.doc = NoCache, !.then = "idle", !.code = IF failed THEN None ELSE @]
WriteCache(t) == /\ ask[t].at \in {"emptied", "overtaken"}
                 /\ \/ cache' = ask[t].doc
                    \/ At(t, "overtaken") /\ cache' = NoCache
                 /\ ask' = [u \in LlmThreads |-> IF u = t THEN Saved(t)
                                                 ELSE IF ask[u].at = "emptied" THEN [ask[u] EXCEPT !.at = "overtaken"]
                                                 ELSE ask[u]]
                 /\ UNCHANGED <<env, given, pools, single, asked, passed, dead, apart>>

-----------------------------------------------------------------------------
(* The client of a request.                                                *)

\* LLMClient(): the environment; the pool for the endpoint and the key together when either
\* is missing; the default endpoint at last.
NeedsPool == env.base = "" \/ env.key = ""
Begin(t, kind) ==
  /\ At(t, "idle") /\ asked < MaxAsked /\ asked' = asked + 1
  /\ Goes(t, [Idle EXCEPT !.at = IF NeedsPool THEN "pool" ELSE "send", !.kind = kind])
  /\ apart' = (apart /\ \A u \in LlmThreads \ {t} : At(u, "idle"))
  /\ UNCHANGED <<env, given, cache, pools, single, passed, dead>>
Client(t) == LET code == ask[t].code
             IN IF code # None THEN [base |-> code, key |-> code]
                ELSE [base |-> IF env.base = "" THEN "openai" ELSE env.base, key |-> env.key]

\* The request: dispatch asks once, whatever the answer; summarize_session refuses without a
\* key and asks a second time, with the same client, when the first attempt fails.
Send(t) == /\ At(t, "send")
           /\ \/ Goes(t, Idle)
              \/ /\ ask[t].kind = "summary" /\ ask[t].tries = 0 /\ Client(t).key # ""
                 /\ Goes(t, [ask[t] EXCEPT !.tries = 1])
           /\ UNCHANGED <<env, given, cache, pools, single, asked, passed, dead, apart>>

-----------------------------------------------------------------------------
(* What changes besides.                                                   *)

\* A heartbeat with a key, an instance that logs in; neither reaches a pool already made.
Contribute(c) == /\ c \notin given /\ given' = given \cup {c}
                 /\ UNCHANGED <<env, cache, pools, single, ask, asked, passed, dead, apart>>
Withdraw(c) == /\ c \in given /\ given' = given \ {c} /\ dead' = dead \ {c}
               /\ UNCHANGED <<env, cache, pools, single, ask, asked, passed, apart>>
\* A restart forgets what was not written, the whole file if it comes within a _save.
RestartPanel == /\ single # 0 /\ pools' = <<>> /\ single' = 0
                /\ ask' = [t \in LlmThreads |-> Idle] /\ apart' = TRUE
                /\ dead' = IF apart /\ \A t \in LlmThreads : At(t, "idle") \/ At(t, "send") THEN dead ELSE {}
                /\ UNCHANGED <<env, given, cache, asked, passed>>

LegacyNext == \/ \E t \in LlmThreads :
                   \/ \E kind \in {"dispatch", "summary"} : Begin(t, kind)
                   \/ GetPool(t) \/ MakePool(t) \/ FetchPool(t) \/ Pick(t)
                   \/ \E ok \in BOOLEAN : TestKey(t, ok)
                   \/ Count(t) \/ EmptyCache(t) \/ WriteCache(t) \/ Send(t)
              \/ \E c \in Codes : Contribute(c) \/ Withdraw(c)
              \/ RestartPanel

-----------------------------------------------------------------------------
\* A user's key is sent out only after it has answered a test, and, as long as requests follow
\* one another, never again once its test has failed: neither a restart nor other keys that
\* come and go bring it back, only its own withdrawal or a restart amid a request does.
TestedFirst == \A t \in LlmThreads : At(t, "send") /\ ask[t].code \in Range(Donors) =>
                 ask[t].code \in passed /\ (apart => ask[t].code \notin dead)
\* No key is sent to an endpoint it does not belong to: the environment's and the pool's are
\* never mixed, whatever of them is missing.
KeyAtHome == \A t \in LlmThreads : At(t, "send") /\ Client(t).key # "" =>
               Client(t).base = IF Client(t).key = "env" /\ env.base = "" THEN "openai" ELSE Client(t).key

\* Both hold whatever order the devices, the requests and the restarts come in.
KeysSentRightly == TestedFirst /\ KeyAtHome
=============================================================================
