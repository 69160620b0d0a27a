------------------------------- MODULE Miclaw -------------------------------
(***************************************************************************)
(* The MiClaw accounts of the token pool: pool/miclaw_pool.py, the         *)
(* two-step form of routes/miclaw_login.py, the administrator's routes of  *)
(* routes/user_stats.py and the rows of pool/registry.py.                  *)
(*                                                                         *)
(* The administrator's routes are plain functions, so each runs in a       *)
(* thread; the form's two routes are coroutines; the health loop is a      *)
(* coroutine that blocks while it works, so no form moves meanwhile.  A    *)
(* request to the bridge is one step, at which the bridge acts, and the    *)
(* update of the row after its answer is another.  The bridge is external: *)
(* no request but a login names an account, so it has ONE session.         *)
(***************************************************************************)
EXTENDS Naturals, Sequences

CONSTANTS ClawUsers,   \* user names
          ClawThreads, \* the administrator's requests
          ClawForms,   \* requests of the two-step form
          MaxRows, MaxIssued, MaxSids, \* bounds: rows, bridge and form sessions,
          MaxBoots, MaxOps \* restarts, administrator's operations

VARIABLES rows,   \* miclaw_accounts: [user, readable, cookie, status] in insertion order
          bridge, \* [as, issued, challenge, mode]
          forms,  \* _sessions: the user of each session id waiting for its code
          sids,   \* session ids the bridge has handed out
          work,   \* what each thread and the health loop are doing
          form,   \* what each request of the form is doing
          spent   \* the restarts and the administrator's operations so far

clawVars == <<rows, bridge, forms, sids, work, form, spent>>

NoUser == "nobody"
Loop == "loop"
Workers == ClawThreads \cup {Loop}
Keep == MaxIssued + 1 \* an update that does not name the cookie
Idle == [op |-> "none", todo |-> <<>>, at |-> "idle", write |-> <<>>]
FormIdle == [at |-> "idle", user |-> NoUser]
LoggedIn(r) == r.status = "logged_in"

ClawInit == /\ rows = <<>> /\ forms = <<>> /\ sids = 0 /\ spent = [boots |-> 0, ops |-> 0]
            /\ bridge = [as |-> 0, issued |-> <<>>, challenge |-> NoUser, mode |-> "up"]
            /\ work = [w \in Workers |-> Idle]
            /\ form = [f \in ClawForms |-> FormIdle]

-----------------------------------------------------------------------------
(* The bridge.  A session is its number; issued remembers whose it is.     *)

Up == bridge.mode = "up"
Issue(user) == [bridge EXCEPT !.as = Len(bridge.issued) + 1, !.challenge = NoUser,
                              !.issued = Append(@, user)]
NewSession == Len(bridge.issued) + 1
CanIssue == Up /\ Len(bridge.issued) < MaxIssued

\* The bridge forgets its session, stops logging anybody in, or recovers.
BridgeStep == /\ \/ bridge.as # 0 /\ bridge' = [bridge EXCEPT !.as = 0]
                 \/ Up /\ bridge' = [bridge EXCEPT !.as = 0, !.mode = "refusing"]
                 \/ ~Up /\ bridge' = [bridge EXCEPT !.mode = "up"]
              /\ UNCHANGED <<rows, forms, sids, work, form, spent>>

-----------------------------------------------------------------------------
(* The administrator's routes and the health loop.  todo is the list of    *)
(* accounts an operation read at its start; write is the update its last   *)
(* answer calls for, <<>> when there is none.                              *)

First(op) == CASE op \in {"login", "login_all"} -> "login"
               [] op \in {"health", "probe_all", "loop"} -> "check"
               [] OTHER -> op   \* verify, logout, models
Listed(op) == LET all == [i \in 1..Len(rows) |-> i]
              IN SelectSeq(all, LAMBDA i : IF op = "login_all" THEN ~LoggedIn(rows[i]) /\ rows[i].readable
                                                               ELSE LoggedIn(rows[i]))
Begin(w, op, todo) == /\ work[w] = Idle /\ todo # <<>>
                      /\ work' = [work EXCEPT ![w] = [op |-> op, todo |-> todo, at |-> First(op), write |-> <<>>]]
                      /\ UNCHANGED <<rows, bridge, forms, sids, form>>
Asked == spent.ops < MaxOps /\ spent' = [spent EXCEPT !.ops = @ + 1]

OneAccount(w) == \E i \in 1..Len(rows), op \in {"login", "verify", "health", "logout", "models"} :
                   /\ op = "login" => rows[i].readable
                   /\ Begin(w, op, <<i>>) /\ Asked
AllAccounts(w) == \E op \in {"login_all", "probe_all"} : Begin(w, op, Listed(op)) /\ Asked
LoopBegins == Begin(Loop, "loop", Listed("loop")) /\ UNCHANGED spent

Account(w) == Head(work[w].todo)
Row(w) == rows[Account(w)]
NextAccount(w) == IF Len(work[w].todo) = 1 THEN Idle
                  ELSE [work[w] EXCEPT !.todo = Tail(@), !.at = First(work[w].op), !.write = <<>>]
Writes(w, status, cookie) == [work[w] EXCEPT !.at = "store", !.write = <<status, cookie>>]
Keeps(w, status) == Writes(w, status, Keep)
Becomes(w, next) == work' = [work EXCEPT ![w] = next]

\* login_account: what the bridge answers to the account's name and password.
AskLogin(w) ==
  /\ work[w].at = "login"
  /\ \/ CanIssue /\ bridge' = Issue(Row(w).user) /\ Becomes(w, Writes(w, "logged_in", NewSession))
     \/ Up /\ bridge' = [bridge EXCEPT !.challenge = Row(w).user] /\ Becomes(w, Keeps(w, "pending_2fa"))
     \/ Becomes(w, Keeps(w, "failed")) /\ UNCHANGED bridge              \* an HTTP error
     \/ Up /\ Becomes(w, NextAccount(w)) /\ UNCHANGED bridge            \* captcha, unknown, exception
  /\ UNCHANGED <<rows, forms, sids, form, spent>>

\* MUTANT: the loop gives up on a row without trying the login.
UnhealthyLeft(w) == IF work[w].op = "probe_all" THEN Keeps(w, "failed") ELSE NextAccount(w)

\* What an unhealthy answer leads to: nothing, a failed row, or a login.
Unhealthy(w) == CASE work[w].op = "probe_all" -> Keeps(w, "failed")
                  [] work[w].op = "loop" /\ Row(w).readable -> [work[w] EXCEPT !.at = "login"]
                  [] OTHER -> NextAccount(w)

\* check_account_health asks for the status of the bridge's session ...
AskStatus(w) == /\ work[w].at = "check"
                /\ \/ bridge.as # 0 /\ Becomes(w, [work[w] EXCEPT !.at = "refresh"])
                   \/ Becomes(w, Unhealthy(w))
                /\ UNCHANGED <<rows, bridge, forms, sids, form, spent>>

\* ... and refreshes that session into the row of the account it was asked about.
AskRefresh(w) ==
  /\ work[w].at = "refresh"
  /\ \/ /\ CanIssue /\ bridge.as # 0
        /\ bridge' = Issue(bridge.issued[bridge.as]) /\ Becomes(w, Writes(w, "logged_in", NewSession))
     \/ Becomes(w, NextAccount(w)) /\ UNCHANGED bridge
     \/ Becomes(w, Unhealthy(w)) /\ UNCHANGED bridge
  /\ UNCHANGED <<rows, forms, sids, form, spent>>

\* verify_2fa names no account either: it answers the bridge's last challenge.
AskVerify(w) ==
  /\ work[w].at = "verify"
  /\ \/ /\ CanIssue /\ bridge.challenge # NoUser
        /\ bridge' = Issue(bridge.challenge) /\ Becomes(w, Writes(w, "logged_in", NewSession))
     \/ Becomes(w, Idle) /\ UNCHANGED bridge
  /\ UNCHANGED <<rows, forms, sids, form, spent>>

\* logout_account empties the row whatever the bridge answers, unless the call raises.
AskLogout(w) == /\ work[w].at = "logout"
                /\ \/ bridge' = [bridge EXCEPT !.as = 0] /\ Becomes(w, Writes(w, "pending", 0))
                   \/ Becomes(w, Writes(w, "pending", 0)) /\ UNCHANGED bridge
                   \/ Becomes(w, Idle) /\ UNCHANGED bridge
                /\ UNCHANGED <<rows, forms, sids, form, spent>>

\* probe_miclaw: any account is logged in once the bridge lists its models.
AskModels(w) == /\ work[w].at = "models"
                /\ \/ Up /\ Becomes(w, Keeps(w, "logged_in"))
                   \/ Becomes(w, Idle)
                /\ UNCHANGED <<rows, bridge, forms, sids, form, spent>>

Store(w) == /\ work[w].at = "store"
            /\ rows' = [rows EXCEPT ![Account(w)].status = work[w].write[1],
                              ![Account(w)].cookie = IF work[w].write[2] = Keep THEN @ ELSE work[w].write[2]]
            /\ Becomes(w, NextAccount(w))
            /\ UNCHANGED <<bridge, forms, sids, form, spent>>

WorkStep(w) == \/ AskLogin(w) \/ AskStatus(w) \/ AskRefresh(w)
               \/ AskVerify(w) \/ AskLogout(w) \/ AskModels(w) \/ Store(w)

-----------------------------------------------------------------------------
(* The form.  Its requests move only while the health loop sleeps.         *)

LoopSleeps == work[Loop] = Idle
FormBecomes(f, next) == form' = [form EXCEPT ![f] = next]

\* miclaw_login changes nothing before its await; after it the session is remembered and
\* a row INSERTed, also when the user has one.
AddRow(user) == Append(rows, [user |-> user, readable |-> TRUE, cookie |-> 0, status |-> "pending"])
LoginForm(user) ==
  /\ LoopSleeps /\ Up /\ sids < MaxSids /\ Len(rows) < MaxRows
  /\ sids' = sids + 1
  /\ forms' = [s \in DOMAIN forms \cup {sids + 1} |-> IF s = sids + 1 THEN user ELSE forms[s]]
  /\ rows' = AddRow(user)
  /\ UNCHANGED <<bridge, work, form, spent>>

\* miclaw_verify takes the session out before it asks the bridge ...
WithoutSid(s) == [r \in DOMAIN forms \ {s} |-> forms[r]]
VerifyBegins(f, s) == /\ form[f] = FormIdle /\ LoopSleeps /\ s \in DOMAIN forms
                      /\ forms' = WithoutSid(s)
                      /\ FormBecomes(f, [at |-> "verify", user |-> forms[s]])
                      /\ UNCHANGED <<rows, bridge, sids, work, spent>>

\* ... and writes the answer to the first row of that user; a refusal loses the session.
RowsOf(user) == {i \in 1..Len(rows) : rows[i].user = user}
FirstRow(user) == CHOOSE i \in RowsOf(user) : \A j \in RowsOf(user) : i <= j
VerifyEnds(f) ==
  /\ form[f].at = "verify" /\ LoopSleeps
  /\ \/ /\ CanIssue /\ RowsOf(form[f].user) # {}
        /\ bridge' = Issue(form[f].user)
        /\ rows' = [rows EXCEPT ![FirstRow(form[f].user)].status = "logged_in",
                                ![FirstRow(form[f].user)].cookie = NewSession]
     \/ UNCHANGED <<bridge, rows>>
  /\ FormBecomes(f, FormIdle) /\ UNCHANGED <<forms, sids, work, spent>>

\* The process restarts: the form's sessions and every operation under way are gone;
\* without TP_ENCRYPTION_KEY a new key is drawn and no stored password can be read.
Restart == /\ spent.boots < MaxBoots /\ spent' = [spent EXCEPT !.boots = @ + 1]
           /\ \/ rows' = [i \in DOMAIN rows |-> [rows[i] EXCEPT !.readable = FALSE, !.cookie = 0]]
              \/ UNCHANGED rows
           /\ forms' = <<>> /\ work' = [w \in Workers |-> Idle] /\ form' = [f \in ClawForms |-> FormIdle]
           /\ UNCHANGED <<bridge, sids>>

ClawNext == \/ BridgeStep \/ Restart \/ LoopBegins
            \/ \E w \in ClawThreads : OneAccount(w) \/ AllAccounts(w)
            \/ \E w \in Workers : WorkStep(w)
            \/ \E u \in ClawUsers : LoginForm(u)
            \/ \E f \in ClawForms : VerifyEnds(f) \/ (\E s \in 1..MaxSids : VerifyBegins(f, s))
-----------------------------------------------------------------------------
ClawStep == WF_clawVars(LoopBegins) /\ (\A w \in Workers : WF_clawVars(WorkStep(w)))
ClawSpec == ClawInit /\ [][ClawNext]_clawVars /\ ClawStep

\* Once the bridge refuses everybody for good, the health loop takes every account whose
\* password can be read out of the logged-in ones, also one a probe has just put back.
DeadAccountsLeave == <>[](~Up) => \A i \in 1..MaxRows :
                       <>[](i \in DOMAIN rows /\ rows[i].readable => ~LoggedIn(rows[i]))
=============================================================================
