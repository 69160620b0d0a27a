---------------------------- MODULE WechatChannel ----------------------------
(***************************************************************************)
(* The WeChat channel of the gateway: the long-polling loop of an account  *)
(* (adapters/wechat.py), the QR login and the files it leaves              *)
(* (adapters/wechat_auth.py), for one account.                             *)
(*                                                                         *)
(* The loop is a coroutine of the panel, the login runs in a thread of its *)
(* executor; the process may stop between any two steps.  WeChat's servers *)
(* are external: they hold the account's messages behind a cursor and may  *)
(* stop accepting its token.  write_text empties a file before it writes.  *)
(***************************************************************************)
EXTENDS Naturals, Sequences

CONSTANTS MaxMessages, \* bound on the messages users send
          MaxTokens,   \* bound on logins that succeed
          MaxStarts    \* bound on starts of the panel

ASSUME BoundsAreNumbers == MaxMessages \in Nat /\ MaxTokens \in Nat

VARIABLES arrived,  \* messages sent to the account so far, numbered
          valid,    \* the token the servers accept, 0 when none
          synced,   \* the .sync.json file: a cursor, 0 when it does not exist, or Torn
          account,  \* the account's file: a token, 0 or Torn
          index,    \* accounts.json: "none", "torn" or "listed"
          loop,     \* the account's loop: [at, token, buf, batch]
          login,    \* a QR login: [at, round, token]
          starts,   \* starts of the panel so far
          answered  \* what users got, [msg, kind], in order

wxVars == <<arrived, valid, synced, account, index, loop, login, starts, answered>>

Torn == MaxMessages + MaxTokens + 1
Down == [at |-> "down", token |-> 0, buf |-> 0, batch |-> <<>>]
NoLogin == [at |-> "none", round |-> 0, token |-> 0]

WxInit == /\ arrived = 0 /\ valid = 0 /\ synced = 0 /\ account = 0 /\ index = "none"
          /\ loop = Down /\ login = NoLogin /\ starts = 0 /\ answered = <<>>

LoopGoes(where) == loop' = [loop EXCEPT !.at = where]
OnlyLoop == UNCHANGED <<arrived, valid, synced, account, index, login, starts, answered>>

-----------------------------------------------------------------------------
(* The servers and the process.                                            *)

Arrive == /\ arrived < MaxMessages /\ arrived' = arrived + 1
          /\ UNCHANGED <<valid, synced, account, index, loop, login, starts, answered>>
Invalidate == /\ valid # 0 /\ valid' = 0
              /\ UNCHANGED <<arrived, synced, account, index, loop, login, starts, answered>>
StopPanel == /\ loop' = Down /\ login' = NoLogin
             /\ UNCHANGED <<arrived, valid, synced, account, index, starts, answered>>

\* start loads the accounts once: later logins take effect at the next start, and a torn
\* index or account file raises, which leaves no loop.
StartPanel == /\ loop = Down /\ login = NoLogin /\ starts < MaxStarts
              /\ starts' = starts + 1
              /\ loop' = IF index = "listed" /\ account \notin {0, Torn}
                         THEN [Down EXCEPT !.at = "connect", !.token = account]
                         ELSE [Down EXCEPT !.at = "none"]
              /\ UNCHANGED <<arrived, valid, synced, account, index, login, answered>>

-----------------------------------------------------------------------------
(* The loop.                                                               *)

\* _poll_loop starts from the stored cursor; a torn file raises, and again after each 60 s.
\* MUTANT: each connection starts from the beginning.
ConnectAnew == loop.at = "connect" /\ loop' = [loop EXCEPT !.at = "poll", !.buf = 0] /\ OnlyLoop
Connect == /\ loop.at = "connect"
           /\ loop' = IF synced = Torn THEN [loop EXCEPT !.at = "retry"]
                      ELSE [loop EXCEPT !.at = "poll", !.buf = synced]
           /\ OnlyLoop
Retry == loop.at = "retry" /\ LoopGoes("connect") /\ OnlyLoop

\* get_updates answers with what is behind the cursor, or that the token is not accepted.
\* A request that fails is repeated.
New == [i \in 1..(arrived - loop.buf) |-> loop.buf + i]
Poll == /\ loop.at = "poll"
        /\ IF loop.token # valid THEN LoopGoes("retry")
           ELSE /\ New # <<>>
                /\ loop' = [loop EXCEPT !.at = "save", !.buf = arrived, !.batch = New]
        /\ OnlyLoop

\* The new cursor is stored before the messages are handled.
EmptySync == /\ loop.at = "save" /\ synced' = Torn /\ LoopGoes("write")
             /\ UNCHANGED <<arrived, valid, account, index, login, starts, answered>>
WriteSync == /\ loop.at = "write" /\ synced' = loop.buf /\ LoopGoes("handle")
             /\ UNCHANGED <<arrived, valid, account, index, login, starts, answered>>

\* _handle_msg: no text, or a reply; when sending that raises, though it may have been
\* delivered, an apology; when that raises too, the rest of the batch is dropped.
Got(kinds) == answered' = answered \o [i \in 1..Len(kinds) |-> [msg |-> Head(loop.batch), kind |-> kinds[i]]]
Handled == [loop EXCEPT !.batch = Tail(@), !.at = IF Len(loop.batch) = 1 THEN "poll" ELSE "handle"]
Handle == /\ loop.at = "handle"
          /\ \/ Got(<<>>) /\ loop' = Handled
             \/ Got(<<"reply">>) /\ loop' = Handled
             \/ \E delivered \in {<<>>, <<"reply">>} : Got(delivered) /\ LoopGoes("apologise")
          /\ UNCHANGED <<arrived, valid, synced, account, index, login, starts>>
Apologise == /\ loop.at = "apologise"
             /\ \/ Got(<<"sorry">>) /\ loop' = Handled
                \/ \E delivered \in {<<>>, <<"sorry">>} :
                     Got(delivered) /\ loop' = [loop EXCEPT !.batch = <<>>, !.at = "poll"]
             /\ UNCHANGED <<arrived, valid, synced, account, index, login, starts>>

-----------------------------------------------------------------------------
(* The login: up to three codes; then the account's file, then the index.  *)

MAX_QR_REFRESH == 3
OnlyLogin == UNCHANGED <<arrived, valid, synced, account, index, loop, starts, answered>>
LoginGoes(r) == login' = r

Login == /\ loop # Down /\ login = NoLogin /\ LoginGoes([NoLogin EXCEPT !.at = "scan", !.round = 1]) /\ OnlyLogin
\* A code that could not be had, expired, was blocked, was already bound or timed out.
NextCode == /\ login.at = "scan"
            /\ LoginGoes(IF login.round < MAX_QR_REFRESH THEN [login EXCEPT !.round = @ + 1] ELSE NoLogin)
            /\ OnlyLogin
Tokens == {account, loop.token, valid} \ {Torn}
NewToken == IF Tokens = {} THEN 1 ELSE 1 + CHOOSE n \in Tokens : \A m \in Tokens : m <= n
Confirmed == /\ login.at = "scan" /\ NewToken <= MaxTokens
             /\ valid' = NewToken /\ LoginGoes([login EXCEPT !.at = "account", !.token = NewToken])
             /\ UNCHANGED <<arrived, synced, account, index, loop, starts, answered>>
EmptyAccount == /\ login.at = "account" /\ account' = Torn /\ LoginGoes([login EXCEPT !.at = "token"])
                /\ UNCHANGED <<arrived, valid, synced, index, loop, starts, answered>>
WriteAccount == /\ login.at = "token" /\ account' = login.token
                /\ LoginGoes(IF index = "none" THEN [login EXCEPT !.at = "index"] ELSE NoLogin)
                /\ UNCHANGED <<arrived, valid, synced, index, loop, starts, answered>>
EmptyIndex == /\ login.at = "index" /\ index' = "torn" /\ LoginGoes([login EXCEPT !.at = "list"])
              /\ UNCHANGED <<arrived, valid, synced, account, loop, starts, answered>>
WriteIndex == /\ login.at = "list" /\ index' = "listed" /\ LoginGoes(NoLogin)
              /\ UNCHANGED <<arrived, valid, synced, account, loop, starts, answered>>

WxNext == \/ Arrive \/ Invalidate \/ StartPanel \/ StopPanel
          \/ Connect \/ Retry \/ Poll \/ EmptySync \/ WriteSync \/ Handle \/ Apologise
          \/ Login \/ NextCode \/ Confirmed \/ EmptyAccount \/ WriteAccount \/ EmptyIndex \/ WriteIndex
WxSpec == WxInit /\ [][WxNext]_wxVars
-----------------------------------------------------------------------------
\* Over restarts, repeated polls and failed sends: a user never gets two replies to one
\* message, an apology only after its failed reply, and nothing out of order.
AnsweredOnce == \A i, j \in DOMAIN answered : i < j =>
                  \/ answered[i].msg < answered[j].msg
                  \/ /\ answered[i].msg = answered[j].msg
                     /\ answered[i].kind = "reply" /\ answered[j].kind = "sorry"
=============================================================================
