------------------------------ MODULE PoolKeys ------------------------------
(***************************************************************************)
(* The tables of the token pool in which something is issued or kept: the  *)
(* free keys (routes/free_keys.py), the keys sold (routes/sold_keys.py),   *)
(* the providers' keys (routes/keys.py over pool/registry.py), whose       *)
(* secrets pool/encryption.py encrypts, and the accounts (routes/auth.py). *)
(*                                                                         *)
(* All requests use ONE connection: a statement is seen by everybody at    *)
(* once, and a commit makes everything durable that anybody has written,   *)
(* also the half of a request that raised.  The routes of free and sold    *)
(* keys run in threads and do not take the registry's lock; the methods of *)
(* the registry take it, so each of those is one step here.  The tables    *)
(* have no statement in common: area, chosen at the start, says which the  *)
(* behaviour is about, and OtherCommit stands for the rest.                *)
(***************************************************************************)
EXTENDS Naturals, Sequences

CONSTANTS KeyThreads,  \* requests under way at once
          Names,       \* device codes and addresses, or aliases
          MaxKeyOps,   \* bound on requests
          MaxKeyBoots  \* bound on restarts

VARIABLES area,    \* "free", "sold", "provider" or "users"
          table,   \* what the connection sees
          durable, \* what has been committed
          default, \* FREE_DEFAULTS["total_limit"], in memory only
          doing,   \* what each request is doing: [at, todo, seen, sale, then, secret]
          ops,     \* [asked, boots]
          promised, \* sales answered "ok" and not deleted since, accounts registered
          vault    \* [env, key, drawn]: TP_ENCRYPTION_KEY, _cached_key, the keys drawn

keyVars == <<area, table, durable, default, doing, ops, promised, vault>>

\* A secret is the key it was encrypted with; sure, history, says that it was
\* taken in this process and while no request was about to draw another.
NoSecret == [key |-> 0, sure |-> FALSE]
NoRequest == [at |-> "idle", todo |-> <<>>, seen |-> <<>>, sale |-> <<>>, then |-> "", secret |-> NoSecret]
Builtin == CHOOSE n \in Names : TRUE
Put(f, a, v) == [b \in DOMAIN f \cup {a} |-> IF b = a THEN v ELSE f[b]]
Seeded(t) == IF Builtin \in DOMAIN t THEN t ELSE Put(t, Builtin, [id |-> 0, secret |-> NoSecret])

KeysInit == /\ area \in {"free", "sold", "provider", "users"}
            /\ table = CASE area \in {"free", "users"} -> <<>>
                         [] area = "sold" -> [keys |-> <<>>, models |-> {}]
                         [] OTHER -> [keys |-> Seeded(<<>>), stats |-> {}]
            /\ vault \in [env : IF area = "provider" THEN {"set", "unset", "required"} ELSE {"set"}, key : {0}, drawn : {0}]
            /\ durable = table /\ default = 5 /\ promised = {}
            /\ doing = [r \in KeyThreads |-> NoRequest] /\ ops = [asked |-> 0, boots |-> 0]

Asks(r) == /\ doing[r] = NoRequest /\ ops.asked < MaxKeyOps
           /\ ops' = [ops EXCEPT !.asked = @ + 1]
Request(r, todo, seen) == doing' = [doing EXCEPT ![r] = [NoRequest EXCEPT !.at = "write", !.todo = todo, !.seen = seen]]

-----------------------------------------------------------------------------
(* Free keys.  A row is [device, ip, limit, on, saw]; saw, the rows there  *)
(* were when the request looked, is history.  The code is a hash of device *)
(* and address, and UNIQUE.                                                *)

Rows == DOMAIN table
Same(row, d, ip) == row.device = d \/ row.ip = ip
Insert(d, ip, seen) == [do |-> "insert", row |-> [device |-> d, ip |-> ip, limit |-> default, on |-> TRUE, saw |-> seen]]

\* register: an existing key of the device or the address is the answer.
Register(r, d, ip) == /\ Asks(r)
                      /\ ~ \E i \in Rows : Same(table[i], d, ip)
                      /\ Request(r, <<Insert(d, ip, Rows)>>, <<>>)
                      /\ UNCHANGED <<area, table, durable, default, promised, vault>>

\* adjust and batch-adjust are one UPDATE; ai-command is one per code it has read, with the
\* fields its words name: "enable" wins over "disable", at most one number is a total.
Update(codes, changes) == [do |-> "update", rows |-> codes, set |-> changes]
Changes == {c \in [limit : {0, 9}, on : {"keep", "off", "on"}] : c.limit # 0 \/ c.on # "keep"} \* 0: keep
UpdateAll(changes) == [do |-> "all", set |-> changes]
Adjust(r) == \E c \in Changes : \E s \in {Update({i}, c) : i \in Rows} \cup {UpdateAll(c)} :
               /\ Asks(r) /\ Request(r, <<s>>, <<>>)
               /\ UNCHANGED <<area, table, durable, default, promised, vault>>
Status(words) == IF "enable" \in words THEN "on" ELSE IF "disable" \in words THEN "off" ELSE "keep"
Understood(words) == [limit |-> IF "total" \in words THEN 9 ELSE 0, on |-> Status(words)]
AiCommand(r) == \E codes \in {{i} : i \in Rows} \cup {Rows}, words \in SUBSET {"total", "enable", "disable", "default"} :
                  /\ codes # {} /\ words # {} /\ Asks(r)
                  /\ default' = IF "default" \in words THEN 9 ELSE default
                  /\ IF Understood(words) \in Changes
                     THEN Request(r, [i \in 1..Len(table) |-> Update(codes \cap {i}, Understood(words))], <<>>)
                     ELSE UNCHANGED doing
                  /\ UNCHANGED <<area, table, durable, promised, vault>>

Updated(row, set) == [row EXCEPT !.limit = IF set.limit = 0 THEN @ ELSE set.limit,
                                 !.on = IF set.on = "keep" THEN @ ELSE set.on = "on"]
CodeTaken(row) == \E i \in Rows : table[i].device = row.device /\ table[i].ip = row.ip
FreeResult(s) == IF s.do = "insert" THEN Append(table, s.row)
                 ELSE [i \in Rows |-> IF s.do = "all" \/ i \in s.rows THEN Updated(table[i], s.set) ELSE table[i]]

-----------------------------------------------------------------------------
(* Sold keys.  A multiplier that is no number raises when its turn comes.  *)

Lists == {<<>>, <<"m1">>, <<"m1", "m2">>, <<"m1", "bad">>}
ModelRows(a, list) == [n \in DOMAIN list |-> [do |-> IF list[n] = "bad" THEN "raise" ELSE "model", alias |-> a, model |-> list[n]]]

Deleting(a) == \E r \in KeyThreads : \E n \in DOMAIN doing[r].todo :
                 doing[r].todo[n].do \in {"unsell", "nomodels"} /\ doing[r].todo[n].alias = a
AddSold(r, a) == \E list \in Lists :
  /\ Asks(r) /\ a \notin DOMAIN table.keys
  /\ doing' = [doing EXCEPT ![r] = [NoRequest EXCEPT !.at = "write", !.sale = IF Deleting(a) THEN <<>> ELSE <<a, list>>,
                                      !.todo = <<[do |-> "sell", alias |-> a]>> \o ModelRows(a, list)]]
  /\ UNCHANGED <<area, table, durable, default, promised, vault>>

\* adjust updates the row if there is one and inserts the models either way, model-mult too.
AdjustSold(r, a) == \E list \in Lists :
  /\ Asks(r)
  /\ Request(r, <<[do |-> "factor", alias |-> a]>> \o ModelRows(a, list), <<>>)
  /\ UNCHANGED <<area, table, durable, default, promised, vault>>
BatchMult(r) == /\ Asks(r) /\ DOMAIN table.keys # {}
                /\ Request(r, <<[do |-> "factors"]>>, <<>>)
                /\ UNCHANGED <<area, table, durable, default, promised, vault>>
SaleOff(d, a) == IF d.sale # <<>> /\ d.sale[1] = a THEN [d EXCEPT !.sale = <<>>] ELSE d
DeleteSold(r, a) == /\ Asks(r)
                    /\ doing' = [q \in KeyThreads |-> IF q # r THEN SaleOff(doing[q], a) ELSE
                         [NoRequest EXCEPT !.at = "write", !.todo = <<[do |-> "unsell", alias |-> a], [do |-> "nomodels", alias |-> a]>>]]
                    /\ promised' = {p \in promised : p.alias # a}
                    /\ UNCHANGED <<area, table, durable, default, vault>>

Minus(f, a) == [b \in DOMAIN f \ {a} |-> f[b]]
SoldResult(s) ==
  CASE s.do = "sell" -> [table EXCEPT !.keys = Put(@, s.alias, 1)]
    [] s.do = "factor" -> [table EXCEPT !.keys = [b \in DOMAIN @ |-> IF b = s.alias THEN 2 ELSE @[b]]]
    [] s.do = "factors" -> [table EXCEPT !.keys = [b \in DOMAIN @ |-> 2]]
    [] s.do = "model" -> [table EXCEPT !.models = @ \cup {<<s.alias, s.model>>}]
    [] s.do = "unsell" -> [table EXCEPT !.keys = Minus(@, s.alias)]
    [] OTHER -> [table EXCEPT !.models = {m \in @ : m[1] # s.alias}]

-----------------------------------------------------------------------------
(* A request's statements, its commit and its end.                         *)

Statement(r) == Head(doing[r].todo)
Raises(r) == \/ Statement(r).do = "raise"
             \/ Statement(r).do = "insert" /\ CodeTaken(Statement(r).row)
             \/ Statement(r).do = "sell" /\ Statement(r).alias \in DOMAIN table.keys
Execute(r) == /\ doing[r].at = "write" /\ doing[r].todo # <<>>
              /\ IF Raises(r) THEN doing' = [doing EXCEPT ![r] = NoRequest] /\ UNCHANGED table
                 ELSE /\ table' = IF area = "free" THEN FreeResult(Statement(r)) ELSE SoldResult(Statement(r))
                      /\ doing' = [doing EXCEPT ![r].todo = Tail(@)]
              /\ UNCHANGED <<area, durable, default, ops, promised, vault>>
Answer(r) == LET sale == doing[r].sale
             IN IF sale = <<>> THEN {} ELSE {[alias |-> sale[1], models |-> {sale[2][n] : n \in DOMAIN sale[2]}]}
\* MUTANT: the answer is given before the commit.
CommitLater(r) == /\ doing[r].at = "write" /\ doing[r].todo = <<>>
                  /\ promised' = promised \cup Answer(r)
                  /\ doing' = [doing EXCEPT ![r] = NoRequest]
                  /\ UNCHANGED <<area, table, durable, default, ops, vault>>
Commit(r) == /\ doing[r].at = "write" /\ doing[r].todo = <<>>
             /\ durable' = table
             /\ promised' = promised \cup Answer(r)
             /\ doing' = [doing EXCEPT ![r] = NoRequest]
             /\ UNCHANGED <<area, table, default, ops, vault>>
OtherCommit == /\ durable # table /\ durable' = table
               /\ UNCHANGED <<area, table, default, doing, ops, promised, vault>>

-----------------------------------------------------------------------------
(* The providers' keys: alias -> [id, secret], and the aliases that have a *)
(* row of statistics.  The number of a request serves as the next id.      *)
(* Every other encrypted column is written and read as their secret is.    *)

Writes(t) == table' = t /\ durable' = t /\ UNCHANGED <<area, default, promised>>
Stores(t) == Writes(t) /\ UNCHANGED vault
Row(id, secret) == [id |-> id, secret |-> secret]
Ends(r) == doing' = [doing EXCEPT ![r] = NoRequest] /\ UNCHANGED ops
Ciphers(r, then, seen) == /\ doing' = [doing EXCEPT ![r] = [NoRequest EXCEPT !.at = "look", !.then = then, !.seen = seen]]
                          /\ UNCHANGED <<area, table, durable, default, promised, vault>>

\* add_key: INSERT OR REPLACE gives an alias that exists a new id.
AddKey(r, a) == Asks(r) /\ Ciphers(r, "add", <<ops.asked + 1, a>>)
Add(r) == /\ doing[r].at = "add" /\ Ends(r)
          /\ Stores([table EXCEPT !.keys = Put(@, doing[r].seen[2], Row(doing[r].seen[1], doing[r].secret))])
DeleteKey(r, a) == /\ Asks(r) /\ Stores([keys |-> Minus(table.keys, a), stats |-> table.stats \ {a}]) /\ UNCHANGED doing
SetSecret(r, a) == Asks(r) /\ a \in DOMAIN table.keys /\ Ciphers(r, "set", <<a>>)
SetValue(r) == /\ doing[r].at = "set" /\ Ends(r)
               /\ LET a == doing[r].seen[1] IN Stores(IF a \in DOMAIN table.keys THEN [table EXCEPT !.keys[a].secret = doing[r].secret] ELSE table)
\* update_key reads the row, decrypts it and takes its id; upsert updates the row of that id,
\* alias and secret included, an empty secret too, unless another row has the alias.
LooksUp(r, a) == /\ Asks(r) /\ a \in DOMAIN table.keys
                 /\ \E b \in Names, empty \in BOOLEAN : Ciphers(r, "upsert", <<table.keys[a].id, b, empty>>)
Holder(id) == {a \in DOMAIN table.keys : table.keys[a].id = id}
Upsert(r) == /\ doing[r].at = "upsert" /\ Ends(r)
             /\ LET id == doing[r].seen[1]  b == doing[r].seen[2]
                    secret == IF doing[r].seen[3] THEN NoSecret ELSE doing[r].secret
                    others == DOMAIN table.keys \ Holder(id)
                IN IF Holder(id) = {} \/ b \in others THEN Stores(table)
                   ELSE Stores([table EXCEPT !.keys = Put([a \in others |-> @[a]], b, Row(id, secret))])
\* update_stat reports a call or a probe of a key the caller read earlier.
CallBegins(r, a) == /\ Asks(r) /\ a \in DOMAIN table.keys
                    /\ doing' = [doing EXCEPT ![r] = [NoRequest EXCEPT !.at = "call", !.seen = <<a>>]]
                    /\ UNCHANGED <<area, table, durable, default, promised, vault>>
UpdateStat(r) == doing[r].at = "call" /\ Ends(r) /\ Stores([table EXCEPT !.stats = @ \cup {doing[r].seen[1]}])

\* _key: a request that finds no key initialises it, from TP_ENCRYPTION_KEY or with a random
\* one, and takes what is there afterwards; in production, without the variable, it raises.
OfEnvironment == 1
LookKey(r) == /\ doing[r].at = "look"
              /\ doing' = [doing EXCEPT ![r].at = IF vault.key = 0 THEN "draw" ELSE "cipher"]
              /\ UNCHANGED <<area, table, durable, default, ops, promised, vault>>
InitEncryption(r) ==
  /\ doing[r].at = "draw"
  /\ vault' = CASE vault.env = "set" -> [vault EXCEPT !.key = OfEnvironment]
                [] vault.env = "unset" -> [vault EXCEPT !.key = OfEnvironment + vault.drawn + 1, !.drawn = @ + 1]
                [] OTHER -> vault
  /\ doing' = [doing EXCEPT ![r] = IF vault.env = "required" THEN NoRequest ELSE [@ EXCEPT !.at = "cipher"]]
  /\ UNCHANGED <<area, table, durable, default, ops, promised>>
Encrypt(r) == /\ doing[r].at = "cipher"
              /\ doing' = [doing EXCEPT ![r].at = doing[r].then, ![r].secret = [key |-> vault.key, sure |-> \A q \in KeyThreads : doing[q].at # "draw"]]
              /\ UNCHANGED <<area, table, durable, default, ops, promised, vault>>

\* decrypt raises unless it has the key of encrypt; _row_to_key gives an empty secret then.
KeyInUse == IF vault.env = "set" THEN OfEnvironment ELSE vault.key
Readable(secret) == secret.key \in {0, KeyInUse}

-----------------------------------------------------------------------------
(* The accounts: name -> [password, token], each route one step.           *)

Account(password) == [password |-> password, token |-> ops.asked + 1]
\* A name that is taken is refused by the UNIQUE of its column, with a 409.
RegisterUser(r, u) == \E password \in 1..2 :
  /\ Asks(r) /\ UNCHANGED <<area, default, doing, vault>>
  /\ IF u \in DOMAIN table THEN UNCHANGED <<table, durable, promised>>
     ELSE /\ table' = Put(table, u, Account(password)) /\ durable' = table'
          /\ promised' = promised \cup {[user |-> u, account |-> Account(password)]}
\* login answers the token of the account, me the account of the token.
VerifyUser(u, password) == {n \in DOMAIN table : n = u /\ table[n].password = password}
Login(u, password) == {table[n].token : n \in VerifyUser(u, password)}
UserByToken(token) == {n \in DOMAIN table : table[n].token = token}

\* The process restarts: what was not committed is gone, built-in keys are seeded again.
Unsure(keys) == [a \in DOMAIN keys |-> [keys[a] EXCEPT !.secret.sure = FALSE]]
RestartPool == /\ ops.boots < MaxKeyBoots /\ ops' = [ops EXCEPT !.boots = @ + 1]
               /\ LET t == IF area = "provider" THEN [durable EXCEPT !.keys = Unsure(Seeded(@))] ELSE durable
                  IN table' = t /\ durable' = t
               /\ vault' = [vault EXCEPT !.key = 0]
               /\ default' = 5 /\ doing' = [r \in KeyThreads |-> NoRequest]
               /\ UNCHANGED <<area, promised>>

KeysNext ==
  \/ OtherCommit \/ RestartPool
  \/ \E r \in KeyThreads :
       \/ Execute(r) \/ Commit(r) \/ Add(r) \/ SetValue(r) \/ Upsert(r) \/ UpdateStat(r)
       \/ LookKey(r) \/ InitEncryption(r) \/ Encrypt(r)
       \/ area = "users" /\ \E u \in Names : RegisterUser(r, u)
       \/ area = "free" /\ (Adjust(r) \/ AiCommand(r) \/ \E d, ip \in Names : Register(r, d, ip))
       \/ area = "sold" /\ (BatchMult(r) \/ \E a \in Names : AddSold(r, a) \/ AdjustSold(r, a) \/ DeleteSold(r, a))
       \/ area = "provider" /\ \E a \in Names : \/ AddKey(r, a) \/ DeleteKey(r, a) \/ SetSecret(r, a)
                                                 \/ LooksUp(r, a) \/ CallBegins(r, a)
-----------------------------------------------------------------------------
\* "The same device or the same address gets the key it has": two free keys share one only
\* when the request for the later one had looked before the earlier was inserted, and never
\* both; restarts and half-done requests change nothing in that.
FreeKeyOnce == area = "free" => \A i, j \in Rows : i < j /\ Same(table[i], table[j].device, table[j].ip) =>
                 /\ i \notin table[j].saw
                 /\ table[i].device # table[j].device \/ table[i].ip # table[j].ip

\* Whatever other requests commit, raise or lose in a restart: a sale that was answered "ok"
\* is durable with all its models until somebody asks for its deletion.
SaleKept == area = "sold" => \A p \in promised : /\ p.alias \in DOMAIN durable.keys
                                /\ {p.alias} \X p.models \subseteq durable.models

\* An account that was registered is the one its name and password log in to and the only
\* one of its token, whoever registers the name again and whenever the process restarts.
AccountKept == area = "users" => \A p \in promised : /\ Login(p.user, p.account.password) = {p.account.token}
                                                     /\ UserByToken(p.account.token) = {p.user}

\* A stored secret can be read: for good if TP_ENCRYPTION_KEY is set, until the next restart
\* if it is not and no request was still about to draw a key when it was encrypted.
SecretsReadable == area = "provider" => \A a \in DOMAIN table.keys :
  vault.env = "set" \/ table.keys[a].secret.sure => Readable(table.keys[a].secret)

\* What was issued stays as it was issued: one free key per device and address, sold keys
\* whole, accounts theirs who registered them and secrets readable, whatever requests overlap.
IssuedKeys == FreeKeyOnce /\ SaleKept /\ AccountKept /\ SecretsReadable
=============================================================================
