---------------------------- MODULE PoolProofs -----------------------------
(***************************************************************************)
(* What the token pool keeps for any number of requests, names, calls and  *)
(* restarts: IssuedKeys of PoolKeys and GuardIsStrict of Routing.  Each of *)
(* the four parts of IssuedKeys has the invariant of its table.            *)
(*                                                                         *)
(*   free      what a pending insert saw is in the table and unchanged     *)
(*   sold      what a promised sale lacks on the disk is in the table, or  *)
(*             among the statements to come of the request that sells it,  *)
(*             and nobody is about to delete it                            *)
(*   users     tokens are unique and no larger than the requests made      *)
(*   provider  a secret that is sure to be readable was encrypted under    *)
(*             the key in use, which no later look replaces                *)
(*                                                                         *)
(* The guard reads the last calls of a log that is in the order of days.   *)
(* If it reads one of yesterday, or of midnight itself, it reads all of    *)
(* today's, and not more than all of yesterday's.                          *)
(***************************************************************************)
EXTENDS MCPool, Sequences, WellFoundedInduction, TLAPS

NoOne == Keys!NoRequest

LEMMA TailIs ==
  ASSUME NEW S, NEW q \in Seq(S), q # <<>>
  PROVE  /\ Tail(q) \in Seq(S) /\ q[1] \in S /\ 1 \in DOMAIN q /\ Head(q) = q[1]
         /\ \A n \in DOMAIN Tail(q) : n + 1 \in DOMAIN q /\ Tail(q)[n] = q[n + 1]
         /\ \A n \in DOMAIN q : n # 1 => n - 1 \in DOMAIN Tail(q) /\ Tail(q)[n - 1] = q[n]
<1>1. PICK l \in Nat : l = Len(q) /\ l >= 1 /\ DOMAIN q = 1..l
  OBVIOUS
<1>2. Tail(q) \in Seq(S) /\ DOMAIN Tail(q) = 1..(l - 1) /\ q[1] \in S /\ 1 \in DOMAIN q /\ Head(q) = q[1]
  BY <1>1
<1>3. \A n \in 1..(l - 1) : n + 1 \in 1..l /\ Tail(q)[n] = q[n + 1]
  BY <1>1
<1>4. ASSUME NEW n \in 1..l, n # 1 PROVE n - 1 \in 1..(l - 1) /\ Tail(q)[n - 1] = q[n]
  <2>1. n - 1 \in 1..(l - 1) /\ (n - 1) + 1 = n
    BY <1>1, <1>4
  <2> QED
    BY <1>3, <2>1
<1> QED
  BY <1>1, <1>2, <1>3, <1>4

LEMMA FirstIs ==
  ASSUME NEW S, NEW e \in S, NEW q \in Seq(S), NEW k, k = <<e>> \o q
  PROVE  /\ k \in Seq(S) /\ k[1] = e /\ 1 \in DOMAIN k
         /\ \A n \in DOMAIN q : n + 1 \in DOMAIN k /\ k[n + 1] = q[n]
         /\ \A n \in DOMAIN k : k[n] = e \/ \E m \in DOMAIN q : k[n] = q[m]
<1>1. PICK l \in Nat : l = Len(q) /\ DOMAIN q = 1..l
  OBVIOUS
<1>2. k \in Seq(S) /\ DOMAIN k = 1..(l + 1) /\ k[1] = e /\ \A n \in 1..l : k[n + 1] = q[n]
  BY <1>1
<1>3. ASSUME NEW n \in 1..(l + 1) PROVE k[n] = e \/ \E m \in DOMAIN q : k[n] = q[m]
  <2>1. n = 1 \/ (n - 1 \in 1..l /\ (n - 1) + 1 = n)
    BY <1>1
  <2> QED
    BY <1>1, <1>2, <2>1
<1>4. 1 \in DOMAIN k /\ \A n \in DOMAIN q : n + 1 \in DOMAIN k
  BY <1>1, <1>2
<1> QED
  BY <1>1, <1>2, <1>3, <1>4

LEMMA AppendIs ==
  ASSUME NEW S, NEW q \in Seq(S), NEW e \in S
  PROVE  /\ Append(q, e) \in Seq(S) /\ DOMAIN q \subseteq DOMAIN Append(q, e)
         /\ \A n \in DOMAIN q : Append(q, e)[n] = q[n]
  OBVIOUS
-----------------------------------------------------------------------------
(* Free keys.                                                              *)

Change == [limit : {0, 9}, on : {"keep", "off", "on"}]
FreeRow == [device : Names, ip : Names, limit : Nat, on : BOOLEAN, saw : SUBSET Nat]
FreeStatement == [do : {"insert"}, row : FreeRow] \cup [do : {"update"}, rows : SUBSET Nat, set : Change]
                   \cup [do : {"all"}, set : Change]
FreeRequest == [at : {"idle", "write"}, todo : Seq(FreeStatement), seen : {<<>>}, sale : {<<>>}, then : {""},
                secret : {Keys!NoSecret}]
FreeTyped == /\ table \in Seq(FreeRow) /\ durable \in Seq(FreeRow) /\ default \in Nat
             /\ doing \in [KeyThreads -> FreeRequest]
\* FreeKeyOnce, of any table.
Once(t) == \A i, j \in DOMAIN t : i < j /\ Keys!Same(t[i], t[j].device, t[j].ip) =>
             i \notin t[j].saw /\ (t[i].device # t[j].device \/ t[i].ip # t[j].ip)
\* What a request saw when it looked is still as it was.
Looked(row, t) == row.saw \subseteq DOMAIN t /\ \A i \in row.saw : ~Keys!Same(t[i], row.device, row.ip)
FreeInv == /\ FreeTyped /\ Once(table) /\ Once(durable)
           /\ \A r \in KeyThreads : \A n \in DOMAIN doing[r].todo :
                doing[r].todo[n].do = "insert" => Looked(doing[r].todo[n].row, table)

LEMMA FreeIdle == NoOne \in FreeRequest /\ NoOne.todo = <<>> /\ NoOne.at = "idle"
<1>1. <<>> \in Seq(FreeStatement)
  OBVIOUS
<1> QED
  BY <1>1 DEF NoOne, Keys!NoRequest, FreeRequest

\* A request that begins with its statements.
LEMMA FreeAsks ==
  ASSUME FreeInv, NEW r \in KeyThreads, NEW q \in Seq(FreeStatement), Keys!Request(r, q, <<>>),
         \A n \in DOMAIN q : q[n].do = "insert" => Looked(q[n].row, table),
         UNCHANGED <<table, durable>>, default' \in Nat
  PROVE  FreeInv'
<1>1. PICK z \in FreeRequest : z = Keys!NoRequest
  BY FreeIdle DEF NoOne
<1>2. PICK y : y = [z EXCEPT !.at = "write", !.todo = q, !.seen = <<>>]
  OBVIOUS
<1>3. y \in FreeRequest /\ y.todo = q
  BY <1>2 DEF FreeRequest
<1>4. doing' = [doing EXCEPT ![r] = y]
  BY <1>1, <1>2 DEF Keys!Request
<1>5. /\ doing' \in [KeyThreads -> FreeRequest] /\ doing'[r] = y
      /\ \A s \in KeyThreads \ {r} : doing'[s] = doing[s]
  BY <1>3, <1>4 DEF FreeInv, FreeTyped
<1> QED
  BY <1>3, <1>5 DEF FreeInv, FreeTyped

LEMMA RegisterKeeps ==
  ASSUME FreeInv, NEW r \in KeyThreads, NEW d \in Names, NEW ip \in Names, Keys!Register(r, d, ip)
  PROVE  FreeInv'
<1>1. Keys!Request(r, <<Keys!Insert(d, ip, Keys!Rows)>>, <<>>) /\ UNCHANGED <<table, durable, default>>
  BY DEF Keys!Register
<1>2. table \in Seq(FreeRow) /\ default \in Nat
  BY DEF FreeInv, FreeTyped
<1>3. PICK saw \in SUBSET Nat : saw = Keys!Rows /\ saw = DOMAIN table
  BY <1>2 DEF Keys!Rows
<1>4. PICK limit \in Nat : limit = default
  BY <1>2
<1>5. PICK row : row = [device |-> d, ip |-> ip, limit |-> limit, on |-> TRUE, saw |-> saw]
  OBVIOUS
<1>6. row \in FreeRow /\ row.device = d /\ row.ip = ip /\ row.saw = saw
  BY <1>5 DEF FreeRow
<1>7. PICK s : s = [do |-> "insert", row |-> row]
  OBVIOUS
<1>8. s \in FreeStatement /\ s.row = row
  BY <1>6, <1>7 DEF FreeStatement
<1>9. s = Keys!Insert(d, ip, Keys!Rows)
  BY <1>3, <1>4, <1>5, <1>7 DEF Keys!Insert
<1>10. Looked(row, table)
  BY <1>3, <1>6 DEF Keys!Register, Keys!Rows, Looked
<1>11. PICK q : q = <<s>>
  OBVIOUS
<1>12. q \in Seq(FreeStatement) /\ \A n \in DOMAIN q : q[n] = s
  BY <1>8, <1>11
<1>13. \A n \in DOMAIN q : q[n].do = "insert" => Looked(q[n].row, table)
  BY <1>8, <1>10, <1>12
<1>14. Keys!Request(r, q, <<>>)
  BY <1>1, <1>9, <1>11
<1> QED
  BY <1>1, <1>2, <1>12, <1>13, <1>14, FreeAsks

LEMMA AdjustKeeps ==
  ASSUME FreeInv, NEW r \in KeyThreads, Keys!Adjust(r)
  PROVE  FreeInv'
<1>1. table \in Seq(FreeRow) /\ default \in Nat
  BY DEF FreeInv, FreeTyped
<1>2. PICK c \in Keys!Changes : \E s \in {Keys!Update({i}, c) : i \in Keys!Rows} \cup {Keys!UpdateAll(c)} :
        Keys!Request(r, <<s>>, <<>>) /\ UNCHANGED <<table, durable, default>>
  BY DEF Keys!Adjust
<1>3. c \in Change
  BY DEF Keys!Changes, Change
<1>4. PICK s \in {Keys!Update({i}, c) : i \in Keys!Rows} \cup {Keys!UpdateAll(c)} :
        Keys!Request(r, <<s>>, <<>>) /\ UNCHANGED <<table, durable, default>>
  BY <1>2
<1>5. s \in FreeStatement /\ s.do # "insert"
  <2>1. CASE s = Keys!UpdateAll(c)
    BY <1>3, <2>1 DEF Keys!UpdateAll, FreeStatement
  <2>2. ASSUME NEW i \in Keys!Rows, s = Keys!Update({i}, c) PROVE s \in FreeStatement /\ s.do # "insert"
    <3>1. i \in Nat
      BY <1>1 DEF Keys!Rows
    <3> QED
      BY <1>3, <2>2, <3>1 DEF Keys!Update, FreeStatement
  <2> QED
    BY <1>4, <2>1, <2>2
<1>6. PICK q : q = <<s>>
  OBVIOUS
<1>7. q \in Seq(FreeStatement) /\ \A n \in DOMAIN q : q[n] = s
  BY <1>5, <1>6
<1> QED
  BY <1>1, <1>4, <1>5, <1>6, <1>7, FreeAsks

LEMMA AiCommandKeeps ==
  ASSUME FreeInv, NEW r \in KeyThreads, Keys!AiCommand(r)
  PROVE  FreeInv'
<1>1. table \in Seq(FreeRow) /\ default \in Nat /\ Len(table) \in Nat
  BY DEF FreeInv, FreeTyped
<1>2. PICK codes \in {{i} : i \in Keys!Rows} \cup {Keys!Rows}, words \in SUBSET {"total", "enable", "disable", "default"} :
        /\ default' = IF "default" \in words THEN 9 ELSE default
        /\ IF Keys!Understood(words) \in Keys!Changes
           THEN Keys!Request(r, [i \in 1..Len(table) |-> Keys!Update(codes \cap {i}, Keys!Understood(words))], <<>>)
           ELSE UNCHANGED doing
        /\ UNCHANGED <<table, durable>>
  BY DEF Keys!AiCommand
<1>3. default' \in Nat
  BY <1>1, <1>2
<1>4. CASE Keys!Understood(words) \in Keys!Changes
  <2>1. PICK c \in Change : c = Keys!Understood(words)
    BY <1>4 DEF Keys!Changes, Change
  <2>2. PICK q : q = [i \in 1..Len(table) |-> Keys!Update(codes \cap {i}, c)]
    OBVIOUS
  <2>3. \A i \in 1..Len(table) : q[i] \in FreeStatement /\ q[i].do # "insert"
    BY <2>2 DEF Keys!Update, FreeStatement
  <2>4. q \in Seq(FreeStatement) /\ DOMAIN q = 1..Len(table)
    BY <1>1, <2>2, <2>3
  <2>5. Keys!Request(r, q, <<>>)
    BY <1>2, <1>4, <2>1, <2>2
  <2> QED
    BY <1>2, <1>3, <2>3, <2>4, <2>5, FreeAsks
<1>5. CASE Keys!Understood(words) \notin Keys!Changes
  BY <1>2, <1>3, <1>5 DEF FreeInv, FreeTyped
<1> QED
  BY <1>4, <1>5

LEMMA UpdatedIs ==
  ASSUME NEW row \in FreeRow, NEW c \in Change
  PROVE  LET u == Keys!Updated(row, c)
         IN  u \in FreeRow /\ u.device = row.device /\ u.ip = row.ip /\ u.saw = row.saw
<1>1. PICK limit \in Nat : limit = IF c.limit = 0 THEN row.limit ELSE c.limit
  BY DEF FreeRow, Change
<1>2. PICK on \in BOOLEAN : on = IF c.on = "keep" THEN row.on ELSE c.on = "on"
  <2>1. row.on \in BOOLEAN
    BY DEF FreeRow
  <2>2. (c.on = "on") \in BOOLEAN
    OBVIOUS
  <2> QED
    BY <2>1, <2>2, Zenon
<1>3. PICK u : u = [row EXCEPT !.limit = limit, !.on = on]
  OBVIOUS
<1>4. u \in FreeRow /\ u.device = row.device /\ u.ip = row.ip /\ u.saw = row.saw
  BY <1>3 DEF FreeRow
<1>5. u = Keys!Updated(row, c)
  BY <1>1, <1>2, <1>3 DEF Keys!Updated
<1> QED
  BY <1>4, <1>5, Zenon

\* A statement adds a row or changes the limit and the state of rows.
LEMMA FreeResultIs ==
  ASSUME table \in Seq(FreeRow), NEW s \in FreeStatement, NEW t, t = Keys!FreeResult(s)
  PROVE  /\ t \in Seq(FreeRow)
         /\ s.do = "insert" => s.row \in FreeRow /\ t = Append(table, s.row)
         /\ s.do # "insert" => /\ DOMAIN t = DOMAIN table
                               /\ \A i \in DOMAIN t : /\ t[i].device = table[i].device /\ t[i].ip = table[i].ip
                                                      /\ t[i].saw = table[i].saw
<1>1. CASE s.do = "insert"
  <2>1. s.row \in FreeRow
    BY <1>1 DEF FreeStatement
  <2>2. t = Append(table, s.row)
    BY <1>1 DEF Keys!FreeResult
  <2> QED
    BY <1>1, <2>1, <2>2
<1>2. CASE s.do # "insert"
  <2>1. PICK c \in Change : c = s.set
    BY <1>2 DEF FreeStatement
  <2>2. t = [i \in DOMAIN table |-> IF s.do = "all" \/ i \in s.rows THEN Keys!Updated(table[i], c) ELSE table[i]]
    BY <1>2, <2>1 DEF Keys!FreeResult, Keys!Rows
  <2>3. ASSUME NEW i \in DOMAIN table
        PROVE  t[i] \in FreeRow /\ t[i].device = table[i].device /\ t[i].ip = table[i].ip /\ t[i].saw = table[i].saw
    <3>1. PICK row \in FreeRow : row = table[i]
      OBVIOUS
    <3>2. t[i] = Keys!Updated(row, c) \/ t[i] = row
      BY <2>2, <3>1
    <3> QED
      BY <3>1, <3>2, UpdatedIs
  <2>4. DOMAIN table = 1..Len(table) /\ Len(table) \in Nat
    OBVIOUS
  <2>5. t \in Seq(FreeRow)
    BY <2>2, <2>3, <2>4
  <2> QED
    BY <1>2, <2>2, <2>3, <2>5
<1> QED
  BY <1>1, <1>2

\* A row that is inserted after its request has looked: it shares a device or an address only
\* with rows the request did not see, and not both.
LEMMA InsertedOnce ==
  ASSUME NEW t \in Seq(FreeRow), NEW row \in FreeRow, Once(t), Looked(row, t),
         \A i \in DOMAIN t : t[i].device # row.device \/ t[i].ip # row.ip
  PROVE  Once(Append(t, row))
<1>1. PICK a : a = Append(t, row)
  OBVIOUS
<1>2. PICK n \in Nat : n = Len(t)
  OBVIOUS
<1>3. /\ DOMAIN t = 1..n /\ DOMAIN a = 1..(n + 1) /\ a[n + 1] = row /\ \A i \in 1..n : a[i] = t[i]
  BY <1>1, <1>2
<1>4. ASSUME NEW i \in DOMAIN a, NEW j \in DOMAIN a, i < j, Keys!Same(a[i], a[j].device, a[j].ip)
      PROVE  i \notin a[j].saw /\ (a[i].device # a[j].device \/ a[i].ip # a[j].ip)
  <2>1. i \in 1..n /\ (j \in 1..n \/ j = n + 1)
    BY <1>3, <1>4
  <2>2. CASE j \in 1..n
    BY <1>3, <1>4, <2>1, <2>2 DEF Once
  <2>3. CASE j = n + 1
    <3>1. a[j] = row /\ a[i] = t[i] /\ i \in DOMAIN t
      BY <1>3, <2>1, <2>3
    <3> QED
      BY <1>4, <3>1 DEF Looked
  <2> QED
    BY <2>1, <2>2, <2>3
<1> QED
  BY <1>1, <1>4 DEF Once

LEMMA AsBefore ==
  ASSUME NEW t, NEW u, Once(t), DOMAIN u = DOMAIN t,
         \A i \in DOMAIN t : u[i].device = t[i].device /\ u[i].ip = t[i].ip /\ u[i].saw = t[i].saw
  PROVE  Once(u)
  BY DEF Once, Keys!Same

LEMMA StillLooked ==
  ASSUME NEW t \in Seq(FreeRow), NEW u, NEW row, Looked(row, t), DOMAIN t \subseteq DOMAIN u,
         \A i \in DOMAIN t : u[i].device = t[i].device /\ u[i].ip = t[i].ip
  PROVE  Looked(row, u)
  BY DEF Looked, Keys!Same

LEMMA FreeExecuteKeeps ==
  ASSUME FreeInv, area = "free", NEW r \in KeyThreads, Keys!Execute(r)
  PROVE  FreeInv'
<1>1. /\ doing[r].todo # <<>> /\ UNCHANGED <<durable, default>>
      /\ IF Keys!Raises(r) THEN doing' = [doing EXCEPT ![r] = NoOne] /\ UNCHANGED table
         ELSE /\ table' = Keys!FreeResult(Keys!Statement(r))
              /\ doing' = [doing EXCEPT ![r].todo = Tail(@)]
  BY DEF Keys!Execute, NoOne
<1>2. /\ table \in Seq(FreeRow) /\ durable \in Seq(FreeRow) /\ default \in Nat
      /\ doing \in [KeyThreads -> FreeRequest]
  BY DEF FreeInv, FreeTyped
<1>3. CASE Keys!Raises(r)
  <2>1. /\ doing' \in [KeyThreads -> FreeRequest] /\ doing'[r] = NoOne /\ NoOne.todo = <<>>
        /\ \A s \in KeyThreads \ {r} : doing'[s] = doing[s]
    BY <1>1, <1>2, <1>3, FreeIdle
  <2> QED
    BY <1>1, <1>2, <1>3, <2>1 DEF FreeInv, FreeTyped
<1>4. CASE ~Keys!Raises(r)
  <2>1. PICK z \in FreeRequest : z = doing[r]
    BY <1>2
  <2>2. PICK q \in Seq(FreeStatement) : q = z.todo /\ q # <<>>
    BY <1>1, <2>1 DEF FreeRequest
  <2>3. PICK s \in FreeStatement : s = Keys!Statement(r) /\ s = q[1] /\ 1 \in DOMAIN q
    BY <2>1, <2>2, TailIs DEF Keys!Statement
  <2>4. PICK t : t = Keys!FreeResult(s)
    OBVIOUS
  <2>5. /\ t \in Seq(FreeRow)
        /\ s.do = "insert" => s.row \in FreeRow /\ t = Append(table, s.row)
        /\ s.do # "insert" => /\ DOMAIN t = DOMAIN table
                              /\ \A i \in DOMAIN t : /\ t[i].device = table[i].device /\ t[i].ip = table[i].ip
                                                     /\ t[i].saw = table[i].saw
    BY <1>2, <2>4, FreeResultIs
  <2>6. table' = t
    BY <1>1, <1>4, <2>3, <2>4
  <2>7. DOMAIN table \subseteq DOMAIN t /\ \A i \in DOMAIN table : t[i].device = table[i].device /\ t[i].ip = table[i].ip
    <3>1. CASE s.do = "insert"
      <4>1. PICK row \in FreeRow : t = Append(table, row)
        BY <2>5, <3>1
      <4>2. DOMAIN table \subseteq DOMAIN t /\ \A i \in DOMAIN table : t[i] = table[i]
        BY <1>2, <4>1, AppendIs
      <4> QED
        BY <4>2
    <3>2. CASE s.do # "insert"
      BY <2>5, <3>2
    <3> QED
      BY <3>1, <3>2
  <2>8. Once(t)
    <3>1. CASE s.do = "insert"
      <4>1. Looked(s.row, table)
        BY <2>1, <2>2, <2>3, <3>1 DEF FreeInv
      <4>2. \A i \in DOMAIN table : table[i].device # s.row.device \/ table[i].ip # s.row.ip
        BY <1>4, <2>3, <3>1 DEF Keys!Raises, Keys!CodeTaken, Keys!Rows
      <4> QED
        BY <1>2, <2>5, <3>1, <4>1, <4>2, InsertedOnce DEF FreeInv
    <3>2. CASE s.do # "insert"
      BY <2>5, <3>2, AsBefore DEF FreeInv
    <3> QED
      BY <3>1, <3>2
  <2>9. PICK p \in Seq(FreeStatement) : p = Tail(q)
    BY <2>2, TailIs
  <2>10. \A n \in DOMAIN p : n + 1 \in DOMAIN q /\ p[n] = q[n + 1]
    BY <2>2, <2>9, TailIs
  <2>11. PICK y : y = [z EXCEPT !.todo = p]
    OBVIOUS
  <2>12. y \in FreeRequest /\ y.todo = p
    BY <2>11 DEF FreeRequest
  <2>13. doing' = [doing EXCEPT ![r] = y]
    BY <1>1, <1>2, <1>4, <2>1, <2>2, <2>9, <2>11
  <2>14. /\ doing' \in [KeyThreads -> FreeRequest] /\ doing'[r] = y
         /\ \A o \in KeyThreads \ {r} : doing'[o] = doing[o]
    BY <1>2, <2>12, <2>13
  <2>15. ASSUME NEW o \in KeyThreads, NEW n \in DOMAIN doing'[o].todo, doing'[o].todo[n].do = "insert"
         PROVE  Looked(doing'[o].todo[n].row, t)
    <3>1. \E m \in DOMAIN doing[o].todo : doing[o].todo[m] = doing'[o].todo[n]
      BY <2>1, <2>2, <2>10, <2>12, <2>14
    <3>2. Looked(doing'[o].todo[n].row, table)
      BY <2>15, <3>1 DEF FreeInv
    <3> QED
      BY <1>2, <2>7, <3>2, StillLooked
  <2> QED
    BY <1>1, <1>2, <2>5, <2>6, <2>8, <2>14, <2>15 DEF FreeInv, FreeTyped
<1> QED
  BY <1>3, <1>4

LEMMA FreeKeeps ==
  ASSUME FreeInv, area = "free", Keys!KeysNext
  PROVE  FreeInv'
<1>1. /\ table \in Seq(FreeRow) /\ durable \in Seq(FreeRow) /\ default \in Nat
      /\ doing \in [KeyThreads -> FreeRequest]
  BY DEF FreeInv, FreeTyped
<1>2. CASE Keys!OtherCommit
  BY <1>2 DEF Keys!OtherCommit, FreeInv, FreeTyped
<1>3. CASE Keys!RestartPool
  <2>1. table' = durable /\ durable' = durable /\ default' = 5 /\ doing' = [r \in KeyThreads |-> NoOne]
    BY <1>3 DEF Keys!RestartPool, NoOne
  <2> QED
    BY <1>1, <2>1, FreeIdle DEF FreeInv, FreeTyped
<1>4. ASSUME NEW r \in KeyThreads, Keys!Commit(r) PROVE FreeInv'
  <2>1. durable' = table /\ doing' = [doing EXCEPT ![r] = NoOne] /\ UNCHANGED <<table, default>>
    BY <1>4 DEF Keys!Commit, NoOne
  <2>2. /\ doing' \in [KeyThreads -> FreeRequest] /\ doing'[r] = NoOne /\ NoOne.todo = <<>>
        /\ \A s \in KeyThreads \ {r} : doing'[s] = doing[s]
    BY <1>1, <2>1, FreeIdle
  <2> QED
    BY <1>1, <2>1, <2>2 DEF FreeInv, FreeTyped
<1>5. ASSUME NEW r \in KeyThreads
      PROVE  ~(Keys!Add(r) \/ Keys!SetValue(r) \/ Keys!Upsert(r) \/ Keys!UpdateStat(r)
                 \/ Keys!LookKey(r) \/ Keys!InitEncryption(r) \/ Keys!Encrypt(r))
  <2>1. doing[r].at \in {"idle", "write"}
    BY <1>1 DEF FreeRequest
  <2> QED
    BY <2>1 DEF Keys!Add, Keys!SetValue, Keys!Upsert, Keys!UpdateStat, Keys!LookKey, Keys!InitEncryption, Keys!Encrypt
<1> QED
  BY <1>2, <1>3, <1>4, <1>5, RegisterKeeps, AdjustKeeps, AiCommandKeeps, FreeExecuteKeeps DEF Keys!KeysNext

-----------------------------------------------------------------------------
(* Keys sold.                                                              *)

Models == {"m1", "m2", "bad"}
SoldStatement == [do : {"sell", "factor", "unsell", "nomodels"}, alias : Names] \cup [do : {"factors"}]
                   \cup [do : {"model", "raise"}, alias : Names, model : Models]
SoldRequest == [at : {"idle", "write"}, todo : Seq(SoldStatement), seen : {<<>>},
                sale : {<<>>} \cup Names \X Keys!Lists, then : {""}, secret : {Keys!NoSecret}]
IsSold(t) == t = [keys |-> t.keys, models |-> t.models]
SoldTyped == /\ IsSold(table) /\ IsSold(durable) /\ doing \in [KeyThreads -> SoldRequest]
             /\ promised \subseteq [alias : Names, models : SUBSET Models]
\* SaleKept, of any table.
Whole(t, a, ms) == a \in DOMAIN t.keys /\ \A m \in ms : <<a, m>> \in t.models
Deletes(s, a) == s.do \in {"unsell", "nomodels"} /\ s.alias = a
NoDeletion(who, a) == \A r \in KeyThreads : \A n \in DOMAIN who[r].todo : ~Deletes(who[r].todo[n], a)
\* What a sale still lacks in the table is among the statements of its request.
Sells(s, a) == s.do = "sell" /\ s.alias = a
Lists(s, a, m) == s.do \in {"model", "raise"} /\ s.alias = a /\ s.model = m
Comes(d, t) == /\ d.sale[1] \in DOMAIN t.keys \/ \E n \in DOMAIN d.todo : Sells(d.todo[n], d.sale[1])
               /\ \A k \in DOMAIN d.sale[2] : \/ <<d.sale[1], d.sale[2][k]>> \in t.models
                                              \/ \E n \in DOMAIN d.todo : Lists(d.todo[n], d.sale[1], d.sale[2][k])
SoldInv == /\ SoldTyped
           /\ \A p \in promised : /\ Whole(table, p.alias, p.models) /\ Whole(durable, p.alias, p.models)
                                  /\ NoDeletion(doing, p.alias)
           /\ \A r \in KeyThreads : doing[r].sale # <<>> => NoDeletion(doing, doing[r].sale[1]) /\ Comes(doing[r], table)

LEMMA SoldIdle == NoOne \in SoldRequest /\ NoOne.todo = <<>> /\ NoOne.sale = <<>>
<1>1. <<>> \in Seq(SoldStatement)
  OBVIOUS
<1> QED
  BY <1>1 DEF NoOne, Keys!NoRequest, SoldRequest

LEMMA SaleIs ==
  ASSUME NEW d \in SoldRequest, d.sale # <<>>
  PROVE  d.sale[1] \in Names /\ d.sale[2] \in Keys!Lists
<1>1. d.sale \in Names \X Keys!Lists
  BY DEF SoldRequest
<1> QED
  BY <1>1

LEMMA ListIs == ASSUME NEW list \in Keys!Lists PROVE list \in Seq(Models)
<1>1. <<>> \in Seq(Models)
  OBVIOUS
<1>2. <<"m1">> \in Seq(Models)
  BY DEF Models
<1>3. <<"m1", "m2">> \in Seq(Models)
  BY DEF Models
<1>4. <<"m1", "bad">> \in Seq(Models)
  BY DEF Models
<1> QED
  BY <1>1, <1>2, <1>3, <1>4, Zenon DEF Keys!Lists

\* A request that begins, with a sale or without one, and that deletes nothing.
LEMMA SoldAsks ==
  ASSUME SoldInv, NEW r \in KeyThreads, NEW y \in SoldRequest, doing' = [doing EXCEPT ![r] = y],
         UNCHANGED <<table, durable, promised>>,
         \A n \in DOMAIN y.todo : \A a \in Names : ~Deletes(y.todo[n], a),
         y.sale # <<>> => NoDeletion(doing, y.sale[1]) /\ Comes(y, table)
  PROVE  SoldInv'
<1>1. /\ doing' \in [KeyThreads -> SoldRequest] /\ doing'[r] = y
      /\ \A s \in KeyThreads \ {r} : doing'[s] = doing[s]
  BY DEF SoldInv, SoldTyped
<1>2. ASSUME NEW a \in Names, NoDeletion(doing, a) PROVE NoDeletion(doing', a)
  BY <1>1, <1>2 DEF NoDeletion
<1>3. \A p \in promised : p.alias \in Names /\ NoDeletion(doing, p.alias)
  BY DEF SoldInv, SoldTyped
<1>4. \A p \in promised' : NoDeletion(doing', p.alias)
  BY <1>2, <1>3
<1>5. ASSUME NEW o \in KeyThreads, doing'[o].sale # <<>>
      PROVE  NoDeletion(doing', doing'[o].sale[1]) /\ Comes(doing'[o], table)
  <2>1. NoDeletion(doing, doing'[o].sale[1]) /\ Comes(doing'[o], table)
    BY <1>1, <1>5 DEF SoldInv
  <2>2. PICK d \in SoldRequest : d = doing'[o]
    BY <1>1
  <2>3. PICK a \in Names : a = d.sale[1]
    BY <1>5, <2>2, SaleIs
  <2>4. NoDeletion(doing', a)
    BY <1>2, <2>1, <2>2, <2>3
  <2> QED
    BY <2>1, <2>2, <2>3, <2>4
<1> QED
  BY <1>1, <1>4, <1>5 DEF SoldInv, SoldTyped

LEMMA RowsAre ==
  ASSUME NEW a \in Names, NEW list \in Keys!Lists, NEW q, q = Keys!ModelRows(a, list)
  PROVE  /\ q \in Seq(SoldStatement) /\ DOMAIN q = DOMAIN list
         /\ \A n \in DOMAIN q : Lists(q[n], a, list[n]) /\ q[n].do \in {"model", "raise"}
<1>1. list \in Seq(Models)
  BY ListIs
<1>2. PICK l \in Nat : DOMAIN list = 1..l /\ \A n \in 1..l : list[n] \in Models
  BY <1>1
<1>3. q = [n \in 1..l |-> [do |-> IF list[n] = "bad" THEN "raise" ELSE "model", alias |-> a, model |-> list[n]]]
  BY <1>2 DEF Keys!ModelRows
<1>4. ASSUME NEW n \in 1..l
      PROVE  q[n] \in SoldStatement /\ Lists(q[n], a, list[n]) /\ q[n].do \in {"model", "raise"}
  <2>1. PICK m \in Models : m = list[n]
    BY <1>2
  <2>2. PICK do \in {"model", "raise"} : do = IF m = "bad" THEN "raise" ELSE "model"
    OBVIOUS
  <2>3. q[n] = [do |-> do, alias |-> a, model |-> m]
    BY <1>3, <2>1, <2>2
  <2> QED
    BY <2>1, <2>3 DEF SoldStatement, Lists
<1>5. q \in Seq(SoldStatement)
  BY <1>3, <1>4
<1> QED
  BY <1>2, <1>3, <1>4, <1>5

\* The statements of a sale or of an adjustment: one about the key, then one for each model.
LEMMA SaleTodo ==
  ASSUME NEW a \in Names, NEW list \in Keys!Lists, NEW do \in {"sell", "factor"},
         NEW q, q = <<[do |-> do, alias |-> a]>> \o Keys!ModelRows(a, list)
  PROVE  /\ q \in Seq(SoldStatement) /\ \A n \in DOMAIN q : \A b \in Names : ~Deletes(q[n], b)
         /\ do = "sell" => \E n \in DOMAIN q : Sells(q[n], a)
         /\ \A k \in DOMAIN list : \E n \in DOMAIN q : Lists(q[n], a, list[k])
<1>1. PICK rest : rest = Keys!ModelRows(a, list)
  OBVIOUS
<1>2. /\ rest \in Seq(SoldStatement) /\ DOMAIN rest = DOMAIN list
      /\ \A n \in DOMAIN rest : Lists(rest[n], a, list[n]) /\ rest[n].do \in {"model", "raise"}
  BY <1>1, RowsAre
<1>3. PICK s : s = [do |-> do, alias |-> a]
  OBVIOUS
<1>4. s \in SoldStatement /\ s.do = do /\ s.alias = a
  BY <1>3 DEF SoldStatement
<1>5. q = <<s>> \o rest
  BY <1>1, <1>3
<1>6. /\ q \in Seq(SoldStatement) /\ q[1] = s /\ 1 \in DOMAIN q
      /\ \A n \in DOMAIN rest : n + 1 \in DOMAIN q /\ q[n + 1] = rest[n]
      /\ \A n \in DOMAIN q : q[n] = s \/ \E m \in DOMAIN rest : q[n] = rest[m]
  <2>1. PICK k : k = <<s>> \o rest
    OBVIOUS
  <2>2. /\ k \in Seq(SoldStatement) /\ k[1] = s /\ 1 \in DOMAIN k
        /\ \A n \in DOMAIN rest : n + 1 \in DOMAIN k /\ k[n + 1] = rest[n]
        /\ \A n \in DOMAIN k : k[n] = s \/ \E m \in DOMAIN rest : k[n] = rest[m]
    <3>1. s \in SoldStatement /\ rest \in Seq(SoldStatement)
      BY <1>2, <1>4
    <3> QED
      BY <2>1, <3>1, FirstIs
  <2>3. k = q
    BY <1>5, <2>1
  <2> QED
    BY <2>2, <2>3
<1>7. \A n \in DOMAIN q : \A b \in Names : ~Deletes(q[n], b)
  <2>1. \A b \in Names : ~Deletes(s, b) /\ \A m \in DOMAIN rest : ~Deletes(rest[m], b)
    BY <1>2, <1>4 DEF Deletes
  <2> QED
    BY <1>6, <2>1
<1>8. do = "sell" => \E n \in DOMAIN q : Sells(q[n], a)
  BY <1>4, <1>6 DEF Sells
<1>9. \A k \in DOMAIN list : \E n \in DOMAIN q : Lists(q[n], a, list[k])
  <2> SUFFICES ASSUME NEW k \in DOMAIN list PROVE \E n \in DOMAIN q : Lists(q[n], a, list[k])
    OBVIOUS
  <2>1. k + 1 \in DOMAIN q /\ Lists(q[k + 1], a, list[k])
    BY <1>2, <1>6
  <2> QED
    BY <2>1
<1> QED
  BY <1>6, <1>7, <1>8, <1>9

LEMMA AddSoldKeeps ==
  ASSUME SoldInv, NEW r \in KeyThreads, NEW a \in Names, Keys!AddSold(r, a)
  PROVE  SoldInv'
<1>1. PICK list \in Keys!Lists :
        /\ doing' = [doing EXCEPT ![r] = [Keys!NoRequest EXCEPT !.at = "write",
                       !.sale = IF Keys!Deleting(a) THEN <<>> ELSE <<a, list>>,
                       !.todo = <<[do |-> "sell", alias |-> a]>> \o Keys!ModelRows(a, list)]]
        /\ UNCHANGED <<table, durable, promised>>
  BY DEF Keys!AddSold
<1>2. PICK q \in Seq(SoldStatement) :
        /\ q = <<[do |-> "sell", alias |-> a]>> \o Keys!ModelRows(a, list)
        /\ \A n \in DOMAIN q : \A b \in Names : ~Deletes(q[n], b)
        /\ \E n \in DOMAIN q : Sells(q[n], a)
        /\ \A k \in DOMAIN list : \E n \in DOMAIN q : Lists(q[n], a, list[k])
  BY SaleTodo
<1>3. PICK sl \in {<<>>} \cup Names \X Keys!Lists : sl = IF Keys!Deleting(a) THEN <<>> ELSE <<a, list>>
  OBVIOUS
<1>4. PICK z \in SoldRequest : z = Keys!NoRequest
  BY SoldIdle DEF NoOne
<1>5. PICK y : y = [z EXCEPT !.at = "write", !.sale = sl, !.todo = q]
  OBVIOUS
<1>6. y \in SoldRequest /\ y.sale = sl /\ y.todo = q
  BY <1>5 DEF SoldRequest
<1>7. doing' = [doing EXCEPT ![r] = y]
  BY <1>1, <1>2, <1>3, <1>4, <1>5
<1>8. y.sale # <<>> => NoDeletion(doing, y.sale[1]) /\ Comes(y, table)
  <2> SUFFICES ASSUME sl # <<>> PROVE NoDeletion(doing, sl[1]) /\ Comes(y, table)
    BY <1>6
  <2>1. ~Keys!Deleting(a) /\ sl = <<a, list>> /\ sl[1] = a /\ sl[2] = list
    BY <1>3
  <2>2. NoDeletion(doing, a)
    BY <2>1 DEF NoDeletion, Deletes, Keys!Deleting
  <2>3. Comes(y, table)
    BY <1>2, <1>6, <2>1 DEF Comes
  <2> QED
    BY <2>1, <2>2, <2>3
<1> QED
  BY <1>1, <1>2, <1>6, <1>7, <1>8, SoldAsks

\* A request that begins and sells nothing.
LEMMA SoldRequests ==
  ASSUME SoldInv, NEW r \in KeyThreads, NEW q \in Seq(SoldStatement), Keys!Request(r, q, <<>>),
         UNCHANGED <<table, durable, promised>>, \A n \in DOMAIN q : \A a \in Names : ~Deletes(q[n], a)
  PROVE  SoldInv'
<1>1. PICK z \in SoldRequest : z = Keys!NoRequest /\ z.sale = <<>>
  BY SoldIdle DEF NoOne
<1>2. PICK y : y = [z EXCEPT !.at = "write", !.todo = q, !.seen = <<>>]
  OBVIOUS
<1>3. y \in SoldRequest /\ y.sale = <<>> /\ y.todo = q
  BY <1>1, <1>2 DEF SoldRequest
<1>4. doing' = [doing EXCEPT ![r] = y]
  BY <1>1, <1>2 DEF Keys!Request
<1> QED
  BY <1>3, <1>4, SoldAsks

LEMMA AdjustSoldKeeps ==
  ASSUME SoldInv, NEW r \in KeyThreads, NEW a \in Names, Keys!AdjustSold(r, a)
  PROVE  SoldInv'
<1>1. PICK list \in Keys!Lists :
        /\ Keys!Request(r, <<[do |-> "factor", alias |-> a]>> \o Keys!ModelRows(a, list), <<>>)
        /\ UNCHANGED <<table, durable, promised>>
  BY DEF Keys!AdjustSold
<1>2. PICK q \in Seq(SoldStatement) :
        /\ q = <<[do |-> "factor", alias |-> a]>> \o Keys!ModelRows(a, list)
        /\ \A n \in DOMAIN q : \A b \in Names : ~Deletes(q[n], b)
  BY SaleTodo
<1> QED
  BY <1>1, <1>2, SoldRequests

LEMMA BatchMultKeeps ==
  ASSUME SoldInv, NEW r \in KeyThreads, Keys!BatchMult(r)
  PROVE  SoldInv'
<1>1. Keys!Request(r, <<[do |-> "factors"]>>, <<>>) /\ UNCHANGED <<table, durable, promised>>
  BY DEF Keys!BatchMult
<1>2. PICK s : s = [do |-> "factors"]
  OBVIOUS
<1>3. s \in SoldStatement /\ \A a \in Names : ~Deletes(s, a)
  BY <1>2 DEF SoldStatement, Deletes
<1>4. PICK q : q = <<s>>
  OBVIOUS
<1>5. q \in Seq(SoldStatement) /\ \A n \in DOMAIN q : q[n] = s
  BY <1>3, <1>4
<1> QED
  BY <1>1, <1>2, <1>3, <1>4, <1>5, SoldRequests

\* Deleting a key ends every promise about it and the promise that a request under way would make.
LEMMA DeleteSoldKeeps ==
  ASSUME SoldInv, NEW r \in KeyThreads, NEW a \in Names, Keys!DeleteSold(r, a)
  PROVE  SoldInv'
<1>1. PICK z \in SoldRequest : z = Keys!NoRequest /\ z.sale = <<>>
  BY SoldIdle DEF NoOne
<1>2. PICK q : q = <<[do |-> "unsell", alias |-> a], [do |-> "nomodels", alias |-> a]>>
  OBVIOUS
<1>3. q \in Seq(SoldStatement) /\ \A n \in DOMAIN q : \A b \in Names : b # a => ~Deletes(q[n], b)
  <2>1. PICK s \in SoldStatement : s = [do |-> "unsell", alias |-> a]
    BY DEF SoldStatement
  <2>2. PICK u \in SoldStatement : u = [do |-> "nomodels", alias |-> a]
    BY DEF SoldStatement
  <2>3. q = <<s, u>>
    BY <1>2, <2>1, <2>2
  <2>4. q \in Seq(SoldStatement) /\ \A n \in DOMAIN q : q[n] = s \/ q[n] = u
    BY <2>3
  <2>5. \A b \in Names : b # a => ~Deletes(s, b) /\ ~Deletes(u, b)
    BY <2>1, <2>2 DEF Deletes
  <2> QED
    BY <2>4, <2>5
<1>4. PICK y : y = [z EXCEPT !.at = "write", !.todo = q]
  OBVIOUS
<1>5. y \in SoldRequest /\ y.sale = <<>> /\ y.todo = q
  BY <1>1, <1>3, <1>4 DEF SoldRequest
<1>6. /\ doing' = [o \in KeyThreads |-> IF o # r THEN Keys!SaleOff(doing[o], a) ELSE y]
      /\ promised' = {p \in promised : p.alias # a} /\ UNCHANGED <<table, durable>>
  BY <1>1, <1>2, <1>4 DEF Keys!DeleteSold
<1>7. doing'[r] = y
  BY <1>6
<1>8. ASSUME NEW o \in KeyThreads, o # r
      PROVE  /\ doing'[o] \in SoldRequest /\ doing'[o].todo = doing[o].todo
             /\ doing'[o].sale # <<>> => doing'[o] = doing[o] /\ doing[o].sale[1] # a
  <2>1. PICK d \in SoldRequest : d = doing[o]
    BY DEF SoldInv, SoldTyped
  <2>2. doing'[o] = Keys!SaleOff(d, a)
    BY <1>6, <1>8, <2>1
  <2>3. CASE d.sale # <<>> /\ d.sale[1] = a
    <3>1. PICK e : e = [d EXCEPT !.sale = <<>>]
      OBVIOUS
    <3>2. e \in SoldRequest /\ e.todo = d.todo /\ e.sale = <<>>
      BY <3>1 DEF SoldRequest
    <3> QED
      BY <2>1, <2>2, <2>3, <3>1, <3>2 DEF Keys!SaleOff
  <2>4. CASE ~(d.sale # <<>> /\ d.sale[1] = a)
    BY <2>1, <2>2, <2>4 DEF Keys!SaleOff
  <2> QED
    BY <2>3, <2>4
<1>9. doing' \in [KeyThreads -> SoldRequest]
  BY <1>5, <1>6, <1>7, <1>8
<1>10. ASSUME NEW b \in Names, b # a, NoDeletion(doing, b) PROVE NoDeletion(doing', b)
  <2> SUFFICES ASSUME NEW o \in KeyThreads, NEW n \in DOMAIN doing'[o].todo PROVE ~Deletes(doing'[o].todo[n], b)
    BY DEF NoDeletion
  <2>1. CASE o = r
    BY <1>3, <1>5, <1>7, <1>10, <2>1
  <2>2. CASE o # r
    BY <1>8, <1>10, <2>2 DEF NoDeletion
  <2> QED
    BY <2>1, <2>2
<1>11. \A p \in promised' : p.alias \in Names /\ p.alias # a /\ p \in promised
  BY <1>6 DEF SoldInv, SoldTyped
<1>12. \A p \in promised' : NoDeletion(doing', p.alias)
  BY <1>10, <1>11 DEF SoldInv
<1>13. ASSUME NEW o \in KeyThreads, doing'[o].sale # <<>>
       PROVE  NoDeletion(doing', doing'[o].sale[1]) /\ Comes(doing'[o], table)
  <2>1. o # r /\ doing'[o] = doing[o] /\ doing[o].sale[1] # a
    BY <1>5, <1>7, <1>8, <1>13
  <2>2. NoDeletion(doing, doing[o].sale[1]) /\ Comes(doing[o], table)
    BY <1>13, <2>1 DEF SoldInv
  <2>3. doing[o].sale[1] \in Names
    BY <1>9, <1>13, <2>1, SaleIs
  <2> QED
    BY <1>10, <2>1, <2>2, <2>3
<1> QED
  BY <1>6, <1>9, <1>11, <1>12, <1>13 DEF SoldInv, SoldTyped

\* What a statement leaves of the table.
LEMMA SoldResultIs ==
  ASSUME NEW s \in SoldStatement, IsSold(table), s.do # "raise", NEW t, t = Keys!SoldResult(s)
  PROVE  /\ IsSold(t)
         /\ \A a : ~Deletes(s, a) /\ a \in DOMAIN table.keys => a \in DOMAIN t.keys
         /\ \A a, m : ~Deletes(s, a) /\ <<a, m>> \in table.models => <<a, m>> \in t.models
         /\ s.do = "sell" => s.alias \in DOMAIN t.keys
         /\ s.do = "model" => <<s.alias, s.model>> \in t.models
<1>1. PICK k, ms : table = [keys |-> k, models |-> ms]
  BY DEF IsSold
<1>2. table.keys = k /\ table.models = ms
  BY <1>1
<1>3. CASE s.do = "sell"
  <2>1. t = [keys |-> Keys!Put(k, s.alias, 1), models |-> ms]
    BY <1>1, <1>3 DEF Keys!SoldResult
  <2>2. DOMAIN Keys!Put(k, s.alias, 1) = DOMAIN k \cup {s.alias}
    BY DEF Keys!Put
  <2> QED
    BY <1>2, <1>3, <2>1, <2>2 DEF IsSold
<1>4. CASE s.do = "factor"
  <2>1. PICK f : f = [b \in DOMAIN k |-> IF b = s.alias THEN 2 ELSE k[b]]
    OBVIOUS
  <2>2. t = [keys |-> f, models |-> ms] /\ DOMAIN f = DOMAIN k
    BY <1>1, <1>4, <2>1 DEF Keys!SoldResult
  <2> QED
    BY <1>2, <1>4, <2>2 DEF IsSold
<1>5. CASE s.do = "factors"
  <2>1. PICK f : f = [b \in DOMAIN k |-> 2]
    OBVIOUS
  <2>2. t = [keys |-> f, models |-> ms] /\ DOMAIN f = DOMAIN k
    BY <1>1, <1>5, <2>1 DEF Keys!SoldResult
  <2> QED
    BY <1>2, <1>5, <2>2 DEF IsSold
<1>6. CASE s.do = "model"
  <2>1. t = [keys |-> k, models |-> ms \cup {<<s.alias, s.model>>}]
    BY <1>1, <1>6 DEF Keys!SoldResult
  <2> QED
    BY <1>2, <1>6, <2>1 DEF IsSold
<1>7. CASE s.do = "unsell"
  <2>1. t = [keys |-> Keys!Minus(k, s.alias), models |-> ms]
    BY <1>1, <1>7 DEF Keys!SoldResult
  <2>2. DOMAIN Keys!Minus(k, s.alias) = DOMAIN k \ {s.alias}
    BY DEF Keys!Minus
  <2> QED
    BY <1>2, <1>7, <2>1, <2>2 DEF IsSold, Deletes
<1>8. CASE s.do = "nomodels"
  <2>1. t = [keys |-> k, models |-> {m \in ms : m[1] # s.alias}]
    BY <1>1, <1>8 DEF Keys!SoldResult
  <2> QED
    BY <1>2, <1>8, <2>1 DEF IsSold, Deletes
<1>9. s.do \in {"sell", "factor", "factors", "model", "unsell", "nomodels"}
  BY DEF SoldStatement
<1> QED
  BY <1>3, <1>4, <1>5, <1>6, <1>7, <1>8, <1>9

\* A request that ends without a commit.
LEMMA SoldEnds ==
  ASSUME SoldInv, NEW r \in KeyThreads, doing' = [doing EXCEPT ![r] = NoOne], UNCHANGED <<table, durable, promised>>
  PROVE  SoldInv'
<1>1. NoOne \in SoldRequest /\ NoOne.todo = <<>> /\ NoOne.sale = <<>>
  BY SoldIdle
<1>2. \A n \in DOMAIN NoOne.todo : \A a \in Names : ~Deletes(NoOne.todo[n], a)
  BY <1>1
<1> QED
  BY <1>1, <1>2, SoldAsks

LEMMA SoldExecuteKeeps ==
  ASSUME SoldInv, area = "sold", NEW r \in KeyThreads, Keys!Execute(r)
  PROVE  SoldInv'
<1>1. /\ doing[r].todo # <<>> /\ UNCHANGED <<durable, promised>>
      /\ IF Keys!Raises(r) THEN doing' = [doing EXCEPT ![r] = NoOne] /\ UNCHANGED table
         ELSE /\ table' = Keys!SoldResult(Keys!Statement(r))
              /\ doing' = [doing EXCEPT ![r].todo = Tail(@)]
  BY DEF Keys!Execute, NoOne
<1>2. IsSold(table) /\ doing \in [KeyThreads -> SoldRequest] /\ promised \subseteq [alias : Names, models : SUBSET Models]
  BY DEF SoldInv, SoldTyped
<1>3. CASE Keys!Raises(r)
  BY <1>1, <1>3, SoldEnds
<1>4. CASE ~Keys!Raises(r)
  <2>1. PICK z \in SoldRequest : z = doing[r]
    BY <1>2
  <2>2. PICK q \in Seq(SoldStatement) : q = z.todo /\ q # <<>>
    BY <1>1, <2>1 DEF SoldRequest
  <2>3. PICK s \in SoldStatement : s = Keys!Statement(r) /\ s = q[1] /\ 1 \in DOMAIN q
    BY <2>1, <2>2, TailIs DEF Keys!Statement
  <2>4. PICK t : t = Keys!SoldResult(s) /\ t = table'
    BY <1>1, <1>4, <2>3
  <2>5. s.do # "raise"
    BY <1>4, <2>3 DEF Keys!Raises
  <2>6. /\ IsSold(t)
        /\ \A a : ~Deletes(s, a) /\ a \in DOMAIN table.keys => a \in DOMAIN t.keys
        /\ \A a, m : ~Deletes(s, a) /\ <<a, m>> \in table.models => <<a, m>> \in t.models
        /\ s.do = "sell" => s.alias \in DOMAIN t.keys
        /\ s.do = "model" => <<s.alias, s.model>> \in t.models
    BY <1>2, <2>4, <2>5, SoldResultIs
  <2>7. PICK p \in Seq(SoldStatement) :
          /\ p = Tail(q) /\ \A n \in DOMAIN p : n + 1 \in DOMAIN q /\ p[n] = q[n + 1]
          /\ \A n \in DOMAIN q : n = 1 \/ \E m \in DOMAIN p : p[m] = q[n]
    <3>1. PICK p \in Seq(SoldStatement) : p = Tail(q)
      BY <2>2, TailIs
    <3>2. /\ \A n \in DOMAIN p : n + 1 \in DOMAIN q /\ p[n] = q[n + 1]
          /\ \A n \in DOMAIN q : n # 1 => n - 1 \in DOMAIN p /\ p[n - 1] = q[n]
      BY <2>2, <3>1, TailIs
    <3> QED
      BY <3>1, <3>2, Zenon
  <2>8. PICK y : y = [z EXCEPT !.todo = p]
    OBVIOUS
  <2>9. y \in SoldRequest /\ y.todo = p /\ y.sale = z.sale
    BY <2>8 DEF SoldRequest
  <2>10. doing' = [doing EXCEPT ![r] = y]
    BY <1>1, <1>2, <1>4, <2>1, <2>2, <2>7, <2>8
  <2>11. /\ doing' \in [KeyThreads -> SoldRequest] /\ doing'[r] = y
         /\ \A o \in KeyThreads \ {r} : doing'[o] = doing[o]
    BY <1>2, <2>9, <2>10
  <2>12. ASSUME NEW a, NoDeletion(doing, a) PROVE NoDeletion(doing', a) /\ ~Deletes(s, a)
    <3>1. ~Deletes(s, a)
      BY <2>1, <2>2, <2>3, <2>12 DEF NoDeletion
    <3>2. ASSUME NEW o \in KeyThreads, NEW n \in DOMAIN doing'[o].todo
          PROVE  \E m \in DOMAIN doing[o].todo : doing[o].todo[m] = doing'[o].todo[n]
      <4>1. CASE o = r
        <5>1. n \in DOMAIN p /\ doing'[o].todo[n] = p[n] /\ doing[o].todo = q
          BY <2>1, <2>2, <2>9, <2>11, <4>1
        <5>2. n + 1 \in DOMAIN q /\ q[n + 1] = p[n]
          BY <2>7, <5>1
        <5>3. n + 1 \in DOMAIN doing[o].todo /\ doing[o].todo[n + 1] = doing'[o].todo[n]
          BY <5>1, <5>2
        <5> QED
          BY <5>3
      <4>2. CASE o # r
        BY <2>11, <4>2
      <4> QED
        BY <4>1, <4>2
    <3> QED
      BY <2>12, <3>1, <3>2 DEF NoDeletion
  <2>13. ASSUME NEW a, NEW ms, NoDeletion(doing, a), Whole(table, a, ms) PROVE Whole(t, a, ms)
    BY <2>6, <2>12, <2>13 DEF Whole
  <2>14. ASSUME NEW o \in KeyThreads, doing'[o].sale # <<>>
         PROVE  NoDeletion(doing', doing'[o].sale[1]) /\ Comes(doing'[o], t)
    <3>1. doing'[o].sale = doing[o].sale
      BY <2>1, <2>9, <2>11
    <3>2. PICK a : a = doing[o].sale[1]
      OBVIOUS
    <3>3. PICK list : list = doing[o].sale[2]
      OBVIOUS
    <3>4. NoDeletion(doing, a) /\ Comes(doing[o], table)
      BY <2>14, <3>1, <3>2 DEF SoldInv
    <3>5. NoDeletion(doing', a) /\ ~Deletes(s, a)
      BY <2>12, <3>4
    <3>6. \A n \in DOMAIN doing[o].todo :
            doing[o].todo[n] = s \/ \E m \in DOMAIN doing'[o].todo : doing'[o].todo[m] = doing[o].todo[n]
      <4>1. CASE o = r
        <5>1. doing'[o].todo = p /\ doing[o].todo = q
          BY <2>1, <2>2, <2>9, <2>11, <4>1
        <5>2. \A n \in DOMAIN q : q[n] = s \/ \E m \in DOMAIN p : p[m] = q[n]
          BY <2>3, <2>7, Zenon
        <5> QED
          BY <5>1, <5>2
      <4>2. CASE o # r
        BY <2>11, <4>2
      <4> QED
        BY <4>1, <4>2
    <3>7. a \in DOMAIN t.keys \/ \E n \in DOMAIN doing'[o].todo : Sells(doing'[o].todo[n], a)
      <4>1. CASE a \in DOMAIN table.keys
        BY <2>6, <3>5, <4>1
      <4>2. ASSUME NEW n \in DOMAIN doing[o].todo, Sells(doing[o].todo[n], a)
            PROVE  a \in DOMAIN t.keys \/ \E m \in DOMAIN doing'[o].todo : Sells(doing'[o].todo[m], a)
        BY <2>6, <3>6, <4>2 DEF Sells
      <4> QED
        BY <3>2, <3>4, <4>1, <4>2 DEF Comes
    <3>8. ASSUME NEW k \in DOMAIN list
          PROVE  <<a, list[k]>> \in t.models \/ \E n \in DOMAIN doing'[o].todo : Lists(doing'[o].todo[n], a, list[k])
      <4>1. CASE <<a, list[k]>> \in table.models
        BY <2>6, <3>5, <4>1
      <4>2. ASSUME NEW n \in DOMAIN doing[o].todo, Lists(doing[o].todo[n], a, list[k])
            PROVE  <<a, list[k]>> \in t.models \/ \E m \in DOMAIN doing'[o].todo : Lists(doing'[o].todo[m], a, list[k])
        BY <2>5, <2>6, <3>6, <4>2 DEF Lists
      <4> QED
        BY <3>2, <3>3, <3>4, <4>1, <4>2 DEF Comes
    <3> QED
      BY <3>1, <3>2, <3>3, <3>5, <3>7, <3>8 DEF Comes
  <2>15. \A p1 \in promised : /\ Whole(t, p1.alias, p1.models) /\ Whole(durable, p1.alias, p1.models)
                              /\ NoDeletion(doing', p1.alias)
    BY <2>12, <2>13 DEF SoldInv
  <2> QED
    BY <1>1, <1>2, <2>4, <2>6, <2>11, <2>14, <2>15 DEF SoldInv, SoldTyped
<1> QED
  BY <1>3, <1>4

LEMMA SoldCommitKeeps ==
  ASSUME SoldInv, NEW r \in KeyThreads, Keys!Commit(r)
  PROVE  SoldInv'
<1>1. /\ doing[r].todo = <<>> /\ durable' = table /\ promised' = promised \cup Keys!Answer(r)
      /\ doing' = [doing EXCEPT ![r] = NoOne] /\ UNCHANGED table
  BY DEF Keys!Commit, NoOne
<1>2. IsSold(table) /\ doing \in [KeyThreads -> SoldRequest] /\ promised \subseteq [alias : Names, models : SUBSET Models]
  BY DEF SoldInv, SoldTyped
<1>3. /\ doing' \in [KeyThreads -> SoldRequest] /\ doing'[r] = NoOne /\ NoOne.todo = <<>> /\ NoOne.sale = <<>>
      /\ \A o \in KeyThreads \ {r} : doing'[o] = doing[o]
  BY <1>1, <1>2, SoldIdle
<1>4. ASSUME NEW a, NoDeletion(doing, a) PROVE NoDeletion(doing', a)
  BY <1>3, <1>4 DEF NoDeletion
<1>5. ASSUME NEW p \in Keys!Answer(r)
      PROVE  p \in [alias : Names, models : SUBSET Models] /\ Whole(table, p.alias, p.models) /\ NoDeletion(doing, p.alias)
  <2>1. PICK d \in SoldRequest : d = doing[r]
    BY <1>2
  <2>2. d.sale # <<>>
    BY <1>5, <2>1 DEF Keys!Answer
  <2>3. PICK a \in Names : a = d.sale[1]
    BY <2>2, SaleIs
  <2>4. PICK list \in Keys!Lists : list = d.sale[2]
    BY <2>2, SaleIs
  <2>5. list \in Seq(Models)
    BY ListIs
  <2>6. PICK ms \in SUBSET Models : ms = {list[n] : n \in DOMAIN list}
    <3>1. \A n \in DOMAIN list : list[n] \in Models
      BY <2>5
    <3>2. {list[n] : n \in DOMAIN list} \in SUBSET Models
      BY <3>1
    <3> QED
      BY <3>2, Zenon
  <2>7. p = [alias |-> a, models |-> ms]
    BY <1>5, <2>1, <2>2, <2>3, <2>4, <2>6 DEF Keys!Answer
  <2>8. NoDeletion(doing, a) /\ Comes(d, table)
    BY <2>1, <2>2, <2>3 DEF SoldInv
  <2>9. d.todo = <<>>
    BY <1>1, <2>1
  <2>10. a \in DOMAIN table.keys /\ \A k \in DOMAIN list : <<a, list[k]>> \in table.models
    BY <2>3, <2>4, <2>8, <2>9 DEF Comes
  <2> QED
    BY <2>6, <2>7, <2>8, <2>10 DEF Whole
<1>6. \A p \in promised' : /\ p \in [alias : Names, models : SUBSET Models] /\ Whole(table, p.alias, p.models)
                           /\ NoDeletion(doing', p.alias)
  BY <1>1, <1>2, <1>4, <1>5 DEF SoldInv
<1>7. \A o \in KeyThreads : doing'[o].sale # <<>> => NoDeletion(doing', doing'[o].sale[1]) /\ Comes(doing'[o], table)
  BY <1>3, <1>4 DEF SoldInv
<1> QED
  BY <1>1, <1>2, <1>3, <1>6, <1>7 DEF SoldInv, SoldTyped

LEMMA SoldKeeps ==
  ASSUME SoldInv, area = "sold", Keys!KeysNext
  PROVE  SoldInv'
<1>1. IsSold(table) /\ IsSold(durable) /\ doing \in [KeyThreads -> SoldRequest]
  BY DEF SoldInv, SoldTyped
<1>2. CASE Keys!OtherCommit
  BY <1>2 DEF Keys!OtherCommit, SoldInv, SoldTyped
<1>3. CASE Keys!RestartPool
  <2>1. table' = durable /\ durable' = durable /\ doing' = [r \in KeyThreads |-> NoOne] /\ promised' = promised
    BY <1>3 DEF Keys!RestartPool, NoOne
  <2>2. doing' \in [KeyThreads -> SoldRequest] /\ \A r \in KeyThreads : doing'[r].todo = <<>> /\ doing'[r].sale = <<>>
    BY <2>1, SoldIdle
  <2>3. \A a : NoDeletion(doing', a)
    BY <2>2 DEF NoDeletion
  <2> QED
    BY <1>1, <2>1, <2>2, <2>3 DEF SoldInv, SoldTyped
<1>4. ASSUME NEW r \in KeyThreads
      PROVE  ~(Keys!Add(r) \/ Keys!SetValue(r) \/ Keys!Upsert(r) \/ Keys!UpdateStat(r)
                 \/ Keys!LookKey(r) \/ Keys!InitEncryption(r) \/ Keys!Encrypt(r))
  <2>1. doing[r].at \in {"idle", "write"}
    BY <1>1 DEF SoldRequest
  <2> QED
    BY <2>1 DEF Keys!Add, Keys!SetValue, Keys!Upsert, Keys!UpdateStat, Keys!LookKey, Keys!InitEncryption, Keys!Encrypt
<1> QED
  BY <1>2, <1>3, <1>4, AddSoldKeeps, AdjustSoldKeeps, BatchMultKeeps, DeleteSoldKeeps, SoldExecuteKeeps, SoldCommitKeeps
     DEF Keys!KeysNext

-----------------------------------------------------------------------------
(* Accounts.                                                               *)

UsersInv == /\ ops.asked \in Nat /\ ops = [asked |-> ops.asked, boots |-> ops.boots]
            /\ doing = [r \in KeyThreads |-> NoOne] /\ durable = table
            /\ \A u \in DOMAIN table : table[u].token \in Nat /\ table[u].token <= ops.asked
            /\ \A u, v \in DOMAIN table : table[u].token = table[v].token => u = v
            /\ \A p \in promised : p.user \in DOMAIN table /\ table[p.user] = p.account

LEMMA UsersKeep ==
  ASSUME UsersInv, area = "users", Keys!KeysNext
  PROVE  UsersInv'
<1>0. PICK n \in Nat : \E m : ops = [asked |-> n, boots |-> m]
  BY DEF UsersInv
<1>1. PICK m : ops = [asked |-> n, boots |-> m]
  BY <1>0
<1>2. ops.asked = n
  BY <1>1
<1>3. \A r \in KeyThreads : doing[r] = NoOne
  BY DEF UsersInv
<1>4. NoOne.at = "idle"
  BY DEF NoOne, Keys!NoRequest
<1>5. CASE Keys!OtherCommit
  BY <1>5 DEF Keys!OtherCommit, UsersInv
<1>6. CASE Keys!RestartPool
  <2>1. table' = durable /\ durable' = durable /\ doing' = [r \in KeyThreads |-> NoOne] /\ promised' = promised
    BY <1>6 DEF Keys!RestartPool, NoOne
  <2>2. ops' = [ops EXCEPT !.boots = @ + 1]
    BY <1>6 DEF Keys!RestartPool
  <2>3. ops' = [asked |-> n, boots |-> m + 1]
    BY <1>1, <2>2
  <2>4. ops'.asked = n /\ ops' = [asked |-> ops'.asked, boots |-> ops'.boots]
    BY <2>3
  <2> QED
    BY <1>2, <2>1, <2>4 DEF UsersInv
<1>7. ASSUME NEW r \in KeyThreads, NEW u \in Names, Keys!RegisterUser(r, u) PROVE UsersInv'
  <2>1. PICK password \in 1..2 :
          /\ Keys!Asks(r) /\ UNCHANGED doing
          /\ IF u \in DOMAIN table THEN UNCHANGED <<table, durable, promised>>
             ELSE /\ table' = Keys!Put(table, u, Keys!Account(password)) /\ durable' = table'
                  /\ promised' = promised \cup {[user |-> u, account |-> Keys!Account(password)]}
    BY <1>7 DEF Keys!RegisterUser
  <2>2. ops' = [asked |-> n + 1, boots |-> m]
    BY <1>1, <2>1 DEF Keys!Asks
  <2>3. ops'.asked = n + 1 /\ ops' = [asked |-> ops'.asked, boots |-> ops'.boots]
    BY <2>2
  <2>4. CASE u \in DOMAIN table
    BY <1>2, <2>1, <2>3, <2>4 DEF UsersInv
  <2>5. CASE u \notin DOMAIN table
    <3>1. PICK new : new = Keys!Account(password)
      OBVIOUS
    <3>2. new.token = n + 1
      BY <1>2, <3>1 DEF Keys!Account
    <3>3. table' = Keys!Put(table, u, new) /\ durable' = table' /\ promised' = promised \cup {[user |-> u, account |-> new]}
      BY <2>1, <2>5, <3>1
    <3>4. DOMAIN table' = DOMAIN table \cup {u} /\ table'[u] = new /\ \A v \in DOMAIN table : table'[v] = table[v]
      BY <2>5, <3>3 DEF Keys!Put
    <3>5. \A v \in DOMAIN table : table[v].token \in Nat /\ table[v].token <= n
      BY <1>2 DEF UsersInv
    <3>6. \A v \in DOMAIN table' : table'[v].token \in Nat /\ table'[v].token <= n + 1
      BY <3>2, <3>4, <3>5
    <3>7. ASSUME NEW v \in DOMAIN table', NEW w \in DOMAIN table', table'[v].token = table'[w].token PROVE v = w
      <4>1. \A x \in DOMAIN table : table[x].token # n + 1
        BY <3>5
      <4> QED
        BY <3>2, <3>4, <3>7, <4>1 DEF UsersInv
    <3>8. ASSUME NEW p \in promised' PROVE p.user \in DOMAIN table' /\ table'[p.user] = p.account
      <4>1. CASE p \in promised
        BY <3>4, <4>1 DEF UsersInv
      <4>2. CASE p = [user |-> u, account |-> new]
        BY <3>4, <4>2
      <4> QED
        BY <3>3, <4>1, <4>2
    <3> QED
      BY <2>1, <2>3, <3>3, <3>6, <3>7, <3>8 DEF UsersInv
  <2> QED
    BY <2>4, <2>5
<1>8. ASSUME NEW r \in KeyThreads
      PROVE  ~(Keys!Execute(r) \/ Keys!Commit(r) \/ Keys!Add(r) \/ Keys!SetValue(r) \/ Keys!Upsert(r)
                 \/ Keys!UpdateStat(r) \/ Keys!LookKey(r) \/ Keys!InitEncryption(r) \/ Keys!Encrypt(r))
  <2>1. doing[r].at = "idle"
    BY <1>3, <1>4
  <2> QED
    BY <2>1 DEF Keys!Execute, Keys!Commit, Keys!Add, Keys!SetValue, Keys!Upsert, Keys!UpdateStat, Keys!LookKey,
                Keys!InitEncryption, Keys!Encrypt
<1> QED
  BY <1>5, <1>6, <1>7, <1>8 DEF Keys!KeysNext

-----------------------------------------------------------------------------
(* Providers' keys and the encryption key.                                 *)

Secret == [key : Nat, sure : BOOLEAN]
Stages == {"idle", "look", "draw", "cipher", "add", "set", "upsert", "call", ""}
\* A key that is there stays until the process restarts, if nobody is about to draw another.
Settled(v, who) == v.key # 0 /\ \A r \in KeyThreads : who[r].at # "draw"
Good(s, v, who) == /\ s \in Secret
                   /\ v.env = "set" => s.key \in {0, 1}
                   /\ s.sure => Settled(v, who) /\ s.key = v.key
Vaults == [env : {"set", "unset", "required"}, key : Nat, drawn : Nat]
HasSecret(row) == {"id", "secret"} \subseteq DOMAIN row
ProviderTyped ==
  /\ vault \in Vaults /\ (vault.env = "set" => vault.key \in {0, 1})
  /\ durable = table /\ table = [keys |-> table.keys, stats |-> table.stats]
  /\ doing = [r \in KeyThreads |-> doing[r]]
  /\ \A r \in KeyThreads : /\ DOMAIN doing[r] = {"at", "todo", "seen", "sale", "then", "secret"}
                           /\ doing[r].at \in Stages /\ doing[r].then \in Stages \ {"draw", "cipher"}
                           /\ doing[r].at = "cipher" => vault.key # 0
SecretsGood == /\ \A a \in DOMAIN table.keys : HasSecret(table.keys[a]) /\ Good(table.keys[a].secret, vault, doing)
               /\ \A r \in KeyThreads : Good(doing[r].secret, vault, doing)
ProviderInv == ProviderTyped /\ SecretsGood

LEMMA NoOneIs ==
  /\ DOMAIN NoOne = {"at", "todo", "seen", "sale", "then", "secret"} /\ NoOne.at = "idle" /\ NoOne.then = ""
  /\ NoOne.secret = Keys!NoSecret
  BY DEF NoOne, Keys!NoRequest

LEMMA NoSecretGood == \A v \in Vaults : \A who : Good(Keys!NoSecret, v, who)
  BY DEF Good, Secret, Keys!NoSecret

\* A step of a request that leaves the encryption key alone and writes only good secrets.
LEMMA ProviderStep ==
  ASSUME ProviderInv, NEW r \in KeyThreads, NEW y, doing' = [doing EXCEPT ![r] = y], UNCHANGED vault,
         DOMAIN y = {"at", "todo", "seen", "sale", "then", "secret"},
         y.at \in Stages, y.then \in Stages \ {"draw", "cipher"}, Good(y.secret, vault, doing),
         y.at = "draw" => vault.key = 0, y.at = "cipher" => vault.key # 0,
         durable' = table', table' = [keys |-> table'.keys, stats |-> table'.stats],
         \A a \in DOMAIN table'.keys : HasSecret(table'.keys[a]) /\ Good(table'.keys[a].secret, vault, doing)
  PROVE  ProviderInv'
<1>1. /\ doing' = [o \in KeyThreads |-> doing'[o]] /\ doing'[r] = y
      /\ \A o \in KeyThreads \ {r} : doing'[o] = doing[o]
  BY DEF ProviderInv, ProviderTyped
<1>2. Settled(vault, doing) => Settled(vault, doing')
  BY <1>1 DEF Settled
<1>3. ASSUME NEW s, Good(s, vault, doing) PROVE Good(s, vault, doing')
  BY <1>2, <1>3 DEF Good
<1>4. ProviderTyped'
  BY <1>1 DEF ProviderInv, ProviderTyped
<1>5. \A o \in KeyThreads : Good(doing'[o].secret, vault, doing')
  BY <1>1, <1>3 DEF ProviderInv, SecretsGood
<1>6. \A a \in DOMAIN table'.keys : HasSecret(table'.keys[a]) /\ Good(table'.keys[a].secret, vault, doing')
  BY <1>3
<1>7. SecretsGood'
  BY <1>5, <1>6 DEF SecretsGood
<1> QED
  BY <1>4, <1>7 DEF ProviderInv

\* What a step may count on.
LEMMA ProviderHas ==
  ASSUME ProviderInv
  PROVE  /\ vault \in Vaults /\ durable = table
         /\ \E k, st : table = [keys |-> k, stats |-> st]
         /\ \A a \in DOMAIN table.keys : HasSecret(table.keys[a]) /\ Good(table.keys[a].secret, vault, doing)
         /\ \A r \in KeyThreads : Good(doing[r].secret, vault, doing)
  BY DEF ProviderInv, ProviderTyped, SecretsGood

LEMMA ProviderEnds ==
  ASSUME ProviderInv, NEW r \in KeyThreads, doing' = [doing EXCEPT ![r] = NoOne], UNCHANGED vault,
         durable' = table', table' = [keys |-> table'.keys, stats |-> table'.stats],
         \A a \in DOMAIN table'.keys : HasSecret(table'.keys[a]) /\ Good(table'.keys[a].secret, vault, doing)
  PROVE  ProviderInv'
<1>1. Good(NoOne.secret, vault, doing)
  BY NoOneIs, NoSecretGood, ProviderHas
<1> QED
  BY <1>1, NoOneIs, ProviderStep DEF Stages

LEMMA ProviderBegins ==
  ASSUME ProviderInv, NEW r \in KeyThreads, NEW at \in {"look", "call"}, NEW th \in {"", "add", "set", "upsert"}, NEW sn,
         doing' = [doing EXCEPT ![r] = [NoOne EXCEPT !.at = at, !.then = th, !.seen = sn]],
         UNCHANGED <<table, durable, vault>>
  PROVE  ProviderInv'
<1>1. PICK y : y = [NoOne EXCEPT !.at = at, !.then = th, !.seen = sn]
  OBVIOUS
<1>2. /\ DOMAIN y = {"at", "todo", "seen", "sale", "then", "secret"} /\ y.at = at /\ y.then = th
      /\ y.secret = Keys!NoSecret
  BY <1>1, NoOneIs
<1>3. Good(y.secret, vault, doing)
  BY <1>2, NoSecretGood, ProviderHas
<1>4. doing' = [doing EXCEPT ![r] = y]
  BY <1>1
<1>5. durable' = table' /\ table' = [keys |-> table'.keys, stats |-> table'.stats]
  BY DEF ProviderInv, ProviderTyped
<1>6. \A a \in DOMAIN table'.keys : HasSecret(table'.keys[a]) /\ Good(table'.keys[a].secret, vault, doing)
  BY ProviderHas
<1> QED
  BY <1>2, <1>3, <1>4, <1>5, <1>6, ProviderStep DEF Stages

LEMMA AddKeeps ==
  ASSUME ProviderInv, NEW r \in KeyThreads, Keys!Add(r)
  PROVE  ProviderInv'
<1>1. PICK k, st : table = [keys |-> k, stats |-> st]
  BY ProviderHas
<1>2. PICK s : s = doing[r].secret
  OBVIOUS
<1>3. PICK a, id : table' = [table EXCEPT !.keys = Keys!Put(@, a, Keys!Row(id, s))]
  BY <1>2 DEF Keys!Add, Keys!Stores, Keys!Writes
<1>4. durable' = table' /\ UNCHANGED vault /\ doing' = [doing EXCEPT ![r] = NoOne]
  BY DEF Keys!Add, Keys!Stores, Keys!Writes, Keys!Ends, NoOne
<1>5. PICK f : f = Keys!Put(k, a, Keys!Row(id, s))
  OBVIOUS
<1>6. table' = [keys |-> f, stats |-> st]
  BY <1>1, <1>3, <1>5
<1>7. DOMAIN f = DOMAIN k \cup {a} /\ \A b \in DOMAIN f : f[b] = IF b = a THEN Keys!Row(id, s) ELSE k[b]
  BY <1>5 DEF Keys!Put
<1>8. HasSecret(Keys!Row(id, s)) /\ Keys!Row(id, s).secret = s
  BY DEF HasSecret, Keys!Row
<1>9. \A b \in DOMAIN f : HasSecret(f[b]) /\ Good(f[b].secret, vault, doing)
  BY <1>1, <1>2, <1>7, <1>8, ProviderHas
<1>10. table'.keys = f /\ table' = [keys |-> table'.keys, stats |-> table'.stats]
  BY <1>6
<1> QED
  BY <1>4, <1>9, <1>10, ProviderEnds

LEMMA SetValueKeeps ==
  ASSUME ProviderInv, NEW r \in KeyThreads, Keys!SetValue(r)
  PROVE  ProviderInv'
<1>1. PICK k, st : table = [keys |-> k, stats |-> st]
  BY ProviderHas
<1>2. PICK s : s = doing[r].secret
  OBVIOUS
<1>3. PICK a : table' = IF a \in DOMAIN table.keys THEN [table EXCEPT !.keys[a].secret = s] ELSE table
  BY <1>2 DEF Keys!SetValue, Keys!Stores, Keys!Writes
<1>4. durable' = table' /\ UNCHANGED vault /\ doing' = [doing EXCEPT ![r] = NoOne]
  BY DEF Keys!SetValue, Keys!Stores, Keys!Writes, Keys!Ends, NoOne
<1>5. CASE a \notin DOMAIN k
  BY <1>1, <1>3, <1>4, <1>5, ProviderHas, ProviderEnds
<1>6. CASE a \in DOMAIN k
  <2>1. PICK row : row = k[a] /\ HasSecret(row)
    BY <1>1, <1>6, ProviderHas
  <2>2. PICK new : new = [row EXCEPT !.secret = s]
    OBVIOUS
  <2>3. HasSecret(new) /\ new.secret = s
    BY <2>1, <2>2 DEF HasSecret
  <2>4. PICK f : f = [k EXCEPT ![a] = new]
    OBVIOUS
  <2>5. table' = [keys |-> f, stats |-> st]
    BY <1>1, <1>3, <1>6, <2>1, <2>2, <2>4
  <2>6. DOMAIN f = DOMAIN k /\ \A b \in DOMAIN f : f[b] = IF b = a THEN new ELSE k[b]
    BY <2>4
  <2>7. \A b \in DOMAIN f : HasSecret(f[b]) /\ Good(f[b].secret, vault, doing)
    BY <1>1, <1>2, <2>3, <2>6, ProviderHas
  <2>8. table'.keys = f /\ table' = [keys |-> table'.keys, stats |-> table'.stats]
    BY <2>5
  <2> QED
    BY <1>4, <2>7, <2>8, ProviderEnds
<1> QED
  BY <1>5, <1>6

LEMMA UpsertKeeps ==
  ASSUME ProviderInv, NEW r \in KeyThreads, Keys!Upsert(r)
  PROVE  ProviderInv'
<1>1. PICK k, st : table = [keys |-> k, stats |-> st]
  BY ProviderHas
<1>2. PICK s : s = IF doing[r].seen[3] THEN Keys!NoSecret ELSE doing[r].secret
  OBVIOUS
<1>3. PICK id, b, others : /\ others = DOMAIN table.keys \ Keys!Holder(id)
                           /\ \/ table' = table
                              \/ table' = [table EXCEPT !.keys = Keys!Put([a \in others |-> @[a]], b, Keys!Row(id, s))]
  BY <1>2 DEF Keys!Upsert, Keys!Stores, Keys!Writes
<1>4. durable' = table' /\ UNCHANGED vault /\ doing' = [doing EXCEPT ![r] = NoOne]
  BY DEF Keys!Upsert, Keys!Stores, Keys!Writes, Keys!Ends, NoOne
<1>5. Good(s, vault, doing)
  BY <1>2, NoSecretGood, ProviderHas
<1>6. CASE table' = table
  BY <1>1, <1>4, <1>6, ProviderHas, ProviderEnds
<1>7. CASE table' = [table EXCEPT !.keys = Keys!Put([a \in others |-> @[a]], b, Keys!Row(id, s))]
  <2>1. PICK g : g = [a \in others |-> k[a]]
    OBVIOUS
  <2>2. PICK f : f = Keys!Put(g, b, Keys!Row(id, s))
    OBVIOUS
  <2>3. table' = [keys |-> f, stats |-> st]
    BY <1>1, <1>7, <2>1, <2>2
  <2>4. DOMAIN f = others \cup {b} /\ \A a \in DOMAIN f : f[a] = IF a = b THEN Keys!Row(id, s) ELSE k[a]
    BY <2>1, <2>2 DEF Keys!Put
  <2>5. HasSecret(Keys!Row(id, s)) /\ Keys!Row(id, s).secret = s
    BY DEF HasSecret, Keys!Row
  <2>6. others \subseteq DOMAIN k
    BY <1>1, <1>3
  <2>7. \A a \in DOMAIN f : HasSecret(f[a]) /\ Good(f[a].secret, vault, doing)
    BY <1>1, <1>5, <2>4, <2>5, <2>6, ProviderHas
  <2>8. table'.keys = f /\ table' = [keys |-> table'.keys, stats |-> table'.stats]
    BY <2>3
  <2> QED
    BY <1>4, <2>7, <2>8, ProviderEnds
<1> QED
  BY <1>3, <1>6, <1>7

LEMMA UpdateStatKeeps ==
  ASSUME ProviderInv, NEW r \in KeyThreads, Keys!UpdateStat(r)
  PROVE  ProviderInv'
<1>1. PICK k, st : table = [keys |-> k, stats |-> st]
  BY ProviderHas
<1>2. PICK st2 : table' = [table EXCEPT !.stats = st2]
  BY DEF Keys!UpdateStat, Keys!Stores, Keys!Writes
<1>3. durable' = table' /\ UNCHANGED vault /\ doing' = [doing EXCEPT ![r] = NoOne]
  BY DEF Keys!UpdateStat, Keys!Stores, Keys!Writes, Keys!Ends, NoOne
<1>4. table' = [keys |-> k, stats |-> st2]
  BY <1>1, <1>2
<1>5. table'.keys = table.keys /\ table' = [keys |-> table'.keys, stats |-> table'.stats]
  BY <1>1, <1>4
<1> QED
  BY <1>3, <1>5, ProviderHas, ProviderEnds

LEMMA DeleteKeyKeeps ==
  ASSUME ProviderInv, NEW r \in KeyThreads, NEW a, Keys!DeleteKey(r, a)
  PROVE  ProviderInv'
<1>1. PICK f, st : f = Keys!Minus(table.keys, a) /\ table' = [keys |-> f, stats |-> st]
  BY DEF Keys!DeleteKey, Keys!Stores, Keys!Writes
<1>2. durable' = table' /\ UNCHANGED <<vault, doing>>
  BY DEF Keys!DeleteKey, Keys!Stores, Keys!Writes
<1>3. table'.keys = f /\ table' = [keys |-> table'.keys, stats |-> table'.stats]
  BY <1>1
<1>4. \A b \in DOMAIN f : b \in DOMAIN table.keys /\ f[b] = table.keys[b]
  BY <1>1 DEF Keys!Minus
<1>5. ProviderTyped'
  BY <1>2, <1>3 DEF ProviderInv, ProviderTyped
<1>6. SecretsGood'
  BY <1>2, <1>3, <1>4 DEF ProviderInv, SecretsGood
<1> QED
  BY <1>5, <1>6 DEF ProviderInv

\* A request on its way to a cipher, with what it has of a secret.
LEMMA GoesOn ==
  ASSUME ProviderInv, NEW r \in KeyThreads, NEW y, NEW to \in Stages,
         y = [doing[r] EXCEPT !.at = to], doing' = [doing EXCEPT ![r] = y], UNCHANGED <<table, durable, vault>>,
         to = "draw" => vault.key = 0, to = "cipher" => vault.key # 0
  PROVE  ProviderInv'
<1>1. PICK d : d = doing[r]
  OBVIOUS
<1>2. DOMAIN d = {"at", "todo", "seen", "sale", "then", "secret"} /\ d.then \in Stages \ {"draw", "cipher"}
  BY <1>1 DEF ProviderInv, ProviderTyped
<1>3. DOMAIN y = {"at", "todo", "seen", "sale", "then", "secret"} /\ y.at = to /\ y.then = d.then /\ y.secret = d.secret
  BY <1>1, <1>2
<1>4. durable' = table' /\ table' = [keys |-> table'.keys, stats |-> table'.stats]
  BY DEF ProviderInv, ProviderTyped
<1> QED
  BY <1>1, <1>2, <1>3, <1>4, ProviderHas, ProviderStep

LEMMA LookKeyKeeps ==
  ASSUME ProviderInv, NEW r \in KeyThreads, Keys!LookKey(r)
  PROVE  ProviderInv'
<1>1. PICK to \in Stages : to = IF vault.key = 0 THEN "draw" ELSE "cipher"
  BY DEF Stages
<1>2. PICK y : y = [doing[r] EXCEPT !.at = to]
  OBVIOUS
<1>3. doing' = [doing EXCEPT ![r] = y] /\ UNCHANGED <<table, durable, vault>>
  BY <1>1, <1>2 DEF Keys!LookKey
<1> QED
  BY <1>1, <1>2, <1>3, GoesOn

\* A secret is sure when it is encrypted with a key that no request is about to replace.
LEMMA EncryptKeeps ==
  ASSUME ProviderInv, NEW r \in KeyThreads, Keys!Encrypt(r)
  PROVE  ProviderInv'
<1>1. PICK d : d = doing[r]
  OBVIOUS
<1>2. /\ DOMAIN d = {"at", "todo", "seen", "sale", "then", "secret"} /\ d.then \in Stages \ {"draw", "cipher"}
      /\ vault.key # 0 /\ vault.key \in Nat /\ (vault.env = "set" => vault.key \in {0, 1})
  BY <1>1 DEF Keys!Encrypt, ProviderInv, ProviderTyped, Vaults
<1>3. PICK b \in BOOLEAN : b <=> \A q \in KeyThreads : doing[q].at # "draw"
  <2>1. CASE \A q \in KeyThreads : doing[q].at # "draw"
    BY <2>1
  <2>2. CASE ~ \A q \in KeyThreads : doing[q].at # "draw"
    BY <2>2
  <2> QED
    BY <2>1, <2>2
<1>4. b = \A q \in KeyThreads : doing[q].at # "draw"
  BY <1>3, Zenon
<1>5. PICK s : s = [key |-> vault.key, sure |-> b]
  OBVIOUS
<1>6. Good(s, vault, doing)
  <2>1. s.key = vault.key /\ s.sure = b /\ s \in Secret
    BY <1>2, <1>3, <1>5 DEF Secret
  <2>2. b => Settled(vault, doing)
    BY <1>2, <1>3 DEF Settled
  <2> QED
    BY <1>2, <2>1, <2>2 DEF Good
<1>7. PICK y : y = [d EXCEPT !.at = d.then, !.secret = s]
  OBVIOUS
<1>8. DOMAIN y = {"at", "todo", "seen", "sale", "then", "secret"} /\ y.at = d.then /\ y.then = d.then /\ y.secret = s
  BY <1>2, <1>7
<1>9. doing' = [doing EXCEPT ![r] = y]
  <2>1. doing' = [doing EXCEPT ![r].at = doing[r].then,
                    ![r].secret = [key |-> vault.key, sure |-> \A q \in KeyThreads : doing[q].at # "draw"]]
    BY DEF Keys!Encrypt
  <2>2. doing' = [doing EXCEPT ![r].at = d.then, ![r].secret = s]
    BY <1>1, <1>4, <1>5, <2>1
  <2>3. doing = [q \in KeyThreads |-> doing[q]]
    BY DEF ProviderInv, ProviderTyped
  <2> QED
    BY <1>1, <1>7, <2>2, <2>3
<1>10. UNCHANGED <<table, durable, vault>>
  BY DEF Keys!Encrypt
<1>11. durable' = table' /\ table' = [keys |-> table'.keys, stats |-> table'.stats]
  BY <1>10 DEF ProviderInv, ProviderTyped
<1>12. \A a \in DOMAIN table'.keys : HasSecret(table'.keys[a]) /\ Good(table'.keys[a].secret, vault, doing)
  BY <1>10, ProviderHas
<1> QED
  BY <1>2, <1>6, <1>8, <1>9, <1>10, <1>11, <1>12, ProviderStep

\* Whoever draws a key finds no secret that is sure: the one there was is no longer counted on.
LEMMA InitEncryptionKeeps ==
  ASSUME ProviderInv, NEW r \in KeyThreads, Keys!InitEncryption(r)
  PROVE  ProviderInv'
<1>1. PICK e \in {"set", "unset", "required"}, k \in Nat, n \in Nat : vault = [env |-> e, key |-> k, drawn |-> n]
  BY DEF ProviderInv, ProviderTyped, Vaults
<1>2. vault.env = e /\ vault.key = k /\ vault.drawn = n
  BY <1>1
<1>3. doing[r].at = "draw" /\ UNCHANGED <<table, durable>>
  BY DEF Keys!InitEncryption
<1>4. PICK d : d = doing[r]
  OBVIOUS
<1>5. CASE e = "required"
  <2>1. UNCHANGED vault
    BY <1>2, <1>5 DEF Keys!InitEncryption
  <2>2. doing' = [doing EXCEPT ![r] = NoOne]
    BY <1>2, <1>5 DEF Keys!InitEncryption, NoOne
  <2>3. durable' = table' /\ table' = [keys |-> table'.keys, stats |-> table'.stats]
    BY <1>3 DEF ProviderInv, ProviderTyped
  <2> QED
    BY <1>3, <2>1, <2>2, <2>3, ProviderHas, ProviderEnds
<1>6. CASE e # "required"
  <2>1. PICK m \in Nat, o \in Nat : /\ vault' = [env |-> e, key |-> m, drawn |-> o]
                                    /\ m # 0 /\ (e = "set" => m = 1)
    <3>1. CASE e = "set"
      <4>1. vault' = [env |-> e, key |-> 1, drawn |-> n]
        BY <1>1, <1>2, <3>1 DEF Keys!InitEncryption, Keys!OfEnvironment
      <4> QED
        BY <4>1
    <3>2. CASE e = "unset"
      <4>1. vault' = [env |-> e, key |-> 1 + n + 1, drawn |-> n + 1]
        BY <1>1, <1>2, <3>2 DEF Keys!InitEncryption, Keys!OfEnvironment
      <4> QED
        BY <3>2, <4>1
    <3> QED
      BY <1>6, <3>1, <3>2
  <2>2. vault'.env = e /\ vault'.key = m /\ vault' \in Vaults
    BY <2>1 DEF Vaults
  <2>3. PICK y : y = [d EXCEPT !.at = "cipher"]
    OBVIOUS
  <2>4. DOMAIN d = {"at", "todo", "seen", "sale", "then", "secret"} /\ d.then \in Stages \ {"draw", "cipher"}
    BY <1>4 DEF ProviderInv, ProviderTyped
  <2>5. /\ DOMAIN y = {"at", "todo", "seen", "sale", "then", "secret"} /\ y.at = "cipher" /\ y.then = d.then
        /\ y.secret = d.secret
    BY <2>3, <2>4
  <2>6. doing' = [doing EXCEPT ![r] = y]
    BY <1>2, <1>4, <1>6, <2>3 DEF Keys!InitEncryption
  <2>7. /\ doing' = [q \in KeyThreads |-> doing'[q]] /\ doing'[r] = y
        /\ \A q \in KeyThreads \ {r} : doing'[q] = doing[q]
    BY <2>6 DEF ProviderInv, ProviderTyped
  <2>8. ~Settled(vault, doing)
    BY <1>3 DEF Settled
  <2>9. ASSUME NEW s, Good(s, vault, doing) PROVE Good(s, vault', doing')
    BY <1>2, <2>2, <2>8, <2>9 DEF Good
  <2>10. \A q \in KeyThreads : doing'[q].secret = doing[q].secret
    BY <1>4, <2>5, <2>7
  <2>11. SecretsGood'
    BY <1>3, <2>9, <2>10 DEF ProviderInv, SecretsGood
  <2>12. ProviderTyped'
    BY <1>3, <2>1, <2>2, <2>4, <2>5, <2>7 DEF ProviderInv, ProviderTyped, Stages
  <2> QED
    BY <2>11, <2>12 DEF ProviderInv
<1> QED
  BY <1>5, <1>6

LEMMA ProviderRestarts ==
  ASSUME ProviderInv, area = "provider", Keys!RestartPool
  PROVE  ProviderInv'
<1>1. PICK k, st : table = [keys |-> k, stats |-> st] /\ durable = table
  BY ProviderHas
<1>2. /\ table' = [durable EXCEPT !.keys = Keys!Unsure(Keys!Seeded(@))] /\ durable' = table'
      /\ vault' = [vault EXCEPT !.key = 0] /\ doing' = [r \in KeyThreads |-> NoOne]
  BY DEF Keys!RestartPool, NoOne
<1>3. PICK g : g = Keys!Seeded(k)
  OBVIOUS
<1>4. PICK f : f = Keys!Unsure(g)
  OBVIOUS
<1>5. table' = [keys |-> f, stats |-> st]
  BY <1>1, <1>2, <1>3, <1>4
<1>6. table'.keys = f /\ table' = [keys |-> table'.keys, stats |-> table'.stats]
  BY <1>5
<1>7. \A a \in DOMAIN g : HasSecret(g[a]) /\ Good(g[a].secret, vault, doing)
  <2>1. \A a \in DOMAIN k : HasSecret(k[a]) /\ Good(k[a].secret, vault, doing)
    BY <1>1, ProviderHas
  <2>2. CASE Keys!Builtin \in DOMAIN k
    BY <1>3, <2>1, <2>2 DEF Keys!Seeded
  <2>3. CASE Keys!Builtin \notin DOMAIN k
    <3>1. PICK row : row = [id |-> 0, secret |-> Keys!NoSecret]
      OBVIOUS
    <3>2. HasSecret(row) /\ row.secret = Keys!NoSecret /\ Good(row.secret, vault, doing)
      BY <3>1, NoSecretGood, ProviderHas DEF HasSecret
    <3>3. g = Keys!Put(k, Keys!Builtin, row)
      BY <1>3, <2>3, <3>1 DEF Keys!Seeded
    <3>4. DOMAIN g = DOMAIN k \cup {Keys!Builtin} /\ \A a \in DOMAIN g : g[a] = IF a = Keys!Builtin THEN row ELSE k[a]
      BY <3>3 DEF Keys!Put
    <3> QED
      BY <2>1, <3>2, <3>4
  <2> QED
    BY <2>2, <2>3
<1>8. vault' \in Vaults /\ vault'.env = vault.env /\ vault'.key = 0
  BY <1>2 DEF ProviderInv, ProviderTyped, Vaults
<1>9. DOMAIN f = DOMAIN g /\ \A a \in DOMAIN f : f[a] = [g[a] EXCEPT !.secret.sure = FALSE]
  BY <1>4 DEF Keys!Unsure
<1>10. ASSUME NEW a \in DOMAIN f PROVE HasSecret(f[a]) /\ Good(f[a].secret, vault', doing')
  <2>1. PICK row : row = g[a] /\ HasSecret(row) /\ Good(row.secret, vault, doing)
    BY <1>7, <1>9
  <2>2. PICK s \in Secret : s = row.secret
    BY <2>1 DEF Good
  <2>3. PICK u : u = [s EXCEPT !.sure = FALSE]
    OBVIOUS
  <2>4. u \in Secret /\ u.key = s.key /\ u.sure = FALSE
    BY <2>3 DEF Secret
  <2>5. PICK new : new = [row EXCEPT !.secret = u]
    OBVIOUS
  <2>6. HasSecret(new) /\ new.secret = u
    BY <2>1, <2>5 DEF HasSecret
  <2>7. f[a] = new
    BY <1>9, <2>1, <2>2, <2>3, <2>5 DEF HasSecret
  <2>8. Good(u, vault', doing')
    BY <1>8, <2>1, <2>2, <2>4 DEF Good
  <2> QED
    BY <2>6, <2>7, <2>8
<1>11. \A r \in KeyThreads : Good(doing'[r].secret, vault', doing')
  BY <1>2, <1>8, NoOneIs, NoSecretGood
<1>12. SecretsGood'
  BY <1>6, <1>10, <1>11 DEF SecretsGood
<1>13. ProviderTyped'
  BY <1>2, <1>6, <1>8, NoOneIs DEF ProviderTyped, Stages
<1> QED
  BY <1>12, <1>13 DEF ProviderInv

LEMMA ProviderKeeps ==
  ASSUME ProviderInv, area = "provider", Keys!KeysNext
  PROVE  ProviderInv'
<1>1. ~Keys!OtherCommit
  BY DEF Keys!OtherCommit, ProviderInv, ProviderTyped
<1>2. ASSUME NEW r \in KeyThreads PROVE ~(Keys!Execute(r) \/ Keys!Commit(r))
  <2>1. doing[r].at \in Stages
    BY DEF ProviderInv, ProviderTyped
  <2> QED
    BY <2>1 DEF Stages, Keys!Execute, Keys!Commit
<1>3. ASSUME NEW r \in KeyThreads, NEW a \in Names,
             Keys!AddKey(r, a) \/ Keys!SetSecret(r, a) \/ Keys!LooksUp(r, a) \/ Keys!CallBegins(r, a)
      PROVE  ProviderInv'
  <2>1. CASE Keys!AddKey(r, a)
    <3>1. PICK sn : doing' = [doing EXCEPT ![r] = [NoOne EXCEPT !.at = "look", !.then = "add", !.seen = sn]]
                    /\ UNCHANGED <<table, durable, vault>>
      BY <2>1 DEF Keys!AddKey, Keys!Ciphers, NoOne
    <3> QED
      BY <3>1, ProviderBegins
  <2>2. CASE Keys!SetSecret(r, a)
    <3>1. PICK sn : doing' = [doing EXCEPT ![r] = [NoOne EXCEPT !.at = "look", !.then = "set", !.seen = sn]]
                    /\ UNCHANGED <<table, durable, vault>>
      BY <2>2 DEF Keys!SetSecret, Keys!Ciphers, NoOne
    <3> QED
      BY <3>1, ProviderBegins
  <2>3. CASE Keys!LooksUp(r, a)
    <3>1. PICK sn : doing' = [doing EXCEPT ![r] = [NoOne EXCEPT !.at = "look", !.then = "upsert", !.seen = sn]]
                    /\ UNCHANGED <<table, durable, vault>>
      BY <2>3 DEF Keys!LooksUp, Keys!Ciphers, NoOne
    <3> QED
      BY <3>1, ProviderBegins
  <2>4. CASE Keys!CallBegins(r, a)
    <3>1. doing' = [doing EXCEPT ![r] = [NoOne EXCEPT !.at = "call", !.seen = <<a>>]]
          /\ UNCHANGED <<table, durable, vault>>
      BY <2>4 DEF Keys!CallBegins, NoOne
    <3>2. [NoOne EXCEPT !.at = "call", !.seen = <<a>>] = [NoOne EXCEPT !.at = "call", !.then = "", !.seen = <<a>>]
      BY NoOneIs DEF NoOne, Keys!NoRequest
    <3> QED
      BY <3>1, <3>2, ProviderBegins
  <2> QED
    BY <1>3, <2>1, <2>2, <2>3, <2>4
<1> QED
  BY <1>1, <1>2, <1>3, AddKeeps, SetValueKeeps, UpsertKeeps, UpdateStatKeeps, DeleteKeyKeeps, LookKeyKeeps, EncryptKeeps,
     InitEncryptionKeeps, ProviderRestarts
     DEF Keys!KeysNext

-----------------------------------------------------------------------------
(* The tables together: area never changes.                                *)

KeysInv == /\ area \in {"free", "sold", "provider", "users"}
           /\ area = "free" => FreeInv
           /\ area = "sold" => SoldInv
           /\ area = "users" => UsersInv
           /\ area = "provider" => ProviderInv

LEMMA AreaStays == Keys!KeysNext => area' = area
<1>1. Keys!OtherCommit \/ Keys!RestartPool => area' = area
  BY DEF Keys!OtherCommit, Keys!RestartPool
<1>2. ASSUME NEW r \in KeyThreads
      PROVE  Keys!Execute(r) \/ Keys!Commit(r) \/ Keys!LookKey(r) \/ Keys!InitEncryption(r) \/ Keys!Encrypt(r)
                 \/ Keys!Adjust(r) \/ Keys!AiCommand(r) \/ Keys!BatchMult(r) => area' = area
  BY DEF Keys!Execute, Keys!Commit, Keys!LookKey, Keys!InitEncryption, Keys!Encrypt, Keys!Adjust, Keys!AiCommand, Keys!BatchMult
<1>3. ASSUME NEW r \in KeyThreads
      PROVE  Keys!Add(r) \/ Keys!SetValue(r) \/ Keys!Upsert(r) \/ Keys!UpdateStat(r) => area' = area
  BY DEF Keys!Add, Keys!SetValue, Keys!Upsert, Keys!UpdateStat, Keys!Stores, Keys!Writes
<1>4. ASSUME NEW r \in KeyThreads, NEW a \in Names, NEW b \in Names
      PROVE  Keys!RegisterUser(r, a) \/ Keys!Register(r, a, b) \/ Keys!AddSold(r, a) \/ Keys!AdjustSold(r, a)
               \/ Keys!DeleteSold(r, a) => area' = area
  BY DEF Keys!RegisterUser, Keys!Register, Keys!AddSold, Keys!AdjustSold, Keys!DeleteSold
<1>5. ASSUME NEW r \in KeyThreads, NEW a \in Names
      PROVE  Keys!AddKey(r, a) \/ Keys!DeleteKey(r, a) \/ Keys!SetSecret(r, a) \/ Keys!LooksUp(r, a)
               \/ Keys!CallBegins(r, a) => area' = area
  BY DEF Keys!AddKey, Keys!DeleteKey, Keys!SetSecret, Keys!LooksUp, Keys!CallBegins, Keys!Ciphers, Keys!Stores, Keys!Writes
<1> QED
  BY <1>1, <1>2, <1>3, <1>4, <1>5 DEF Keys!KeysNext

LEMMA KeysStart == Keys!KeysInit => KeysInv
<1> SUFFICES ASSUME Keys!KeysInit PROVE KeysInv
  OBVIOUS
<1>1. /\ area \in {"free", "sold", "provider", "users"} /\ durable = table /\ default = 5 /\ promised = {}
      /\ vault \in [env : IF area = "provider" THEN {"set", "unset", "required"} ELSE {"set"}, key : {0}, drawn : {0}]
      /\ doing = [r \in KeyThreads |-> NoOne] /\ ops = [asked |-> 0, boots |-> 0]
  BY DEF Keys!KeysInit, NoOne
<1>2. ASSUME area = "free" PROVE FreeInv
  <2>1. table = <<>>
    BY <1>2 DEF Keys!KeysInit
  <2>2. <<>> \in Seq(FreeRow) /\ DOMAIN <<>> = {}
    OBVIOUS
  <2>3. doing \in [KeyThreads -> FreeRequest] /\ \A r \in KeyThreads : doing[r].todo = <<>>
    BY <1>1, FreeIdle
  <2>4. Once(<<>>)
    BY DEF Once
  <2>5. FreeTyped
    BY <1>1, <2>1, <2>2, <2>3 DEF FreeTyped
  <2> QED
    BY <1>1, <2>1, <2>3, <2>4, <2>5 DEF FreeInv
<1>3. ASSUME area = "sold" PROVE SoldInv
  <2>1. table = [keys |-> <<>>, models |-> {}]
    BY <1>3 DEF Keys!KeysInit
  <2>2. IsSold(table)
    BY <2>1 DEF IsSold
  <2>3. doing \in [KeyThreads -> SoldRequest] /\ \A r \in KeyThreads : doing[r].sale = <<>>
    BY <1>1, SoldIdle
  <2> QED
    BY <1>1, <2>2, <2>3 DEF SoldInv, SoldTyped
<1>4. ASSUME area = "users" PROVE UsersInv
  <2>1. table = <<>> /\ DOMAIN <<>> = {}
    BY <1>4 DEF Keys!KeysInit
  <2>2. ops.asked = 0 /\ ops = [asked |-> ops.asked, boots |-> ops.boots]
    BY <1>1
  <2> QED
    BY <1>1, <2>1, <2>2 DEF UsersInv
<1>5. ASSUME area = "provider" PROVE ProviderInv
  <2>1. table = [keys |-> Keys!Seeded(<<>>), stats |-> {}]
    BY <1>5 DEF Keys!KeysInit
  <2>2. PICK row : row = [id |-> 0, secret |-> Keys!NoSecret]
    OBVIOUS
  <2>3. PICK e : e = <<>> /\ DOMAIN e = {}
    OBVIOUS
  <2>4. PICK g : g = Keys!Seeded(e)
    OBVIOUS
  <2>5. g = Keys!Put(e, Keys!Builtin, row)
    BY <2>2, <2>3, <2>4 DEF Keys!Seeded
  <2>6. \A a \in DOMAIN g : g[a] = row
    BY <2>3, <2>5 DEF Keys!Put
  <2>7. vault \in Vaults /\ vault.key = 0
    BY <1>1, <1>5 DEF Vaults
  <2>8. HasSecret(row) /\ row.secret = Keys!NoSecret
    BY <2>2 DEF HasSecret
  <2>9. table.keys = g /\ table = [keys |-> table.keys, stats |-> table.stats]
    BY <2>1, <2>3, <2>4
  <2>10. SecretsGood
    BY <1>1, <2>6, <2>7, <2>8, <2>9, NoOneIs, NoSecretGood DEF SecretsGood
  <2>11. ProviderTyped
    BY <1>1, <2>7, <2>9, NoOneIs DEF ProviderTyped, Stages
  <2> QED
    BY <2>10, <2>11 DEF ProviderInv
<1> QED
  BY <1>1, <1>2, <1>3, <1>4, <1>5 DEF KeysInv

LEMMA KeysKeep == KeysInv /\ [Next]_vars => KeysInv'
<1> SUFFICES ASSUME KeysInv, [Next]_vars PROVE KeysInv'
  OBVIOUS
<1>1. CASE UNCHANGED keyVars
  <2>1. /\ UNCHANGED <<area, table, durable, default, doing, ops, promised, vault>>
    BY <1>1 DEF keyVars
  <2> QED
    BY <2>1 DEF KeysInv, FreeInv, FreeTyped, SoldInv, SoldTyped, UsersInv, ProviderInv, ProviderTyped, SecretsGood
<1>2. CASE Keys!KeysNext
  <2>1. area' = area
    BY <1>2, AreaStays
  <2>2. area = "free" => FreeInv'
    BY <1>2, FreeKeeps DEF KeysInv
  <2>3. area = "sold" => SoldInv'
    BY <1>2, SoldKeeps DEF KeysInv
  <2>4. area = "users" => UsersInv'
    BY <1>2, UsersKeep DEF KeysInv
  <2>5. area = "provider" => ProviderInv'
    BY <1>2, ProviderKeeps DEF KeysInv
  <2> QED
    BY <2>1, <2>2, <2>3, <2>4, <2>5 DEF KeysInv
<1> QED
  BY <1>1, <1>2 DEF Next, ClawMoves, KeysMove, RouteMoves, vars

LEMMA KeysShow == KeysInv => IssuedKeys
<1> SUFFICES ASSUME KeysInv PROVE IssuedKeys
  OBVIOUS
<1>1. Keys!FreeKeyOnce
  BY DEF KeysInv, FreeInv, Once, Keys!FreeKeyOnce, Keys!Rows
<1>2. Keys!SaleKept
  <2> SUFFICES ASSUME area = "sold", NEW p \in promised
               PROVE  p.alias \in DOMAIN durable.keys /\ {p.alias} \X p.models \subseteq durable.models
    BY DEF Keys!SaleKept
  <2>1. Whole(durable, p.alias, p.models)
    BY DEF KeysInv, SoldInv
  <2> QED
    BY <2>1 DEF Whole
<1>3. Keys!AccountKept
  <2> SUFFICES ASSUME area = "users", NEW p \in promised
               PROVE  /\ Keys!Login(p.user, p.account.password) = {p.account.token}
                      /\ Keys!UserByToken(p.account.token) = {p.user}
    BY DEF Keys!AccountKept
  <2>1. p.user \in DOMAIN table /\ table[p.user] = p.account
    BY DEF KeysInv, UsersInv
  <2>2. Keys!VerifyUser(p.user, p.account.password) = {p.user}
    BY <2>1 DEF Keys!VerifyUser
  <2>3. Keys!Login(p.user, p.account.password) = {p.account.token}
    BY <2>1, <2>2 DEF Keys!Login
  <2>4. \A v \in DOMAIN table : table[v].token = p.account.token => v = p.user
    BY <2>1 DEF KeysInv, UsersInv
  <2>5. Keys!UserByToken(p.account.token) = {p.user}
    BY <2>1, <2>4 DEF Keys!UserByToken
  <2> QED
    BY <2>3, <2>5
<1>4. Keys!SecretsReadable
  <2> SUFFICES ASSUME area = "provider", NEW a \in DOMAIN table.keys, vault.env = "set" \/ table.keys[a].secret.sure
               PROVE  Keys!Readable(table.keys[a].secret)
    BY DEF Keys!SecretsReadable
  <2>1. Good(table.keys[a].secret, vault, doing) /\ (vault.env = "set" => vault.key \in {0, 1})
    BY DEF KeysInv, ProviderInv, ProviderTyped, SecretsGood
  <2> QED
    BY <2>1 DEF Good, Keys!Readable, Keys!KeyInUse, Keys!OfEnvironment
<1> QED
  BY <1>1, <1>2, <1>3, <1>4 DEF IssuedKeys, Keys!IssuedKeys

\* What the pool's tables issued stays as it was issued, for any requests in any number at once:
\* the tables of free, sold and provider keys and of accounts over one connection.
THEOREM IssuedKeysStay == Spec => []IssuedKeys
<1>1. Init => KeysInv
  BY KeysStart DEF Init
<1> QED
  BY <1>1, KeysKeep, KeysShow, PTL DEF Spec
-----------------------------------------------------------------------------
(* Sums (Routing).  A set of numbers that holds 0 and with each number the *)
(* next holds all: what a sum is, is shown of one number after the other.  *)

LEMMA LeastNat == ASSUME NEW S \in SUBSET Nat, S # {} PROVE \E n \in S : \A m \in S : n <= m
<1> DEFINE R == OpToRel(<, Nat)
<1>1. IsWellFoundedOn(R, Nat)
  BY NatLessThanWellFounded
<1>2. R = {ss \in Nat \X Nat : ss[1] < ss[2]}
  BY DEF OpToRel
<1> HIDE DEF R
<1>3. PICK n \in S : \A m \in S : ~(<<m, n>> \in R)
  BY <1>1, WFMin
<1>4. \A m \in S : n <= m
  <2> SUFFICES ASSUME NEW m \in S PROVE n <= m
    OBVIOUS
  <2>1. <<m, n>> \in Nat \X Nat /\ <<m, n>>[1] = m /\ <<m, n>>[2] = n
    OBVIOUS
  <2>2. ~(m < n)
    BY <1>2, <1>3, <2>1
  <2> QED
    BY <2>2
<1> QED
  BY <1>4

LEMMA OneByOne ==
  ASSUME NEW S, 0 \in S, \A n \in Nat : n \in S => n + 1 \in S
  PROVE  Nat \subseteq S
<1> SUFFICES ASSUME Nat \ S # {} PROVE FALSE
  OBVIOUS
<1>1. PICK n \in Nat \ S : \A m \in Nat \ S : n <= m
  BY LeastNat
<1>2. n # 0
  OBVIOUS
<1>3. n - 1 \in Nat /\ (n - 1) + 1 = n /\ ~(n <= n - 1)
  BY <1>2
<1>4. n - 1 \in S
  BY <1>1, <1>3
<1> QED
  BY <1>3, <1>4

\* The sums of the first numbers of f.
Sums(f, s) == s = [n \in 0..Len(f) |-> IF n = 0 THEN 0 ELSE s[n - 1] + f[n]]

LEMMA SumsExist == ASSUME NEW f, NEW l \in Nat, Len(f) = l PROVE \E s : Sums(f, s)
<1> DEFINE Goes(m) == \E s : s = [n \in 0..m |-> IF n = 0 THEN 0 ELSE s[n - 1] + f[n]]
           S == {m \in Nat : Goes(m)}
<1>1. 0 \in S
  <2>1. PICK s : s = [n \in 0..0 |-> 0]
    OBVIOUS
  <2>2. s = [n \in 0..0 |-> IF n = 0 THEN 0 ELSE s[n - 1] + f[n]]
    BY <2>1
  <2> QED BY <2>2
<1>2. ASSUME NEW m \in Nat, m \in S PROVE m + 1 \in S
  <2>1. PICK s : s = [n \in 0..m |-> IF n = 0 THEN 0 ELSE s[n - 1] + f[n]]
    BY <1>2
  <2>2. PICK t : t = [n \in 0..(m + 1) |-> IF n = m + 1 THEN s[m] + f[n] ELSE s[n]]
    OBVIOUS
  <2>3. \A n \in 0..(m + 1) : t[n] = IF n = 0 THEN 0 ELSE t[n - 1] + f[n]
    <3> SUFFICES ASSUME NEW n \in 0..(m + 1) PROVE t[n] = IF n = 0 THEN 0 ELSE t[n - 1] + f[n]
      OBVIOUS
    <3>1. CASE n = m + 1
      BY <2>2, <3>1
    <3>2. CASE n # m + 1
      <4>1. n \in 0..m /\ (n # 0 => n - 1 \in 0..m /\ n - 1 # m + 1)
        BY <3>2
      <4>2. s[n] = IF n = 0 THEN 0 ELSE s[n - 1] + f[n]
        BY <2>1, <4>1
      <4> QED BY <2>2, <3>2, <4>1, <4>2
    <3> QED BY <3>1, <3>2
  <2>4. t = [n \in 0..(m + 1) |-> IF n = 0 THEN 0 ELSE t[n - 1] + f[n]]
    BY <2>2, <2>3
  <2> QED BY <2>4
<1> HIDE DEF S
<1>3. l \in S
  BY <1>1, <1>2, OneByOne
<1> QED
  BY <1>3 DEF S, Sums

LEMMA SumIsLast ==
  ASSUME NEW f, NEW l \in Nat, Len(f) = l
  PROVE \E s : Route!Sum(f) = s[l] /\ Sums(f, s)
<1> DEFINE c == CHOOSE s : s = [n \in 0..Len(f) |-> IF n = 0 THEN 0 ELSE s[n - 1] + f[n]]
<1>1. \E s : s = [n \in 0..Len(f) |-> IF n = 0 THEN 0 ELSE s[n - 1] + f[n]]
  BY SumsExist DEF Sums
<1>2. c = [n \in 0..Len(f) |-> IF n = 0 THEN 0 ELSE c[n - 1] + f[n]]
  BY <1>1
<1>3. Route!Sum(f) = c[Len(f)]
  BY DEF Route!Sum
<1> QED BY <1>2, <1>3 DEF Sums

\* s are the sums of the first numbers of f.
Adds(s, f, l) == s \in [0..l -> Nat] /\ s[0] = 0 /\ \A n \in 1..l : s[n] = s[n - 1] + f[n]

LEMMA SumIs ==
  ASSUME NEW l \in Nat, NEW f \in [1..l -> Nat]
  PROVE  \E s : Adds(s, f, l) /\ Route!Sum(f) = s[l]
<1>1. Len(f) = l
  OBVIOUS
<1>2. PICK s : Route!Sum(f) = s[l] /\ s = [n \in 0..l |-> IF n = 0 THEN 0 ELSE s[n - 1] + f[n]]
  BY <1>1, SumIsLast DEF Sums
<1>3. s[0] = 0 /\ \A n \in 1..l : s[n] = s[n - 1] + f[n]
  BY <1>2
<1>4. PICK S : S = {n \in Nat : n <= l => s[n] \in Nat}
  OBVIOUS
<1>5. \A n \in Nat : n \in S => n + 1 \in S
  <2> SUFFICES ASSUME NEW n \in Nat, n \in S, n + 1 <= l PROVE s[n + 1] \in Nat
    BY <1>4
  <2>1. n + 1 \in 1..l /\ (n + 1) - 1 = n /\ s[n] \in Nat
    BY <1>4
  <2>2. s[n + 1] = s[n] + f[n + 1] /\ f[n + 1] \in Nat
    BY <1>3, <2>1
  <2> QED
    BY <2>1, <2>2
<1>6. 0 \in S
  BY <1>3, <1>4
<1>7. Nat \subseteq S
  BY <1>5, <1>6, OneByOne
<1>8. \A n \in 0..l : s[n] \in Nat
  <2> SUFFICES ASSUME NEW n \in 0..l PROVE s[n] \in Nat
    OBVIOUS
  <2>1. n \in S /\ n <= l
    BY <1>7
  <2> QED
    BY <1>4, <2>1
<1>9. s \in [0..l -> Nat]
  BY <1>2, <1>8
<1> QED
  BY <1>2, <1>3, <1>9 DEF Adds

\* Of the first numbers that are all 0, the sum is.
LEMMA SumOfNothing ==
  ASSUME NEW l \in Nat, NEW f, NEW s, Adds(s, f, l), NEW k \in 0..l, \A n \in 1..k : f[n] = 0
  PROVE  s[k] = 0
<1>1. PICK S : S = {n \in Nat : n <= k => s[n] = 0}
  OBVIOUS
<1>2. \A n \in Nat : n \in S => n + 1 \in S
  <2> SUFFICES ASSUME NEW n \in Nat, n \in S, n + 1 <= k PROVE s[n + 1] = 0
    BY <1>1
  <2>1. n + 1 \in 1..l /\ n + 1 \in 1..k /\ (n + 1) - 1 = n /\ s[n] = 0
    BY <1>1
  <2>2. s[n + 1] = s[n] + f[n + 1] /\ f[n + 1] = 0
    BY <2>1 DEF Adds
  <2> QED
    BY <2>1, <2>2
<1>3. 0 \in S
  BY <1>1 DEF Adds
<1>4. Nat \subseteq S
  BY <1>2, <1>3, OneByOne
<1>5. k \in S
  BY <1>4
<1> QED
  BY <1>1, <1>5

\* A sum of k + m numbers is that of the first k and that of the other m, which are g.
Parts(f, k, m, g) == \E first \in Nat : /\ Route!Sum(f) = first + Route!Sum(g) /\ Route!Sum(g) \in Nat
                                        /\ (\A n \in 1..k : f[n] = 0) => first = 0
                                        /\ (\A n \in 1..m : g[n] = 0) => Route!Sum(g) = 0

LEMMA SumOfLast ==
  ASSUME NEW l \in Nat, NEW f \in [1..l -> Nat], NEW k \in 0..l, NEW m \in Nat, k + m = l,
         NEW g \in [1..m -> Nat], \A n \in 1..m : g[n] = f[k + n]
  PROVE  Parts(f, k, m, g)
<1>1. PICK s : Adds(s, f, l) /\ Route!Sum(f) = s[l]
  BY SumIs
<1>2. PICK t : Adds(t, g, m) /\ Route!Sum(g) = t[m]
  BY SumIs
<1>3. PICK S : S = {n \in Nat : n <= m => s[k + n] = s[k] + t[n]}
  OBVIOUS
<1>4. \A n \in Nat : n \in S => n + 1 \in S
  <2> SUFFICES ASSUME NEW n \in Nat, n \in S, n + 1 <= m PROVE s[k + (n + 1)] = s[k] + t[n + 1]
    BY <1>3
  <2>1. /\ n + 1 \in 1..m /\ (n + 1) - 1 = n /\ n \in 0..m /\ k + n \in 0..l /\ k + n + 1 \in 1..l /\ (k + n + 1) - 1 = k + n
        /\ k + (n + 1) = k + n + 1
    OBVIOUS
  <2>2. s[k + n] = s[k] + t[n]
    BY <1>3, <2>1
  <2>3. s[k + n + 1] = s[k + n] + f[k + n + 1]
    BY <1>1, <2>1 DEF Adds
  <2>4. t[n + 1] = t[n] + g[n + 1] /\ g[n + 1] = f[k + n + 1]
    BY <1>2, <2>1 DEF Adds
  <2>5. s[k] \in Nat /\ t[n] \in Nat /\ f[k + n + 1] \in Nat
    BY <1>1, <1>2, <2>1 DEF Adds
  <2> QED
    BY <2>1, <2>2, <2>3, <2>4, <2>5
<1>5. t[0] = 0 /\ s[k] \in Nat /\ t[m] \in Nat
  BY <1>1, <1>2 DEF Adds
<1>6. 0 \in S
  BY <1>3, <1>5
<1>7. Nat \subseteq S
  BY <1>4, <1>6, OneByOne
<1>8. m \in S /\ m <= m
  BY <1>7
<1>9. s[l] = s[k] + t[m]
  BY <1>3, <1>8
<1>10. (\A n \in 1..k : f[n] = 0) => s[k] = 0
  BY <1>1, SumOfNothing
<1>11. m \in 0..m
  OBVIOUS
<1>12. (\A n \in 1..m : g[n] = 0) => t[m] = 0
  BY <1>2, <1>11, SumOfNothing
<1> QED
  BY <1>1, <1>2, <1>5, <1>9, <1>10, <1>12 DEF Parts
-----------------------------------------------------------------------------
(* The guard of shared keys (Routing).                                     *)

Call == [day : Nat, first : BOOLEAN, ok : BOOLEAN, tokens : Nat]
\* The log is in the order of days, and only a day's first call can be at midnight itself.
InTime == \A j \in DOMAIN log : /\ log[j].day <= day
                                /\ \A i \in DOMAIN log : i < j => /\ log[i].day <= log[j].day
                                                                  /\ log[j].first => log[i].day # log[j].day
WithoutTotals == provider = "anthropic" => \A i \in DOMAIN log : log[i].tokens = 0
RouteInv == log \in Seq(Call) /\ day \in Nat /\ percent \in {-1, 0, 50, 100} /\ InTime /\ WithoutTotals

LEMMA Appended ==
  ASSUME NEW S, NEW q \in Seq(S), NEW e \in S
  PROVE  /\ Append(q, e) \in Seq(S)
         /\ \A n \in DOMAIN q : n \in DOMAIN Append(q, e) /\ Append(q, e)[n] = q[n]
         /\ \A n \in DOMAIN Append(q, e) : \/ n \in DOMAIN q
                                           \/ Append(q, e)[n] = e /\ \A i \in DOMAIN q : i < n
         /\ \A n \in DOMAIN Append(q, e) : n \notin DOMAIN q => \A i \in DOMAIN Append(q, e) : i < n => i \in DOMAIN q
         /\ \A n \in DOMAIN q : \A i \in DOMAIN Append(q, e) : i < n => i \in DOMAIN q
<1>1. PICK l \in Nat : l = Len(q) /\ DOMAIN q = 1..l
  OBVIOUS
<1>2. /\ Append(q, e) \in Seq(S) /\ DOMAIN Append(q, e) = 1..(l + 1) /\ Append(q, e)[l + 1] = e
      /\ \A n \in 1..l : Append(q, e)[n] = q[n]
  BY <1>1
<1>3. \A n \in 1..(l + 1) : n \in 1..l \/ n = l + 1
  BY <1>1
<1> QED
  BY <1>1, <1>2, <1>3

LEMMA CallsAre ==
  ASSUME NEW q \in Seq(Call), NEW j \in DOMAIN q
  PROVE  q[j].day \in Nat /\ q[j].first \in BOOLEAN /\ q[j].ok \in BOOLEAN /\ q[j].tokens \in Nat
<1>1. q[j] \in Call
  <2> HIDE DEF Call
  <2> QED
    OBVIOUS
<1> QED
  BY <1>1 DEF Call

LEMMA EndsKeeps ==
  ASSUME RouteInv, NEW ok \in BOOLEAN, NEW latency, NEW tokens \in Nat, provider = "anthropic" => tokens = 0,
         Route!Ends(ok, latency, tokens)
  PROVE  RouteInv'
<1>1. PICK first \in (IF \E i \in DOMAIN log : log[i].day = day THEN {FALSE} ELSE BOOLEAN) :
        log' = Append(log, [day |-> day, first |-> first, ok |-> ok, tokens |-> tokens])
  BY DEF Route!Ends
<1>2. UNCHANGED <<provider, day, percent>>
  BY DEF Route!Ends
<1>3. PICK e : e = [day |-> day, first |-> first, ok |-> ok, tokens |-> tokens]
  OBVIOUS
<1>4. first \in BOOLEAN /\ (first => \A i \in DOMAIN log : log[i].day # day)
  BY <1>1
<1>5. e \in Call /\ e.day = day /\ e.first = first /\ e.tokens = tokens
  BY <1>3, <1>4 DEF RouteInv, Call
<1>6. log' = Append(log, e) /\ log \in Seq(Call)
  BY <1>1, <1>3 DEF RouteInv
<1>7. /\ log' \in Seq(Call)
      /\ \A n \in DOMAIN log : n \in DOMAIN log' /\ log'[n] = log[n]
      /\ \A n \in DOMAIN log' : n \in DOMAIN log \/ (log'[n] = e /\ \A i \in DOMAIN log : i < n)
      /\ \A n \in DOMAIN log' : n \notin DOMAIN log => \A i \in DOMAIN log' : i < n => i \in DOMAIN log
      /\ \A n \in DOMAIN log : \A i \in DOMAIN log' : i < n => i \in DOMAIN log
  BY <1>5, <1>6, Appended
<1>8. InTime'
  <2> SUFFICES ASSUME NEW j \in DOMAIN log'
               PROVE  /\ log'[j].day <= day
                      /\ \A i \in DOMAIN log' : i < j => /\ log'[i].day <= log'[j].day
                                                         /\ log'[j].first => log'[i].day # log'[j].day
    BY <1>2 DEF InTime
  <2>1. CASE j \in DOMAIN log
    BY <1>7, <2>1 DEF RouteInv, InTime
  <2>2. CASE j \notin DOMAIN log
    <3>1. log'[j] = e /\ \A i \in DOMAIN log' : i < j => i \in DOMAIN log /\ log'[i] = log[i]
      BY <1>7, <2>2
    <3>2. \A i \in DOMAIN log : log[i].day <= day
      BY DEF RouteInv, InTime
    <3>3. day <= day
      BY DEF RouteInv
    <3> QED
      BY <1>4, <1>5, <3>1, <3>2, <3>3
  <2> QED
    BY <2>1, <2>2
<1>9. WithoutTotals'
  <2> SUFFICES ASSUME provider = "anthropic", NEW i \in DOMAIN log' PROVE log'[i].tokens = 0
    BY <1>2 DEF WithoutTotals
  <2> QED
    BY <1>5, <1>7 DEF RouteInv, WithoutTotals
<1> QED
  BY <1>2, <1>7, <1>8, <1>9 DEF RouteInv

LEMMA RouteKeeps == RouteInv /\ [Next]_vars => RouteInv'
<1> SUFFICES ASSUME RouteInv, [Next]_vars PROVE RouteInv'
  OBVIOUS
<1>1. CASE UNCHANGED routeVars
  BY <1>1 DEF routeVars, RouteInv, InTime, WithoutTotals
<1>2. CASE Route!Succeeds
  <2>1. PICK latency \in Latencies, tokens \in Amounts : Route!Ends(TRUE, latency, Route!Recorded(tokens))
    BY <1>2 DEF Route!Succeeds
  <2>2. Route!Recorded(tokens) \in Nat /\ (provider = "anthropic" => Route!Recorded(tokens) = 0)
    BY LimitsAreNumbers DEF Route!Recorded
  <2> QED
    BY <2>1, <2>2, EndsKeeps
<1>3. CASE Route!Fails
  <2>1. PICK latency \in Latencies : Route!Ends(FALSE, latency, 0)
    BY <1>3 DEF Route!Fails
  <2> QED
    BY <2>1, EndsKeeps
<1>4. CASE Route!NextDay
  <2>1. day' = day + 1 /\ UNCHANGED <<provider, log, percent>> /\ day \in Nat
    BY <1>4 DEF Route!NextDay, RouteInv
  <2>2. \A j \in DOMAIN log : log[j].day \in Nat /\ log[j].day <= day
    BY CallsAre DEF RouteInv, InTime
  <2>3. \A j \in DOMAIN log : log[j].day <= day + 1
    BY <2>1, <2>2
  <2> QED
    BY <2>1, <2>3 DEF RouteInv, InTime, WithoutTotals
<1>5. ASSUME NEW p \in {0, 50, 100}, Route!Shares(p) PROVE RouteInv'
  BY <1>5 DEF Route!Shares, RouteInv, InTime, WithoutTotals
<1>6. CASE Route!RestartRouting \/ Route!ShowStatus
  BY <1>6 DEF Route!RestartRouting, Route!ShowStatus, RouteInv, InTime, WithoutTotals
<1>7. UNCHANGED routeVars \/ Route!RouteNext
  BY DEF Next, ClawMoves, KeysMove, RouteMoves, vars
<1> QED
  BY <1>1, <1>2, <1>3, <1>4, <1>5, <1>6, <1>7 DEF Route!RouteNext

-----------------------------------------------------------------------------
\* What the guard sees: all but the first k calls.
LEMMA NewestIs ==
  ASSUME RouteInv
  PROVE  \E k, m \in Nat : /\ DOMAIN log = 1..(k + m) /\ DOMAIN Route!Newest(log) = 1..m
                           /\ \A n \in 1..m : Route!Newest(log)[n] = log[k + n]
<1>1. PICK l \in Nat : l = Len(log) /\ DOMAIN log = 1..l
  BY DEF RouteInv
<1>2. CASE l > LogLimit
  <2>1. PICK k \in Nat : k = l - LogLimit
    BY <1>2, LimitsAreNumbers
  <2>2. Route!Newest(log) = SubSeq(log, k + 1, l) /\ k + LogLimit = l /\ l - (k + 1) + 1 = LogLimit /\ LogLimit \in Nat
    BY <1>1, <1>2, <2>1, LimitsAreNumbers DEF Route!Newest
  <2>3. Route!Newest(log) = [n \in 1..LogLimit |-> log[k + n]]
    BY <1>1, <2>2 DEF RouteInv
  <2> QED
    BY <1>1, <2>2, <2>3
<1>3. CASE ~(l > LogLimit)
  <2>1. Route!Newest(log) = SubSeq(log, 1, l)
    BY <1>1, <1>3 DEF Route!Newest
  <2>2. Route!Newest(log) = [n \in 1..l |-> log[0 + n]]
    BY <1>1, <2>1 DEF RouteInv
  <2>3. 0 + l = l /\ 0 \in Nat
    OBVIOUS
  <2> QED
    BY <1>1, <2>2, <2>3
<1> QED
  BY <1>2, <1>3

LEMMA Shares == ASSUME NEW a \in Nat, NEW b \in Nat, percent \in {50, 100}
                PROVE  /\ (b * percent) \div 100 <= ((a + b) * percent) \div 100
                       /\ (0 * percent) \div 100 = 0 /\ (b * percent) \div 100 \in Int
<1>1. CASE percent = 50
  BY <1>1
<1>2. CASE percent = 100
  BY <1>2
<1> QED
  BY <1>1, <1>2

LEMMA GuardShows == RouteInv => GuardIsStrict
<1> SUFFICES ASSUME RouteInv, percent > 0, Route!QuotaPasses
             PROVE  Route!UsedToday(log) < Route!Quota(log) /\ provider # "anthropic"
  BY DEF GuardIsStrict, Route!GuardIsStrict
<1>1. PICK k \in Nat, m \in Nat : /\ DOMAIN log = 1..(k + m) /\ DOMAIN Route!Newest(log) = 1..m
                                  /\ \A n \in 1..m : Route!Newest(log)[n] = log[k + n]
  BY NewestIs
<1>2. PICK l \in Nat : l = k + m /\ k \in 0..l /\ k + m = l
  OBVIOUS
<1>3. \A i \in 1..l : log[i].day \in Nat /\ log[i].tokens \in Nat /\ log[i].ok \in BOOLEAN
  BY <1>1, <1>2, CallsAre DEF RouteInv
<1>4. \A n \in 1..m : k + n \in 1..l
  BY <1>2
<1>5. PICK fy : fy = [i \in 1..l |-> IF log[i].ok /\ Route!Yesterday(log[i]) THEN log[i].tokens ELSE 0]
  OBVIOUS
<1>6. PICK ft : ft = [i \in 1..l |-> IF log[i].ok /\ log[i].day = day THEN log[i].tokens ELSE 0]
  OBVIOUS
<1>7. PICK gy : gy = [n \in 1..m |-> IF log[k + n].ok /\ Route!Yesterday(log[k + n]) THEN log[k + n].tokens ELSE 0]
  OBVIOUS
<1>8. PICK gt : gt = [n \in 1..m |-> IF log[k + n].ok /\ log[k + n].day = day THEN log[k + n].tokens ELSE 0]
  OBVIOUS
<1>9. Route!UsedYesterday(log) = Route!Sum(fy) /\ Route!UsedToday(log) = Route!Sum(ft)
  BY <1>1, <1>2, <1>5, <1>6 DEF Route!UsedYesterday, Route!UsedToday
<1>10. Route!UsedYesterday(Route!Newest(log)) = Route!Sum(gy)
  <2>1. gy = [n \in DOMAIN Route!Newest(log) |-> IF Route!Newest(log)[n].ok /\ Route!Yesterday(Route!Newest(log)[n])
                                                THEN Route!Newest(log)[n].tokens ELSE 0]
    BY <1>1, <1>7
  <2> QED
    BY <2>1 DEF Route!UsedYesterday
<1>11. Route!UsedToday(Route!Newest(log)) = Route!Sum(gt)
  <2>1. gt = [n \in DOMAIN Route!Newest(log) |-> IF Route!Newest(log)[n].ok /\ Route!Newest(log)[n].day = day
                                                THEN Route!Newest(log)[n].tokens ELSE 0]
    BY <1>1, <1>8
  <2> QED
    BY <2>1 DEF Route!UsedToday
<1>12. /\ fy \in [1..l -> Nat] /\ ft \in [1..l -> Nat] /\ gy \in [1..m -> Nat] /\ gt \in [1..m -> Nat]
       /\ (\A n \in 1..m : gy[n] = fy[k + n]) /\ (\A n \in 1..m : gt[n] = ft[k + n])
  BY <1>3, <1>4, <1>5, <1>6, <1>7, <1>8
<1>13. PICK y1 \in Nat : /\ Route!Sum(fy) = y1 + Route!Sum(gy) /\ Route!Sum(gy) \in Nat
                         /\ (\A n \in 1..k : fy[n] = 0) => y1 = 0
                         /\ (\A n \in 1..m : gy[n] = 0) => Route!Sum(gy) = 0
  <2>1. fy \in [1..l -> Nat] /\ gy \in [1..m -> Nat] /\ \A n \in 1..m : gy[n] = fy[k + n]
    BY <1>12
  <2>2. Parts(fy, k, m, gy)
    BY <1>2, <2>1, SumOfLast
  <2> QED
    BY <2>2 DEF Parts
<1>14. PICK t1 \in Nat : /\ Route!Sum(ft) = t1 + Route!Sum(gt) /\ Route!Sum(gt) \in Nat
                         /\ (\A n \in 1..k : ft[n] = 0) => t1 = 0
                         /\ (\A n \in 1..m : gt[n] = 0) => Route!Sum(gt) = 0
  <2>1. ft \in [1..l -> Nat] /\ gt \in [1..m -> Nat] /\ \A n \in 1..m : gt[n] = ft[k + n]
    BY <1>12
  <2>2. Parts(ft, k, m, gt)
    BY <1>2, <2>1, SumOfLast
  <2> QED
    BY <2>2 DEF Parts
<1>15. PICK y, u \in Nat : y = Route!Sum(gy) /\ u = Route!Sum(gt)
  BY <1>13, <1>14
<1>16. percent \in {50, 100}
  BY DEF RouteInv
<1>17. (y * percent) \div 100 - u > 0
  BY <1>10, <1>11, <1>15, <1>16 DEF Route!QuotaPasses, Route!Quota
<1>18. u < (y * percent) \div 100 /\ y # 0
  BY <1>15, <1>16, <1>17, Shares
<1>19. PICK n \in 1..m : gy[n] # 0
  BY <1>13, <1>15, <1>18
<1>20. PICK j \in 1..l : j = k + n /\ log[j].ok /\ Route!Yesterday(log[j]) /\ log[j].tokens # 0
  BY <1>4, <1>7, <1>19
<1>21. provider # "anthropic"
  BY <1>1, <1>2, <1>20 DEF RouteInv, WithoutTotals
<1>22. \A i \in 1..k : ft[i] = 0
  <2> SUFFICES ASSUME NEW i \in 1..k, log[i].day = day PROVE FALSE
    BY <1>2, <1>6
  <2>1. i \in 1..l /\ i < j
    BY <1>2, <1>20
  <2>2. /\ log[j].day \in Nat /\ day \in Nat /\ log[j].day <= day /\ log[i].day <= log[j].day
        /\ log[j].first => log[i].day # log[j].day
    BY <1>1, <1>2, <1>3, <2>1 DEF RouteInv, InTime
  <2>3. log[j].day = day
    BY <2>2
  <2>4. log[j].first /\ day # day - 1
    BY <1>20, <2>2, <2>3 DEF Route!Yesterday
  <2> QED
    BY <2>2, <2>3, <2>4
<1>23. Route!Sum(ft) = u
  BY <1>14, <1>15, <1>22
<1>24. (y * percent) \div 100 <= ((y1 + y) * percent) \div 100 /\ (y * percent) \div 100 \in Int
  BY <1>15, <1>16, Shares
<1>25. Route!Quota(log) = ((y1 + y) * percent) \div 100
  BY <1>9, <1>13, <1>15 DEF Route!Quota
<1>26. ((y1 + y) * percent) \div 100 \in Int
  BY <1>15, <1>16, Shares
<1>27. u < ((y1 + y) * percent) \div 100
  BY <1>15, <1>18, <1>24, <1>26
<1> QED
  BY <1>9, <1>21, <1>23, <1>25, <1>27

\* A shared key that the guard lets through has used less today than the share of all of
\* yesterday's use, however long the log and however little of it the guard reads.
THEOREM GuardErrsStrictly == Spec => []GuardIsStrict
<1>1. Init => RouteInv
  BY DEF Init, Route!RouteInit, RouteInv, InTime, WithoutTotals
<1> QED
  BY <1>1, RouteKeeps, GuardShows, PTL DEF Spec
=============================================================================
