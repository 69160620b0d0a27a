---------------------------- MODULE WechatProofs ----------------------------
(***************************************************************************)
(* AnsweredOnce for any number of messages, logins and starts.  It is not  *)
(* inductive: nothing in it says where the loop would start again.  The    *)
(* invariant ties the answers given so far to the stored cursor, or, while *)
(* a batch is in hand, to the messages of the batch that are left.         *)
(***************************************************************************)
EXTENDS WechatChannel, SequenceTheorems, TLAPS

\* The loop is a record of a place, a token, a cursor and a batch.
LoopOK ==
  /\ loop = [at |-> loop.at, token |-> loop.token, buf |-> loop.buf, batch |-> loop.batch]
  /\ loop.buf \in 0..arrived
  /\ loop.batch \in Seq(Nat)
Typed ==
  /\ arrived \in 0..MaxMessages
  /\ synced \in 0..arrived \cup {Torn}
  /\ answered \in Seq([msg : Nat, kind : {"reply", "sorry"}])
  /\ LoopOK

UpTo(n) == \A i \in DOMAIN answered : answered[i].msg <= n
InHand == loop.at \in {"save", "write", "handle", "apologise"}

\* A cursor that can be read is behind no answer.
CursorBehind == synced # Torn => UpTo(synced)
\* The loop polls and handles from the cursor that is stored.
CursorStored == loop.at \in {"poll", "handle", "apologise"} => synced = loop.buf
\* What is left of a batch ascends up to the cursor.
BatchAscends == InHand =>
  /\ loop.batch # <<>> /\ UpTo(loop.buf)
  /\ \A k \in DOMAIN loop.batch : loop.batch[k] <= loop.buf
  /\ \A k, l \in DOMAIN loop.batch : k < l => loop.batch[k] < loop.batch[l]
\* It comes after all answers, but for the reply an apology is about to follow.
BatchAhead == InHand => \A i \in DOMAIN answered :
  \/ answered[i].msg < Head(loop.batch)
  \/ loop.at = "apologise" /\ answered[i].msg = Head(loop.batch) /\ answered[i].kind = "reply"

Inv == Typed /\ AnsweredOnce /\ CursorBehind /\ CursorStored /\ BatchAscends /\ BatchAhead

-----------------------------------------------------------------------------
(* What is behind the cursor, and the answers to one message.              *)

\* The messages behind a cursor are numbered on from it.
LEMMA Behind ==
  ASSUME Typed, New # <<>>
  PROVE  /\ New \in Seq(Nat) /\ arrived > loop.buf
         /\ Head(New) = loop.buf + 1
         /\ \A k \in DOMAIN New : New[k] = loop.buf + k /\ New[k] <= arrived
<1>1. arrived \in Nat /\ loop.buf \in Nat /\ loop.buf <= arrived
  BY BoundsAreNumbers DEF Typed, LoopOK
<1>2. arrived # loop.buf
  <2>1. SUFFICES ASSUME arrived = loop.buf PROVE FALSE
    OBVIOUS
  <2>2. 1..(arrived - loop.buf) = {}
    BY <1>1, <2>1
  <2>3. New = <<>>
    BY <2>2 DEF New
  <2> QED
    BY <2>3
<1>3. New = [i \in 1..(arrived - loop.buf) |-> loop.buf + i]
  BY DEF New
<1>4. arrived - loop.buf \in Nat /\ arrived - loop.buf >= 1
  BY <1>1, <1>2
<1>5. New \in Seq(Nat) /\ Len(New) = arrived - loop.buf
  <2>1. New \in [1..(arrived - loop.buf) -> Nat]
    BY <1>1, <1>3, <1>4
  <2>2. New \in Seq(Nat)
    BY <1>4, <2>1, SeqDef
  <2> QED
    BY <1>4, <2>1, <2>2, LenProperties
<1>6. \A k \in DOMAIN New : New[k] = loop.buf + k /\ New[k] <= arrived
  BY <1>1, <1>3, <1>4
<1> QED
  BY <1>1, <1>4, <1>5, <1>6

\* Answers to the head of a batch keep the order of answers when the first is an apology only
\* after a reply.
LEMMA InOrder ==
  ASSUME Typed, AnsweredOnce, InHand, BatchAscends, BatchAhead,
         NEW kinds \in {<<>>, <<"reply">>, <<"sorry">>}, Got(kinds),
         kinds = <<"reply">> => loop.at # "apologise"
  PROVE  /\ AnsweredOnce'
         /\ answered' \in Seq([msg : Nat, kind : {"reply", "sorry"}])
         /\ \A i \in DOMAIN answered' :
              \/ i \in DOMAIN answered /\ answered'[i] = answered[i]
              \/ answered'[i].msg = Head(loop.batch) /\ kinds = <<answered'[i].kind>>
<1>1. Head(loop.batch) \in Nat /\ Head(loop.batch) <= loop.buf
  BY DEF Typed, LoopOK, InHand, BatchAscends
<1>2. CASE kinds = <<>>
  <2>1. answered' = answered \o <<>>
    <3>1. 1..Len(kinds) = {}
      BY <1>2
    <3>2. [i \in 1..Len(kinds) |-> [msg |-> Head(loop.batch), kind |-> kinds[i]]] = <<>>
      BY <3>1
    <3> QED
      BY <3>2 DEF Got
  <2>2. answered' = answered
    BY <2>1 DEF Typed
  <2> QED
    BY <2>2 DEF AnsweredOnce, Typed
<1>3. CASE kinds # <<>>
  <2>1. PICK kind \in {"reply", "sorry"} : kinds = <<kind>>
    BY <1>3
  <2>2. answered' = Append(answered, [msg |-> Head(loop.batch), kind |-> kind])
    BY <2>1 DEF Got, Typed
  <2>3. /\ answered' \in Seq([msg : Nat, kind : {"reply", "sorry"}])
        /\ Len(answered') = Len(answered) + 1
        /\ answered'[Len(answered) + 1] = [msg |-> Head(loop.batch), kind |-> kind]
        /\ \A i \in DOMAIN answered : answered'[i] = answered[i]
        /\ DOMAIN answered' = DOMAIN answered \cup {Len(answered) + 1}
    BY <1>1, <2>1, <2>2 DEF Typed
  <2>4. AnsweredOnce'
    <3>1. SUFFICES ASSUME NEW i \in DOMAIN answered', NEW j \in DOMAIN answered', i < j
                   PROVE  \/ answered'[i].msg < answered'[j].msg
                          \/ /\ answered'[i].msg = answered'[j].msg
                             /\ answered'[i].kind = "reply" /\ answered'[j].kind = "sorry"
      BY DEF AnsweredOnce
    <3>2. Len(answered) \in Nat /\ DOMAIN answered = 1..Len(answered)
      BY DEF Typed
    <3>3. i \in DOMAIN answered /\ answered'[i] = answered[i]
      BY <2>3, <3>1, <3>2
    <3>4. CASE j \in DOMAIN answered
      BY <2>3, <3>1, <3>3, <3>4 DEF AnsweredOnce
    <3>5. CASE j = Len(answered) + 1
      <4>1. answered'[j].msg = Head(loop.batch) /\ answered'[j].kind = kind
        BY <2>3, <3>5
      <4>2. \/ answered[i].msg < Head(loop.batch)
            \/ loop.at = "apologise" /\ answered[i].msg = Head(loop.batch) /\ answered[i].kind = "reply"
        BY <3>3 DEF BatchAhead
      <4>3. loop.at = "apologise" => kind = "sorry"
        BY <2>1
      <4> QED
        BY <3>3, <4>1, <4>2, <4>3
    <3> QED
      BY <2>3, <3>4, <3>5
  <2> QED
    BY <2>1, <2>3, <2>4
<1> QED
  BY <1>2, <1>3

\* What is left of a batch, once its head is handled, comes after that.
LEMMA Remaining ==
  ASSUME Typed, InHand, BatchAscends, Len(loop.batch) # 1
  PROVE  /\ Tail(loop.batch) \in Seq(Nat) /\ Tail(loop.batch) # <<>>
         /\ Head(loop.batch) < Head(Tail(loop.batch))
         /\ \A k \in DOMAIN Tail(loop.batch) :
              k + 1 \in DOMAIN loop.batch /\ Tail(loop.batch)[k] = loop.batch[k + 1]
<1> DEFINE b == loop.batch
<1>1. /\ b \in Seq(Nat) /\ b # <<>>
      /\ \A k, l \in DOMAIN b : k < l => b[k] < b[l]
  BY DEF Typed, LoopOK, BatchAscends
<1> HIDE DEF b
<1>5. Len(b) \in Nat /\ Len(b) >= 2 /\ DOMAIN b = 1..Len(b)
  <2>1. Len(b) # 1
    BY DEF b
  <2>2. Len(b) \in Nat /\ DOMAIN b = 1..Len(b)
    BY <1>1, LenProperties
  <2>3. Len(b) # 0
    BY <1>1, EmptySeq
  <2> QED
    BY <2>1, <2>2, <2>3
<1>2. Tail(b) \in Seq(Nat) /\ Len(Tail(b)) = Len(b) - 1
  BY <1>1, <1>5
<1>3. \A k \in 1..(Len(b) - 1) : k + 1 \in 1..Len(b) /\ Tail(b)[k] = b[k + 1]
  BY <1>1, <1>5
<1>4. DOMAIN Tail(b) = 1..(Len(b) - 1) /\ Tail(b) # <<>>
  <2>1. DOMAIN Tail(b) = 1..Len(Tail(b))
    BY <1>2, LenProperties
  <2>2. Tail(b) # <<>>
    <3>1. Len(Tail(b)) # 0
      BY <1>2, <1>5
    <3>2. Len(<<>>) = 0
      BY EmptySeq
    <3> QED
      BY <3>1, <3>2
  <2> QED
    BY <1>2, <2>1, <2>2
<1>6. Head(b) = b[1] /\ Head(Tail(b)) = b[2]
  BY <1>1, <1>2, <1>3, <1>4, <1>5
<1>7. b[1] < b[2]
  BY <1>1, <1>5
<1> QED
  BY <1>2, <1>3, <1>4, <1>5, <1>6, <1>7 DEF b

\* Answers are records of a message and a kind.
LEMMA MessagesAreNumbers ==
  ASSUME answered \in Seq([msg : Nat, kind : {"reply", "sorry"}])
  PROVE  \A i \in DOMAIN answered : answered[i].msg \in Nat
<1>1. SUFFICES ASSUME NEW i \in DOMAIN answered PROVE answered[i].msg \in Nat
  OBVIOUS
<1>2. answered[i] \in [msg : Nat, kind : {"reply", "sorry"}]
  <2>1. i \in 1..Len(answered)
    BY LenProperties
  <2> QED
    BY <2>1, ElementOfSeq
<1> QED
  BY <1>2

-----------------------------------------------------------------------------
(* The steps.                                                              *)

LEMMA InvInit == WxInit => Inv
BY BoundsAreNumbers DEF WxInit, Inv, Typed, LoopOK, AnsweredOnce, CursorBehind, CursorStored,
   BatchAscends, BatchAhead, InHand, UpTo, Down, Torn

\* What leaves the loop, the cursor and the answers alone.
LEMMA LoopRests ==
  ASSUME Inv, arrived' \in arrived..MaxMessages, UNCHANGED <<synced, loop, answered>>
  PROVE  Inv'
BY BoundsAreNumbers DEF Inv, Typed, LoopOK, AnsweredOnce, CursorBehind, CursorStored, BatchAscends, BatchAhead,
   InHand, UpTo, Torn

\* A loop that has no batch in hand and polls from the stored cursor, if it polls.
LEMMA LoopMoves ==
  ASSUME Inv, UNCHANGED <<arrived, synced, answered>>, LoopOK', ~InHand', CursorStored'
  PROVE  Inv'
BY DEF Inv, Typed, AnsweredOnce, CursorBehind, BatchAscends, BatchAhead, UpTo, Torn

LEMMA Polls == ASSUME Inv, Poll PROVE Inv'
<1>1. CASE loop.token # valid
  <2>1. LoopOK' /\ ~InHand' /\ CursorStored'
    BY <1>1 DEF Inv, Typed, LoopOK, InHand, CursorStored, Poll, LoopGoes, OnlyLoop
  <2> QED
    BY <1>1, <2>1, LoopMoves DEF Poll, OnlyLoop
<1>2. CASE loop.token = valid
  <2>1. New # <<>> /\ loop.at = "poll" /\ UNCHANGED <<arrived, synced, answered>>
    BY <1>2 DEF Poll, OnlyLoop
  <2>2. loop' = [at |-> "save", token |-> loop.token, buf |-> arrived, batch |-> New]
    BY <1>2 DEF Poll, Inv, Typed, LoopOK
  <2>3. UpTo(loop.buf) /\ loop.buf \in Nat /\ arrived \in Nat /\ loop.buf <= arrived
    BY <2>1, BoundsAreNumbers DEF Inv, Typed, LoopOK, CursorBehind, CursorStored, Torn
  <2>4. Typed'
    BY <2>1, <2>2, <2>3, Behind DEF Inv, Typed, LoopOK, Torn
  <2>5. /\ New \in Seq(Nat) /\ Head(New) = loop.buf + 1
        /\ \A k \in DOMAIN New : k \in Nat /\ New[k] = loop.buf + k /\ New[k] <= arrived
        /\ \A i \in DOMAIN answered : answered[i].msg \in Nat /\ answered[i].msg <= loop.buf
    BY <2>1, <2>3, Behind, MessagesAreNumbers DEF Inv, Typed, UpTo
  <2>6. loop'.at = "save" /\ loop'.buf = arrived /\ loop'.batch = New
    BY <2>2
  <2>8. BatchAscends'
    <3>1. \A k, l \in DOMAIN New : k < l => New[k] < New[l]
      BY <2>3, <2>5
    <3>2. \A i \in DOMAIN answered : answered[i].msg <= arrived
      BY <2>3, <2>5
    <3> QED
      BY <2>1, <2>5, <2>6, <3>1, <3>2 DEF BatchAscends, UpTo
  <2>9. BatchAhead'
    <3>1. \A i \in DOMAIN answered : answered[i].msg < Head(New)
      BY <2>3, <2>5
    <3> QED
      BY <2>1, <2>6, <3>1 DEF BatchAhead
  <2>7. AnsweredOnce' /\ CursorBehind' /\ CursorStored'
    BY <2>1, <2>2 DEF Inv, AnsweredOnce, CursorBehind, CursorStored, UpTo, Torn
  <2> QED
    BY <2>4, <2>7, <2>8, <2>9 DEF Inv
<1> QED
  BY <1>1, <1>2

\* The cursor is stored before the batch is handled: a stop between the two loses messages.
LEMMA Saves == ASSUME Inv, EmptySync \/ WriteSync PROVE Inv'
<1>1. InHand /\ UNCHANGED <<arrived, answered>> /\ synced' \in {Torn, loop.buf}
  BY DEF EmptySync, WriteSync, InHand
<1>2. loop' = [loop EXCEPT !.at = IF EmptySync THEN "write" ELSE "handle"]
  BY DEF EmptySync, WriteSync, LoopGoes
<1>3. /\ loop'.at \in {"write", "handle"} /\ LoopOK'
      /\ loop'.buf = loop.buf /\ loop'.batch = loop.batch
      /\ loop'.at = "handle" => synced' = loop.buf
      /\ loop.at # "apologise"
  BY <1>1, <1>2 DEF Inv, Typed, LoopOK, EmptySync, WriteSync
<1>4. Typed' /\ CursorStored'
  BY <1>1, <1>3 DEF Inv, Typed, LoopOK, CursorStored, Torn
<1>5. CursorBehind'
  BY <1>1 DEF Inv, CursorBehind, BatchAscends, UpTo, Torn
<1>6. BatchAscends' /\ BatchAhead' /\ AnsweredOnce'
  BY <1>1, <1>3 DEF Inv, InHand, BatchAscends, BatchAhead, UpTo, AnsweredOnce
<1> QED
  BY <1>4, <1>5, <1>6 DEF Inv

\* A message is done with: its answers are given and the batch goes on, or ends.
LEMMA GoesOn ==
  ASSUME Inv, loop.at \in {"handle", "apologise"}, UNCHANGED <<arrived, synced>>,
         NEW kinds \in {<<>>, <<"reply">>, <<"sorry">>}, Got(kinds),
         kinds = <<"reply">> => loop.at # "apologise",
         \/ loop' = Handled
         \/ loop' = [loop EXCEPT !.batch = <<>>, !.at = "poll"]
  PROVE  Inv'
<1> USE DEF InHand
<1>1. /\ AnsweredOnce'
      /\ answered' \in Seq([msg : Nat, kind : {"reply", "sorry"}])
      /\ \A i \in DOMAIN answered' :
           \/ i \in DOMAIN answered /\ answered'[i] = answered[i]
           \/ answered'[i].msg = Head(loop.batch)
  BY InOrder DEF Inv
<1>2. Head(loop.batch) \in Nat /\ Head(loop.batch) <= loop.buf
  BY DEF Inv, Typed, LoopOK, BatchAscends
<1>3. synced = loop.buf /\ loop.buf \in Nat
  BY BoundsAreNumbers DEF Inv, Typed, LoopOK, CursorStored
<1>4. \A i \in DOMAIN answered' : answered'[i].msg \in Nat /\ answered'[i].msg <= Head(loop.batch)
  <2>1. \A i \in DOMAIN answered : answered[i].msg \in Nat /\ answered[i].msg <= Head(loop.batch)
    BY <1>2, MessagesAreNumbers DEF Inv, Typed, BatchAhead
  <2> QED
    BY <1>1, <1>2, <2>1
<1>5. UpTo(loop.buf)'
  <2>1. loop'.buf = loop.buf
    BY DEF Inv, Typed, LoopOK, Handled
  <2>2. \A i \in DOMAIN answered' : answered'[i].msg <= loop.buf
    BY <1>2, <1>3, <1>4
  <2> QED
    BY <2>1, <2>2 DEF UpTo
<1>6. CASE loop'.at = "poll"
  <2>1. loop.batch \in Seq(Nat) /\ loop.batch # <<>> /\ Tail(loop.batch) \in Seq(Nat)
    BY DEF Inv, Typed, LoopOK, BatchAscends
  <2>2. loop' = [at |-> "poll", token |-> loop.token, buf |-> loop.buf, batch |-> loop'.batch] /\ loop'.batch \in Seq(Nat)
    <3>1. CASE loop' = Handled
      <4>1. loop' = [at |-> loop'.at, token |-> loop.token, buf |-> loop.buf, batch |-> Tail(loop.batch)]
        BY <3>1 DEF Inv, Typed, LoopOK, Handled
      <4>2. loop'.batch = Tail(loop.batch) /\ loop'.at = "poll"
        BY <1>6, <4>1
      <4> QED
        BY <2>1, <4>1, <4>2
    <3>2. CASE loop' = [loop EXCEPT !.batch = <<>>, !.at = "poll"]
      <4>1. loop' = [at |-> "poll", token |-> loop.token, buf |-> loop.buf, batch |-> <<>>]
        BY <3>2 DEF Inv, Typed, LoopOK
      <4> QED
        BY <4>1
    <3> QED
      BY <3>1, <3>2
  <2>3. LoopOK' /\ loop'.buf = loop.buf
    BY <2>2 DEF Inv, Typed, LoopOK
  <2> QED
    BY <1>1, <1>3, <1>5, <1>6, <2>3 DEF Inv, Typed, CursorBehind, CursorStored, BatchAscends, BatchAhead, UpTo, Torn
<1>7. CASE loop'.at # "poll"
  <2>1. loop' = [at |-> "handle", token |-> loop.token, buf |-> loop.buf, batch |-> Tail(loop.batch)] /\ Len(loop.batch) # 1
    BY <1>7 DEF Inv, Typed, LoopOK, Handled
  <2>2. /\ Tail(loop.batch) \in Seq(Nat) /\ Tail(loop.batch) # <<>>
        /\ Head(loop.batch) < Head(Tail(loop.batch))
        /\ \A k \in DOMAIN Tail(loop.batch) :
             k + 1 \in DOMAIN loop.batch /\ Tail(loop.batch)[k] = loop.batch[k + 1]
    BY <2>1, Remaining DEF Inv
  <2>3. Typed' /\ CursorStored' /\ CursorBehind'
    BY <1>1, <1>3, <1>5, <2>1, <2>2 DEF Inv, Typed, LoopOK, CursorStored, CursorBehind, UpTo, Torn
  <2>4. BatchAscends'
    <3>1. loop'.at = "handle" /\ loop'.buf = loop.buf /\ loop'.batch = Tail(loop.batch)
      BY <2>1
    <3>2. /\ \A k \in DOMAIN loop.batch : loop.batch[k] <= loop.buf
          /\ \A k, l \in DOMAIN loop.batch : k < l => loop.batch[k] < loop.batch[l]
      BY DEF Inv, BatchAscends
    <3>3. \A k, l \in DOMAIN Tail(loop.batch) : k < l => Tail(loop.batch)[k] < Tail(loop.batch)[l]
      <4>1. SUFFICES ASSUME NEW k \in DOMAIN Tail(loop.batch), NEW l \in DOMAIN Tail(loop.batch), k < l
                     PROVE  Tail(loop.batch)[k] < Tail(loop.batch)[l]
        OBVIOUS
      <4>2. k + 1 \in DOMAIN loop.batch /\ l + 1 \in DOMAIN loop.batch /\ k + 1 < l + 1
        BY <2>2, <4>1
      <4> QED
        BY <2>2, <3>2, <4>2
    <3>4. \A k \in DOMAIN Tail(loop.batch) : Tail(loop.batch)[k] <= loop.buf
      BY <2>2, <3>2
    <3> QED
      BY <1>5, <2>2, <3>1, <3>3, <3>4 DEF BatchAscends, UpTo
  <2>5. BatchAhead'
    <3>1. Head(Tail(loop.batch)) \in Nat
      BY <2>2
    <3>2. \A i \in DOMAIN answered' : answered'[i].msg < Head(Tail(loop.batch))
      BY <1>2, <1>4, <2>2, <3>1
    <3> QED
      BY <2>1, <3>2 DEF BatchAhead
  <2> QED
    BY <1>1, <2>3, <2>4, <2>5 DEF Inv
<1> QED
  BY <1>6, <1>7

\* A reply that may have been delivered before its sending raised.
LEMMA WillApologise ==
  ASSUME Inv, loop.at = "handle", UNCHANGED <<arrived, synced>>,
         NEW kinds \in {<<>>, <<"reply">>}, Got(kinds), LoopGoes("apologise")
  PROVE  Inv'
<1> USE DEF InHand
<1>1. /\ AnsweredOnce'
      /\ answered' \in Seq([msg : Nat, kind : {"reply", "sorry"}])
      /\ \A i \in DOMAIN answered' :
           \/ i \in DOMAIN answered /\ answered'[i] = answered[i]
           \/ answered'[i].msg = Head(loop.batch) /\ answered'[i].kind = "reply"
  BY InOrder DEF Inv
<1>2. loop' = [at |-> "apologise", token |-> loop.token, buf |-> loop.buf, batch |-> loop.batch]
  BY DEF Inv, Typed, LoopOK, LoopGoes
<1>3. Head(loop.batch) \in Nat /\ Head(loop.batch) <= loop.buf /\ synced = loop.buf /\ loop.buf \in Nat
  BY BoundsAreNumbers DEF Inv, Typed, LoopOK, BatchAscends, CursorStored
<1>4. UpTo(loop.buf)'
  BY <1>1, <1>2, <1>3 DEF UpTo, Inv, BatchAscends
<1>5. Typed' /\ CursorStored' /\ CursorBehind'
  BY <1>1, <1>2, <1>3, <1>4 DEF Inv, Typed, LoopOK, CursorStored, CursorBehind, UpTo, Torn
<1>6. BatchAscends'
  BY <1>2, <1>4 DEF Inv, BatchAscends
<1>7. BatchAhead'
  BY <1>1, <1>2 DEF Inv, BatchAhead
<1> QED
  BY <1>1, <1>5, <1>6, <1>7 DEF Inv

-----------------------------------------------------------------------------
LEMMA InvNext == Inv /\ [WxNext]_wxVars => Inv'
<1> SUFFICES ASSUME Inv, [WxNext]_wxVars PROVE Inv'
  OBVIOUS
<1>1. CASE Arrive
  BY <1>1, LoopRests, BoundsAreNumbers DEF Arrive, Inv, Typed
<1>2. CASE \/ Invalidate \/ Login \/ NextCode \/ Confirmed \/ EmptyAccount \/ WriteAccount
           \/ EmptyIndex \/ WriteIndex \/ UNCHANGED wxVars
  <2>1. UNCHANGED <<arrived, synced, loop, answered>>
    BY <1>2 DEF Invalidate, Login, NextCode, Confirmed, EmptyAccount, WriteAccount, EmptyIndex, WriteIndex,
       OnlyLogin, wxVars
  <2> QED
    BY <2>1, LoopRests, BoundsAreNumbers DEF Inv, Typed
<1>3. CASE StopPanel \/ StartPanel \/ Connect \/ Retry
  <2>1. UNCHANGED <<arrived, synced, answered>>
    BY <1>3 DEF StopPanel, StartPanel, Connect, Retry, OnlyLoop
  <2>2. /\ arrived \in Nat /\ loop.buf \in 0..arrived /\ loop.batch \in Seq(Nat)
        /\ loop = [at |-> loop.at, token |-> loop.token, buf |-> loop.buf, batch |-> loop.batch]
        /\ synced # Torn => synced \in 0..arrived
    BY BoundsAreNumbers DEF Inv, Typed, LoopOK
  <2>3. StopPanel => LoopOK' /\ ~InHand' /\ CursorStored'
    BY <2>1, <2>2 DEF LoopOK, InHand, CursorStored, StopPanel, Down
  <2>4. StartPanel => LoopOK' /\ ~InHand' /\ CursorStored'
    <3> SUFFICES ASSUME StartPanel PROVE LoopOK' /\ ~InHand' /\ CursorStored'
      OBVIOUS
    <3>1. \E where \in {"connect", "none"}, token \in {account, 0} :
            loop' = [at |-> where, token |-> token, buf |-> 0, batch |-> <<>>]
      BY DEF StartPanel, Down
    <3> QED
      BY <2>1, <2>2, <3>1 DEF LoopOK, InHand, CursorStored
  <2>5. Connect => LoopOK' /\ ~InHand' /\ CursorStored'
    BY <2>1, <2>2 DEF LoopOK, InHand, CursorStored, Connect
  <2>6. Retry => LoopOK' /\ ~InHand' /\ CursorStored'
    BY <2>1, <2>2 DEF LoopOK, InHand, CursorStored, Retry, LoopGoes
  <2>7. LoopOK' /\ ~InHand' /\ CursorStored'
    BY <1>3, <2>3, <2>4, <2>5, <2>6
  <2> QED
    BY <2>1, <2>7, LoopMoves
<1>4. CASE Poll
  BY <1>4, Polls
<1>5. CASE EmptySync \/ WriteSync
  BY <1>5, Saves
<1>6. CASE Handle
  <2>1. loop.at = "handle" /\ UNCHANGED <<arrived, synced>>
    BY <1>6 DEF Handle
  <2>2. CASE Got(<<>>) /\ loop' = Handled
    BY <2>1, <2>2, GoesOn
  <2>3. CASE Got(<<"reply">>) /\ loop' = Handled
    BY <2>1, <2>3, GoesOn
  <2>4. CASE \E delivered \in {<<>>, <<"reply">>} : Got(delivered) /\ LoopGoes("apologise")
    BY <2>1, <2>4, WillApologise
  <2> QED
    BY <1>6, <2>2, <2>3, <2>4 DEF Handle
<1>7. CASE Apologise
  <2>1. loop.at = "apologise" /\ UNCHANGED <<arrived, synced>>
    BY <1>7 DEF Apologise
  <2>2. CASE Got(<<"sorry">>) /\ loop' = Handled
    BY <2>1, <2>2, GoesOn
  <2>3. CASE \E delivered \in {<<>>, <<"sorry">>} :
               Got(delivered) /\ loop' = [loop EXCEPT !.batch = <<>>, !.at = "poll"]
    BY <2>1, <2>3, GoesOn
  <2> QED
    BY <1>7, <2>2, <2>3 DEF Apologise
<1> QED
  BY <1>1, <1>2, <1>3, <1>4, <1>5, <1>6, <1>7 DEF WxNext

\* However many messages, restarts, logins and failed sends there are: a user never gets two
\* replies to one message, an apology only after its failed reply, and nothing out of order
\* (_poll_loop, _handle_msg).
THEOREM NobodyAnsweredTwice == WxSpec => []AnsweredOnce
<1>1. Inv => AnsweredOnce
  BY DEF Inv
<1> QED
  BY <1>1, InvInit, InvNext, PTL DEF WxSpec
=============================================================================
