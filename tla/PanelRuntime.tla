---------------------------- MODULE PanelRuntime ----------------------------
(***************************************************************************)
(* The runtime of the control panel: MotherRuntime.run and its loop of     *)
(* model calls and tools (runtime/kernel.py), the working memory of a      *)
(* session (context/working_memory.py), the dispatch of a prompt           *)
(* (scheduler/scheduler.py) and the life cycle of a request.               *)
(*                                                                         *)
(* Requests of one session share its WorkingMemory and run in the server's *)
(* threads; nothing locks it.  A statement of the code is a step.          *)
(***************************************************************************)
EXTENDS Naturals, Sequences, SequencesExt

CONSTANTS PanelThreads, \* requests under way at once, all of the same session
          MaxRuns,      \* bound on requests
          TokenLimit,   \* tokens from which the memory compresses (80% of its limit)
          Lengths,      \* tokens of a user's message
          Histories     \* memories the session may have had before, <<>> when it is new

VARIABLES objects, \* every WorkingMemory made: its messages, [role, of, tokens]
          session, \* _sessions: the number of the session's object, 0 when there is none
          runs,    \* requests so far
          run,     \* what each thread is doing
          beside,  \* threads whose request has overlapped with another one
          results  \* what finished requests reported: [success, answered]

runtimeVars == <<objects, session, runs, run, beside, results>>

Rest == [at |-> "idle", id |-> 0, wm |-> 0, turn |-> 0, errors |-> 0, adds |-> <<>>, half |-> 0,
         then |-> "idle", answered |-> FALSE]
Message(role, id, tokens) == [role |-> role, of |-> id, tokens |-> tokens]

RuntimeInit == /\ objects \in {<<h>> : h \in Histories} /\ session = IF objects = <<<<>>>> THEN 0 ELSE 1
               /\ runs = 0 /\ beside = {} /\ results = {}
               /\ run = [t \in PanelThreads |-> Rest]

Goes(t, r) == run' = [run EXCEPT ![t] = r]
At(t, where) == run[t].at = where
Busy == {t \in PanelThreads : run[t] # Rest}

-----------------------------------------------------------------------------
(* run() up to the loop.                                                   *)

\* The Governor denies an empty message or a negative session: a failed result, nothing else.
Denied == /\ runs < MaxRuns /\ runs' = runs + 1
          /\ results' = results \cup {[success |-> FALSE, answered |-> FALSE]}
          /\ UNCHANGED <<objects, session, run, beside>>
Start(t) == /\ At(t, "idle") /\ runs < MaxRuns
            /\ runs' = runs + 1
            /\ Goes(t, [Rest EXCEPT !.at = "session", !.id = runs + 1])
            /\ beside' = IF Busy = {} THEN beside \ {t} ELSE beside \cup Busy \cup {t}
            /\ UNCHANGED <<objects, session, results>>

\* _get_session: look, make and store an object if there is none, read what is stored.
LookUp(t) == /\ At(t, "session")
             /\ Goes(t, [run[t] EXCEPT !.at = IF session = 0 THEN "create" ELSE "fetch"])
             /\ UNCHANGED <<objects, session, runs, beside, results>>
Create(t) == /\ At(t, "create")
             /\ objects' = Append(objects, <<>>) /\ session' = Len(objects) + 1
             /\ Goes(t, [run[t] EXCEPT !.at = "fetch"])
             /\ UNCHANGED <<runs, beside, results>>
Fetch(t) == /\ At(t, "fetch")
            /\ \E n \in Lengths :
                 Goes(t, [run[t] EXCEPT !.at = "append", !.wm = session, !.then = "ask",
                                        !.adds = <<Message("user", run[t].id, n)>>])
            /\ UNCHANGED <<objects, session, runs, beside, results>>

-----------------------------------------------------------------------------
(* WorkingMemory.add: append, then compress when over the limit: the older *)
(* half is replaced by one summary.  then is where the request goes on.    *)

Memory(t) == objects[run[t].wm]
Tokens(ms) == FoldSeq(LAMBDA m, n : m.tokens + n, 0, ms)
Over(ms) == Tokens(ms) >= TokenLimit /\ Len(ms) >= 4
\* MUTANT: only the last message stays.
HalfTooLong(ms) == Len(ms) - 1
Half(ms) == Len(ms) \div 2
Added(t) == IF Len(run[t].adds) = 1 THEN [run[t] EXCEPT !.at = run[t].then, !.adds = <<>>, !.half = 0]
            ELSE [run[t] EXCEPT !.at = "append", !.adds = Tail(@), !.half = 0]
StoreIn(t, ms) == objects' = [objects EXCEPT ![run[t].wm] = ms]

AddMessage(t) == /\ At(t, "append")
                 /\ StoreIn(t, Append(Memory(t), Head(run[t].adds)))
                 /\ Goes(t, [run[t] EXCEPT !.at = "measure"])
                 /\ UNCHANGED <<session, runs, beside, results>>
Measure(t) == /\ At(t, "measure")
              /\ Goes(t, IF Over(Memory(t)) THEN [run[t] EXCEPT !.at = "slice", !.half = Half(Memory(t))]
                         ELSE Added(t))
              /\ UNCHANGED <<objects, session, runs, beside, results>>
Slice(t) == /\ At(t, "slice")
            /\ StoreIn(t, SubSeq(Memory(t), run[t].half + 1, Len(Memory(t))))
            /\ Goes(t, [run[t] EXCEPT !.at = "summary"])
            /\ UNCHANGED <<session, runs, beside, results>>
Summarise(t) == /\ At(t, "summary")
                /\ StoreIn(t, <<Message("system", 0, 0)>> \o Memory(t))
                /\ Goes(t, Added(t))
                /\ UNCHANGED <<session, runs, beside, results>>

-----------------------------------------------------------------------------
(* The loop.                                                               *)

MaxTurns == 5
Adds(t, ms, next) == [run[t] EXCEPT !.at = "append", !.adds = ms, !.then = next]
Reply(t) == Adds(t, <<Message("assistant", run[t].id, 1)>>, "report")
NextTurn(r) == IF r.turn + 1 < MaxTurns THEN [r EXCEPT !.turn = @ + 1]
               ELSE [r EXCEPT !.at = "append", !.then = "report", !.adds = <<Message("assistant", r.id, 1)>>]

\* No candidate answers, or the client fails: the second time ends the loop with that as the reply.
NoAnswerTwice(t) == run[t].errors = 1
AskFails(t) == /\ At(t, "ask")
               /\ Goes(t, IF NoAnswerTwice(t) THEN Reply(t)
                          ELSE NextTurn([run[t] EXCEPT !.errors = @ + 1]))
               /\ UNCHANGED <<objects, session, runs, beside, results>>
\* An answer without tools, or one from the third turn on, is the reply.
AskAnswers(t) == /\ At(t, "ask")
                 /\ Goes(t, [Reply(t) EXCEPT !.answered = TRUE])
                 /\ UNCHANGED <<objects, session, runs, beside, results>>
\* An answer with tools: they are executed and both are remembered; the answer's text, if it
\* has any besides, is then the reply, otherwise the model is asked again.
AskTools(t) == /\ At(t, "ask") /\ run[t].turn < 2
               /\ LET own(role, n) == Message(role, run[t].id, n)
                      pair == <<own("assistant", 1), own("tool", 0)>>
                  IN \/ Goes(t, [Adds(t, pair, "ask") EXCEPT !.turn = @ + 1])
                     \/ Goes(t, [Adds(t, pair \o <<own("assistant", 1)>>, "report") EXCEPT !.answered = TRUE])
               /\ UNCHANGED <<objects, session, runs, beside, results>>
\* An answer that is no text raises: the only way to a failed result once the loop has begun.
AskRaises(t) == /\ At(t, "ask") /\ Goes(t, Rest)
                /\ results' = results \cup {[success |-> FALSE, answered |-> FALSE]}
                /\ UNCHANGED <<objects, session, runs, beside>>
\* Lifecycle.collect: no error in what the loop returned, whatever the loop met.
Report(t) == /\ At(t, "report") /\ Goes(t, Rest)
             /\ results' = results \cup {[success |-> TRUE, answered |-> run[t].answered]}
             /\ UNCHANGED <<objects, session, runs, beside>>

Prompt(ms) == SubSeq(ms, IF Len(ms) > 20 THEN Len(ms) - 19 ELSE 1, Len(ms))

RunStep(t) == \/ Start(t) \/ LookUp(t) \/ Create(t) \/ Fetch(t)
              \/ AddMessage(t) \/ Measure(t) \/ Slice(t) \/ Summarise(t)
              \/ AskFails(t) \/ AskAnswers(t) \/ AskTools(t) \/ AskRaises(t) \/ Report(t)
RuntimeNext == Denied \/ \E t \in PanelThreads : RunStep(t)
-----------------------------------------------------------------------------
Own(t, role, ms) == \E i \in DOMAIN ms : ms[i].of = run[t].id /\ ms[i].role = role

\* What a request that no other request of its session has overlapped asks the model with:
\* in its first turns its own question, after tools their results and its text before them,
\* however the memory was compressed in between.
AsksItsOwn == \A t \in PanelThreads : At(t, "ask") /\ t \notin beside =>
  LET asked == Prompt(Memory(t))
  IN IF Own(t, "tool", Memory(t)) THEN Own(t, "assistant", asked)
     ELSE Own(t, "user", asked) /\ Last(asked).of = run[t].id
=============================================================================
