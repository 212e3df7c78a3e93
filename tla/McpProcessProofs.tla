-------------------------- MODULE McpProcessProofs --------------------------
(***************************************************************************)
(* Theorems about McpProcess, for any finite set of tool calls, pipes of   *)
(* any size and any number of repeated answers.                            *)
(***************************************************************************)
EXTENDS McpProcess, FiniteSetTheorems, TLAPS

\* Request ids are handed out once.
IdInv ==
    /\ \A c \in Calls : id[c] = 0 <=> pc[c] = "new"
    /\ \A c, d \in Calls : id[c] = id[d] /\ id[c] # 0 => c = d

\* What the table of pending calls holds under an id is the call of that id, which has
\* not returned.
PendingInv ==
    \A i \in Ids : pending[i] # NoCall =>
        id[pending[i]] = i /\ pc[pending[i]] \in {"registered", "waiting", "leaving"}

\* A request for c, or an answer to it, is in the queue q of lines.
In(q, c) == \E k \in 1..Len(q) : q[k].id # 0 /\ q[k].call = c

\* No request or answer is in q twice.
Once(q) ==
    \A j, k \in 1..Len(q) : q[j].id # 0 /\ q[k].id # 0 /\ q[j].call = q[k].call => j = k

\* Lines have the id of their call.
LinesInv ==
    /\ \A k \in 1..Len(pipe) : pipe[k].id # 0 => pipe[k].id = id[pipe[k].call]
    /\ \A k \in 1..Len(out) : out[k].id # 0 /\ out[k].id = id[out[k].call]
    /\ \A r \in todo : r.id # 0 /\ r.id = id[r.call]

\* What the reader has in hand, what a channel holds and what a call returns belongs to
\* the call.
AnswerInv ==
    /\ reader = "send" => target \in Calls /\ line = target
    /\ \A c \in Calls : chan[c] \in Calls => chan[c] = c
    /\ \A c \in Calls : ret[c] \in Calls => ret[c] = c

\* The reader ends, and closes channels, only when the subprocess is gone.
GoneInv ==
    /\ closer \in {"draining", "closed"} => ~alive
    /\ reader \in {"signalled", "done"} => ~alive
    /\ \A c \in Calls : chan[c] = "closed" => reader \in {"signalled", "done"}
    /\ TurnedAwayMeansGone

\* Where an answer to c, or the request for it, may be.
InTodo(c) == \E r \in todo : r.call = c
InHand(c) == reader = "send" /\ line = c
InChan(c) == chan[c] \in Calls

\* A call that has written nothing is nowhere; and while nothing is repeated, a call is in
\* one place at most, and there once.
PlaceInv ==
    /\ \A c \in Calls : pc[c] \in {"new", "registered"} =>
          ~In(pipe, c) /\ ~InTodo(c) /\ ~In(out, c) /\ ~InHand(c) /\ ~InChan(c)
    /\ repeats = 0 =>
          /\ Once(pipe) /\ Once(out)
          /\ \A c \in Calls :
                /\ In(pipe, c) => ~InTodo(c) /\ ~In(out, c) /\ ~InHand(c) /\ ~InChan(c)
                /\ InTodo(c) => ~In(out, c) /\ ~InHand(c) /\ ~InChan(c)
                /\ In(out, c) => ~InHand(c) /\ ~InChan(c)
                /\ InHand(c) => ~InChan(c)

IndInv == TypeOK /\ IdInv /\ PendingInv /\ LinesInv /\ AnswerInv /\ GoneInv /\ PlaceInv

-----------------------------------------------------------------------------
(* Queues of lines *)

\* Taking the first line of a queue.
LEMMA TailFacts ==
    ASSUME NEW q \in Seq(Line), q # <<>>
    PROVE  /\ Head(q) \in Line /\ Head(q) = q[1] /\ 1 \in 1..Len(q)
           /\ Tail(q) \in Seq(Line) /\ Len(Tail(q)) = Len(q) - 1 /\ Len(q) \in Nat
           /\ \A k \in 1..Len(Tail(q)) : Tail(q)[k] = q[k + 1] /\ k + 1 \in 1..Len(q)
<1>1. Len(q) \in Nat /\ Len(q) > 0
  OBVIOUS
<1>2. Head(q) \in Line /\ Head(q) = q[1] /\ 1 \in 1..Len(q)
  BY <1>1
<1>3. Tail(q) \in Seq(Line) /\ Len(Tail(q)) = Len(q) - 1
  BY <1>1
<1>4. \A k \in 1..Len(Tail(q)) : Tail(q)[k] = q[k + 1] /\ k + 1 \in 1..Len(q)
  BY <1>1, <1>3
<1>5. QED
  BY <1>1, <1>2, <1>3, <1>4

\* Appending a line.
LEMMA AppendFacts ==
    ASSUME NEW q \in Seq(Line), NEW e \in Line
    PROVE  /\ Append(q, e) \in Seq(Line) /\ Len(Append(q, e)) = Len(q) + 1 /\ Len(q) \in Nat
           /\ Append(q, e)[Len(q) + 1] = e
           /\ \A k \in 1..Len(q) : Append(q, e)[k] = q[k]
  OBVIOUS

\* What a queue holds after its first line was taken.
LEMMA InTail ==
    ASSUME NEW q \in Seq(Line), q # <<>>, NEW c, In(Tail(q), c)
    PROVE  In(q, c)
  BY TailFacts DEF In

\* The first line is in the queue.
LEMMA InHead ==
    ASSUME NEW q \in Seq(Line), q # <<>>, Head(q).id # 0
    PROVE  In(q, Head(q).call)
  BY TailFacts DEF In

\* What a queue holds after an Append.
LEMMA InAppend ==
    ASSUME NEW q \in Seq(Line), NEW e \in Line, NEW c, In(Append(q, e), c)
    PROVE  In(q, c) \/ (e.id # 0 /\ e.call = c)
<1>1. PICK k \in 1..Len(Append(q, e)) : Append(q, e)[k].id # 0 /\ Append(q, e)[k].call = c
  BY DEF In
<1>2. CASE k \in 1..Len(q)
  BY <1>1, <1>2, AppendFacts DEF In
<1>3. CASE k = Len(q) + 1
  BY <1>1, <1>3, AppendFacts
<1>4. QED
  BY <1>2, <1>3, AppendFacts

\* Taking the first line leaves no second copy.
LEMMA OnceTail ==
    ASSUME NEW q \in Seq(Line), q # <<>>, Once(q)
    PROVE  Once(Tail(q)) /\ (Head(q).id # 0 => ~In(Tail(q), Head(q).call))
<1>1. Once(Tail(q))
  <2> SUFFICES ASSUME NEW j \in 1..Len(Tail(q)), NEW k \in 1..Len(Tail(q)),
                      Tail(q)[j].id # 0, Tail(q)[k].id # 0, Tail(q)[j].call = Tail(q)[k].call
               PROVE  j = k
    BY DEF Once
  <2>1. j + 1 = k + 1
    BY TailFacts DEF Once
  <2>2. QED
    BY <2>1, TailFacts
<1>2. ASSUME Head(q).id # 0, In(Tail(q), Head(q).call) PROVE FALSE
  <2>1. PICK k \in 1..Len(Tail(q)) : Tail(q)[k].id # 0 /\ Tail(q)[k].call = Head(q).call
    BY <1>2 DEF In
  <2>2. k + 1 = 1
    BY <1>2, <2>1, TailFacts DEF Once
  <2>3. QED
    BY <2>2, TailFacts
<1>3. QED
  BY <1>1, <1>2

\* Appending a line of a call that is not in the queue.
LEMMA OnceAppend ==
    ASSUME NEW q \in Seq(Line), NEW e \in Line, Once(q), e.id # 0 => ~In(q, e.call)
    PROVE  Once(Append(q, e))
<1> DEFINE p == Append(q, e)
<1> SUFFICES ASSUME NEW j \in 1..Len(p), NEW k \in 1..Len(p),
                    p[j].id # 0, p[k].id # 0, p[j].call = p[k].call
             PROVE  j = k
  BY DEF Once
<1>1. /\ j \in 1..Len(q) \/ j = Len(q) + 1
      /\ k \in 1..Len(q) \/ k = Len(q) + 1
  BY AppendFacts
<1>2. CASE j \in 1..Len(q) /\ k \in 1..Len(q)
  BY <1>2, AppendFacts DEF Once
<1>3. CASE j \in 1..Len(q) /\ k = Len(q) + 1
  <2>1. q[j].id # 0 /\ e.id # 0 /\ q[j].call = e.call
    BY <1>3, AppendFacts
  <2>2. QED
    BY <1>3, <2>1 DEF In
<1>4. CASE j = Len(q) + 1 /\ k \in 1..Len(q)
  <2>1. q[k].id # 0 /\ e.id # 0 /\ q[k].call = e.call
    BY <1>4, AppendFacts
  <2>2. QED
    BY <1>4, <2>1 DEF In
<1>5. QED
  BY <1>1, <1>2, <1>3, <1>4

-----------------------------------------------------------------------------
(* Ids *)

\* What the assumption says of names.
LEMMA Names ==
    /\ NoCall \notin Calls
    /\ "initialize" \in Calls /\ "tools/list" \in Calls
    /\ \A c \in Calls : c \notin Outcomes /\ c # "closed"
  BY ConstAssumption DEF Calls, Outcomes

\* There are finitely many calls.
LEMMA CallsFinite == IsFiniteSet(Calls) /\ Cardinality(Calls) \in Nat
<1>1. IsFiniteSet({"initialize"}) /\ IsFiniteSet({"initialize"} \cup {"tools/list"})
  BY FS_Singleton, FS_AddElement
<1>2. {"initialize"} \cup {"tools/list"} = {"initialize", "tools/list"}
  OBVIOUS
<1>3. IsFiniteSet(Calls)
  BY <1>1, <1>2, FS_Union, ConstAssumption DEF Calls
<1>4. QED
  BY <1>3, FS_CardinalityType

\* As long as a call is new, ids are left.
LEMMA IdsLeft ==
    ASSUME nextID = Cardinality({c \in Calls : pc[c] # "new"}), NEW d \in Calls, pc[d] = "new"
    PROVE  nextID \in Nat /\ nextID + 1 \in Ids
<1> DEFINE Used == {c \in Calls : pc[c] # "new"}
<1>1. /\ IsFiniteSet(Used) /\ Cardinality(Used) <= Cardinality(Calls)
      /\ Cardinality(Calls) = Cardinality(Used) => Calls = Used
  BY CallsFinite, FS_Subset
<1>2. Cardinality(Used) \in Nat
  BY <1>1, FS_CardinalityType
<1>3. Calls # Used
  OBVIOUS
<1>4. QED
  BY <1>1, <1>2, <1>3, CallsFinite DEF Ids

\* nextID never exceeds the number of calls.
LEMMA NextIdBound ==
    ASSUME nextID = Cardinality({c \in Calls : pc[c] # "new"})
    PROVE  nextID \in Nat /\ nextID <= Cardinality(Calls)
<1> DEFINE Used == {c \in Calls : pc[c] # "new"}
<1>1. IsFiniteSet(Used) /\ Cardinality(Used) <= Cardinality(Calls)
  BY CallsFinite, FS_Subset
<1>2. QED
  BY <1>1, FS_CardinalityType

\* Register takes the next id.
LEMMA NextIdStep ==
    ASSUME nextID = Cardinality({c \in Calls : pc[c] # "new"}), NEW d \in Calls, pc[d] = "new",
           pc' = [pc EXCEPT ![d] = "registered"], DOMAIN pc = Calls
    PROVE  nextID + 1 = Cardinality({c \in Calls : pc'[c] # "new"})
<1> DEFINE Used == {c \in Calls : pc[c] # "new"}
<1>1. {c \in Calls : pc'[c] # "new"} = Used \cup {d}
  OBVIOUS
<1>2. IsFiniteSet(Used) /\ d \notin Used
  BY CallsFinite, FS_Subset
<1>3. QED
  BY <1>1, <1>2, FS_AddElement

\* The id of a call is 0 or one of Ids.
LEMMA IdRange ==
    ASSUME TypeOK, NEW c \in Calls
    PROVE  id[c] \in Nat /\ (id[c] # 0 => id[c] \in Ids)
<1>1. id[c] \in 0..nextID
  BY DEF TypeOK
<1>2. nextID \in Nat /\ nextID <= Cardinality(Calls)
  BY NextIdBound DEF TypeOK
<1>3. QED
  BY <1>1, <1>2, CallsFinite DEF Ids

-----------------------------------------------------------------------------
(* The invariant holds initially *)

\* Nothing is registered, written or answered at the start.
LEMMA InitInv == Init => IndInv
<1> SUFFICES ASSUME Init PROVE IndInv
  OBVIOUS
<1> USE Names DEF Init
<1>1. TypeOK
  <2>1. {c \in Calls : pc[c] # "new"} = {}
    OBVIOUS
  <2>2. Cardinality({c \in Calls : pc[c] # "new"}) = 0
    BY <2>1, FS_EmptySet
  <2>3. pipe \in Seq(Line) /\ Len(pipe) <= PipeCap /\ out \in Seq(Line) /\ Len(out) <= OutCap
    BY ConstAssumption
  <2>4. repeats \in 0..MaxRepeats
    BY ConstAssumption
  <2>5. id \in [Calls -> 0..nextID] /\ nextID = Cardinality({c \in Calls : pc[c] # "new"})
    BY <2>2
  <2>6. QED
    BY <2>3, <2>4, <2>5 DEF TypeOK, Outcomes
<1>2. IdInv /\ PendingInv /\ LinesInv /\ AnswerInv
  BY DEF IdInv, PendingInv, LinesInv, AnswerInv, Outcomes
<1>3. GoneInv
  BY DEF GoneInv, TurnedAwayMeansGone
<1>4. PlaceInv
  BY DEF PlaceInv, In, Once, InTodo, InHand, InChan, Outcomes
<1>5. QED
  BY <1>1, <1>2, <1>3, <1>4 DEF IndInv

-----------------------------------------------------------------------------
(* Types *)

\* Every step keeps the types.
LEMMA TypeStep == TypeOK /\ IdInv /\ LinesInv /\ AnswerInv /\ [Next]_vars => TypeOK'
<1> SUFFICES ASSUME TypeOK, IdInv, LinesInv, AnswerInv, [Next]_vars PROVE TypeOK'
  OBVIOUS
<1>1. ASSUME NEW c \in Calls, Register(c) PROVE TypeOK'
  <2>1. nextID \in Nat /\ nextID + 1 \in Ids
    BY <1>1, IdsLeft DEF TypeOK, Register
  <2>2. nextID' = Cardinality({d \in Calls : pc'[d] # "new"})
    BY <1>1, NextIdStep DEF TypeOK, Register
  <2>3. id' \in [Calls -> 0..nextID']
    <3>1. id \in [Calls -> 0..nextID] /\ id' = [id EXCEPT ![c] = nextID + 1] /\ nextID' = nextID + 1
      BY <1>1 DEF TypeOK, Register
    <3>2. \A n \in 0..nextID : n \in 0..(nextID + 1)
      BY <2>1
    <3>3. nextID + 1 \in 0..(nextID + 1)
      BY <2>1
    <3>4. QED
      BY <3>1, <3>2, <3>3
  <2>4. QED
    BY <1>1, <2>1, <2>2, <2>3 DEF TypeOK, Register, serverVars, readerVars
<1>2. ASSUME NEW c \in Calls, pc[c] # "new", NEW s \in {"waiting", "leaving", "returned"},
             pc' = [pc EXCEPT ![c] = s]
      PROVE  Cardinality({d \in Calls : pc'[d] # "new"}) = Cardinality({d \in Calls : pc[d] # "new"})
  <2>1. {d \in Calls : pc'[d] # "new"} = {d \in Calls : pc[d] # "new"}
    BY <1>2 DEF TypeOK
  <2>2. QED
    BY <2>1
<1>3. ASSUME NEW c \in Calls, Write(c) PROVE TypeOK'
  <2>1. [id |-> id[c], call |-> c] \in Line
    BY IdRange DEF Line
  <2>2. pipe' \in Seq(Line) /\ Len(pipe') <= PipeCap
    BY <1>3, <2>1, AppendFacts, ConstAssumption DEF Write, TypeOK
  <2>3. nextID' = Cardinality({d \in Calls : pc'[d] # "new"})
    BY <1>2, <1>3 DEF Write, TypeOK
  <2>4. QED
    BY <1>3, <2>2, <2>3 DEF Write, TypeOK, readerVars
<1>4. ASSUME NEW c \in Calls, NEW r \in Calls \cup Outcomes, pc[c] # "new", Leave(c, r),
             chan' \in [Calls -> Calls \cup {"none", "closed"}]
      PROVE  TypeOK'
  <2>1. nextID' = Cardinality({d \in Calls : pc'[d] # "new"})
    BY <1>2, <1>4 DEF Leave, TypeOK
  <2>2. QED
    BY <1>4, <2>1 DEF Leave, TypeOK, serverVars, readerVars
<1>5. ASSUME NEW c \in Calls, WriteFails(c) \/ CtxDone(c) \/ ProcessExited(c) PROVE TypeOK'
  BY <1>4, <1>5 DEF WriteFails, CtxDone, ProcessExited, Outcomes, TypeOK
<1>6. ASSUME NEW c \in Calls, Receive(c) PROVE TypeOK'
  <2>1. chan' \in [Calls -> Calls \cup {"none", "closed"}]
    BY <1>6 DEF Receive, TypeOK
  <2>2. (IF chan[c] = "closed" THEN "empty" ELSE chan[c]) \in Calls \cup Outcomes
    BY <1>6 DEF Receive, TypeOK, Outcomes
  <2>3. QED
    BY <1>4, <1>6, <2>1, <2>2 DEF Receive
<1>7. ASSUME NEW c \in Calls, Unregister(c) PROVE TypeOK'
  <2>1. nextID' = Cardinality({d \in Calls : pc'[d] # "new"})
    BY <1>2, <1>7 DEF Unregister, TypeOK
  <2>2. QED
    BY <1>7, <2>1 DEF Unregister, TypeOK, serverVars, readerVars
<1>8. CASE Notify
  <2>1. [id |-> 0, call |-> "initialize"] \in Line
    BY Names DEF Line
  <2>2. pipe' \in Seq(Line) /\ Len(pipe') <= PipeCap
    BY <1>8, <2>1, AppendFacts, ConstAssumption DEF Notify, TypeOK
  <2>3. QED
    BY <1>8, <2>2 DEF Notify, TypeOK, callVars, readerVars
<1>9. CASE ReadLine
  <2>1. /\ Head(out) \in Line /\ out' \in Seq(Line) /\ Len(out') <= OutCap
        /\ Head(out).id # 0 /\ Head(out).id = id[Head(out).call]
    BY <1>9, TailFacts, ConstAssumption DEF ReadLine, TypeOK, LinesInv
  <2>2. Head(out).call \in Calls /\ Head(out).id \in Ids
    BY <2>1, IdRange DEF Line
  <2>3. pending[Head(out).id] \in Calls \cup {NoCall}
    BY <2>2 DEF TypeOK
  <2>4. reader' \in {"read", "send", "signalled", "done"} /\ target' \in Calls \cup {NoCall} /\ line' \in Calls \cup {NoCall}
    BY <1>9, <2>2, <2>3 DEF ReadLine, TypeOK, readerVars
  <2>5. QED
    BY <1>9, <2>1, <2>4 DEF ReadLine, TypeOK, callVars
<1>10. CASE Dispatch
  BY <1>10 DEF Dispatch, TypeOK, AnswerInv, serverVars
<1>11. CASE Eof
  BY <1>11 DEF Eof, TypeOK, serverVars
<1>12. CASE SignalDone \/ CloseStdin \/ CmdWait \/ CloseReturn
  BY <1>12 DEF SignalDone, CloseStdin, CmdWait, CloseReturn, TypeOK, callVars, serverVars, readerVars
<1>13. CASE ServerRead
  <2>1. Head(pipe) \in Line /\ pipe' \in Seq(Line) /\ Len(pipe') <= PipeCap
    BY <1>13, TailFacts, ConstAssumption DEF ServerRead, TypeOK
  <2>2. QED
    BY <1>13, <2>1 DEF ServerRead, TypeOK, callVars, readerVars
<1>14. ASSUME NEW r \in todo, NEW again \in BOOLEAN, ServerAnswer(r, again) PROVE TypeOK'
  <2>1. out' \in Seq(Line) /\ Len(out') <= OutCap
    BY <1>14, AppendFacts, ConstAssumption DEF ServerAnswer, TypeOK
  <2>2. todo' \subseteq Line /\ repeats' \in 0..MaxRepeats
    BY <1>14, ConstAssumption DEF ServerAnswer, TypeOK
  <2>3. QED
    BY <1>14, <2>1, <2>2 DEF ServerAnswer, TypeOK, callVars, readerVars
<1>15. CASE ServerExit
  BY <1>15 DEF ServerExit, TypeOK, callVars, readerVars
<1>16. CASE UNCHANGED vars
  BY <1>16 DEF TypeOK, vars, callVars, serverVars, readerVars
<1>17. QED
  BY <1>1, <1>3, <1>5, <1>6, <1>7, <1>8, <1>9, <1>10, <1>11, <1>12, <1>13, <1>14, <1>15, <1>16
     DEF Next, CallStep, ReaderStep, CloseStep

-----------------------------------------------------------------------------
(* Ids and the table of pending calls *)

\* Only Register touches ids; no other step takes a call out of "new".
LEMMA IdFrame ==
    ASSUME TypeOK, [Next]_vars
    PROVE  \/ \E c \in Calls : Register(c)
           \/ id' = id /\ nextID' = nextID /\ \A c \in Calls : pc'[c] = "new" <=> pc[c] = "new"
<1> DEFINE Frame == id' = id /\ nextID' = nextID /\ \A c \in Calls : pc'[c] = "new" <=> pc[c] = "new"
<1>1. ASSUME NEW c \in Calls, Write(c) PROVE Frame
  BY <1>1 DEF Write, TypeOK
<1>2. ASSUME NEW c \in Calls, WriteFails(c) \/ CtxDone(c) \/ ProcessExited(c) \/ Receive(c) PROVE Frame
  BY <1>2 DEF WriteFails, CtxDone, ProcessExited, Receive, Leave, TypeOK
<1>3. ASSUME NEW c \in Calls, Unregister(c) PROVE Frame
  BY <1>3 DEF Unregister, TypeOK
<1>4. CASE Notify \/ ReadLine \/ Dispatch \/ Eof \/ SignalDone
  BY <1>4 DEF Notify, ReadLine, Dispatch, Eof, SignalDone, callVars
<1>5. CASE CloseStdin \/ CmdWait \/ CloseReturn \/ ServerRead \/ ServerExit \/ UNCHANGED vars
  BY <1>5 DEF CloseStdin, CmdWait, CloseReturn, ServerRead, ServerExit, vars, callVars
<1>6. ASSUME NEW r \in todo, NEW again \in BOOLEAN, ServerAnswer(r, again) PROVE Frame
  BY <1>6 DEF ServerAnswer, callVars
<1>7. QED
  BY <1>1, <1>2, <1>3, <1>4, <1>5, <1>6 DEF Next, CallStep, ReaderStep, CloseStep

\* An id that was given stays.
LEMMA IdKept ==
    ASSUME TypeOK, IdInv, [Next]_vars, NEW c \in Calls, id[c] # 0
    PROVE  id'[c] = id[c]
<1>1. ASSUME NEW d \in Calls, Register(d) PROVE id'[c] = id[c]
  BY <1>1 DEF Register, TypeOK, IdInv
<1>2. QED
  BY <1>1, IdFrame

\* Ids are given once.
LEMMA IdStep == TypeOK /\ IdInv /\ [Next]_vars => IdInv'
<1> SUFFICES ASSUME TypeOK, IdInv, [Next]_vars PROVE IdInv'
  OBVIOUS
<1>1. ASSUME NEW c \in Calls, Register(c) PROVE IdInv'
  <2>1. nextID \in Nat
    BY <1>1, IdsLeft DEF TypeOK, Register
  <2>2. /\ id'[c] = nextID + 1 /\ pc'[c] = "registered"
        /\ \A d \in Calls : d # c => id'[d] = id[d] /\ pc'[d] = pc[d]
    BY <1>1 DEF TypeOK, Register
  <2>3. \A d \in Calls : id[d] # nextID + 1
    BY <2>1 DEF TypeOK
  <2>4. nextID + 1 # 0
    BY <2>1
  <2>5. QED
    BY <2>2, <2>3, <2>4 DEF IdInv
<1>2. CASE id' = id /\ nextID' = nextID /\ \A c \in Calls : pc'[c] = "new" <=> pc[c] = "new"
  BY <1>2 DEF IdInv
<1>3. QED
  BY <1>1, <1>2, IdFrame

\* The table holds calls that have not returned, each under its id.
LEMMA PendingStep == TypeOK /\ IdInv /\ PendingInv /\ [Next]_vars => PendingInv'
<1> SUFFICES ASSUME TypeOK, IdInv, PendingInv, [Next]_vars PROVE PendingInv'
  OBVIOUS
<1>0. \A i \in Ids : pending[i] # NoCall => pending[i] \in Calls
  BY DEF TypeOK
<1>1. ASSUME NEW c \in Calls, Register(c) PROVE PendingInv'
  <2>1. nextID + 1 \in Ids
    BY <1>1, IdsLeft DEF TypeOK, Register
  <2>2. /\ pending'[nextID + 1] = c /\ \A i \in Ids : i # nextID + 1 => pending'[i] = pending[i]
        /\ id'[c] = nextID + 1 /\ pc'[c] = "registered" /\ pc[c] = "new"
        /\ \A d \in Calls : d # c => id'[d] = id[d] /\ pc'[d] = pc[d]
    BY <1>1, <2>1 DEF TypeOK, Register
  <2>3. QED
    BY <1>0, <2>2 DEF PendingInv
<1>2. ASSUME NEW c \in Calls, Write(c) PROVE PendingInv'
  BY <1>0, <1>2 DEF Write, TypeOK, PendingInv
<1>3. ASSUME NEW c \in Calls, WriteFails(c) \/ CtxDone(c) \/ ProcessExited(c) \/ Receive(c) PROVE PendingInv'
  BY <1>0, <1>3 DEF WriteFails, CtxDone, ProcessExited, Receive, Leave, TypeOK, PendingInv
<1>4. ASSUME NEW c \in Calls, Unregister(c) PROVE PendingInv'
  <2>1. id[c] \in Ids
    BY <1>4, IdRange DEF Unregister, IdInv
  <2>2. /\ pending'[id[c]] = NoCall /\ \A i \in Ids : i # id[c] => pending'[i] = pending[i]
        /\ id' = id /\ \A d \in Calls : d # c => pc'[d] = pc[d]
    BY <1>4, <2>1 DEF Unregister, TypeOK
  <2>3. QED
    BY <1>0, <2>2 DEF PendingInv
<1>5. CASE Eof
  BY <1>5 DEF Eof, PendingInv
<1>6. CASE Notify \/ ReadLine \/ Dispatch \/ SignalDone
  BY <1>6 DEF Notify, ReadLine, Dispatch, SignalDone, callVars, PendingInv
<1>7. CASE CloseStdin \/ CmdWait \/ CloseReturn \/ ServerRead \/ ServerExit \/ UNCHANGED vars
  BY <1>7 DEF CloseStdin, CmdWait, CloseReturn, ServerRead, ServerExit, vars, callVars, PendingInv
<1>8. ASSUME NEW r \in todo, NEW again \in BOOLEAN, ServerAnswer(r, again) PROVE PendingInv'
  BY <1>8 DEF ServerAnswer, callVars, PendingInv
<1>9. QED
  BY <1>1, <1>2, <1>3, <1>4, <1>5, <1>6, <1>7, <1>8 DEF Next, CallStep, ReaderStep, CloseStep

-----------------------------------------------------------------------------
(* Lines and answers *)

\* What a line says of its call stays true.
LEMMA LineKept ==
    ASSUME TypeOK, IdInv, [Next]_vars, NEW r \in Line, r.id # 0, r.id = id[r.call]
    PROVE  r.id = id'[r.call]
<1>1. r.call \in Calls
  BY DEF Line
<1>2. QED
  BY <1>1, IdKept

\* Requests and answers carry the id of their call.
LEMMA LinesStep == TypeOK /\ IdInv /\ LinesInv /\ [Next]_vars => LinesInv'
<1> SUFFICES ASSUME TypeOK, IdInv, LinesInv, [Next]_vars PROVE LinesInv'
  OBVIOUS
<1>0. /\ \A k \in 1..Len(pipe) : pipe[k] \in Line /\ (pipe[k].id # 0 => pipe[k].id = id'[pipe[k].call])
      /\ \A k \in 1..Len(out) : out[k] \in Line /\ out[k].id # 0 /\ out[k].id = id'[out[k].call]
      /\ \A r \in todo : r \in Line /\ r.id # 0 /\ r.id = id'[r.call]
  <2>1. (\A k \in 1..Len(pipe) : pipe[k] \in Line) /\ (\A k \in 1..Len(out) : out[k] \in Line) /\ todo \subseteq Line
    BY DEF TypeOK
  <2>2. QED
    BY <2>1, LineKept DEF LinesInv
<1>1. CASE pipe' = pipe /\ out' = out /\ todo' = todo
  BY <1>0, <1>1 DEF LinesInv
<1>2. ASSUME NEW c \in Calls, Write(c) PROVE LinesInv'
  <2>1. [id |-> id[c], call |-> c] \in Line
    BY IdRange DEF Line
  <2>2. pipe' = Append(pipe, [id |-> id[c], call |-> c]) /\ out' = out /\ todo' = todo /\ id' = id
    BY <1>2 DEF Write
  <2>3. pipe \in Seq(Line)
    BY DEF TypeOK
  <2>4. \A k \in 1..Len(pipe') : pipe'[k].id # 0 => pipe'[k].id = id'[pipe'[k].call]
    BY <1>0, <2>1, <2>2, <2>3, AppendFacts
  <2>5. QED
    BY <1>0, <2>2, <2>4 DEF LinesInv
<1>3. CASE Notify
  <2>1. [id |-> 0, call |-> "initialize"] \in Line
    BY Names DEF Line
  <2>2. pipe' = Append(pipe, [id |-> 0, call |-> "initialize"]) /\ out' = out /\ todo' = todo
    BY <1>3 DEF Notify
  <2>3. pipe \in Seq(Line)
    BY DEF TypeOK
  <2>4. \A k \in 1..Len(pipe') : pipe'[k].id # 0 => pipe'[k].id = id'[pipe'[k].call]
    BY <1>0, <2>1, <2>2, <2>3, AppendFacts
  <2>5. QED
    BY <1>0, <2>2, <2>4 DEF LinesInv
<1>4. CASE ReadLine
  BY <1>0, <1>4, TailFacts DEF ReadLine, LinesInv, TypeOK
<1>5. CASE ServerRead
  <2>1. Head(pipe).id # 0 => Head(pipe).id = id'[Head(pipe).call]
    BY <1>0, <1>5, TailFacts DEF ServerRead, TypeOK
  <2>2. \A k \in 1..Len(pipe') : pipe'[k].id # 0 => pipe'[k].id = id'[pipe'[k].call]
    BY <1>0, <1>5, TailFacts DEF ServerRead, TypeOK
  <2>3. QED
    BY <1>0, <1>5, <2>1, <2>2 DEF ServerRead, LinesInv
<1>6. ASSUME NEW r \in todo, NEW again \in BOOLEAN, ServerAnswer(r, again) PROVE LinesInv'
  <2>1. out' = Append(out, r) /\ pipe' = pipe /\ todo' \subseteq todo
    BY <1>6 DEF ServerAnswer
  <2>2. r \in Line /\ out \in Seq(Line)
    BY DEF TypeOK
  <2>3. \A k \in 1..Len(out') : out'[k].id # 0 /\ out'[k].id = id'[out'[k].call]
    BY <1>0, <2>1, <2>2, AppendFacts
  <2>4. QED
    BY <1>0, <2>1, <2>3 DEF LinesInv
<1>7. ASSUME NEW c \in Calls, \/ Register(c) \/ WriteFails(c) \/ CtxDone(c) \/ ProcessExited(c)
                              \/ Receive(c) \/ Unregister(c)
      PROVE  LinesInv'
  BY <1>1, <1>7 DEF Register, WriteFails, CtxDone, ProcessExited, Receive, Leave, Unregister, serverVars
<1>8. CASE Dispatch \/ Eof \/ SignalDone \/ CloseStdin \/ CmdWait \/ CloseReturn \/ ServerExit \/ UNCHANGED vars
  BY <1>1, <1>8 DEF Dispatch, Eof, SignalDone, CloseStdin, CmdWait, CloseReturn, ServerExit, vars, serverVars
<1>9. QED
  BY <1>2, <1>3, <1>4, <1>5, <1>6, <1>7, <1>8 DEF Next, CallStep, ReaderStep, CloseStep

\* The line the reader takes next, when a call is pending under its id, answers that call.
LEMMA HeadAnswers ==
    ASSUME TypeOK, IdInv, PendingInv, LinesInv, out # <<>>, pending[Head(out).id] # NoCall
    PROVE  Head(out).call \in Calls /\ pending[Head(out).id] = Head(out).call
<1>1. Head(out) \in Line /\ Head(out).id # 0 /\ Head(out).id = id[Head(out).call]
  BY TailFacts DEF TypeOK, LinesInv
<1>2. Head(out).call \in Calls /\ Head(out).id \in Ids
  BY <1>1, IdRange DEF Line
<1>3. pending[Head(out).id] \in Calls /\ id[pending[Head(out).id]] = Head(out).id
  BY <1>2 DEF TypeOK, PendingInv
<1>4. QED
  BY <1>1, <1>2, <1>3 DEF IdInv

\* An answer reaches only the call it belongs to.
LEMMA AnswerStep == TypeOK /\ IdInv /\ PendingInv /\ LinesInv /\ AnswerInv /\ [Next]_vars => AnswerInv'
<1> SUFFICES ASSUME TypeOK, IdInv, PendingInv, LinesInv, AnswerInv, [Next]_vars PROVE AnswerInv'
  OBVIOUS
<1>0. "none" \notin Calls /\ "closed" \notin Calls
      /\ \A r \in Outcomes : r \notin Calls
  BY Names DEF Outcomes
<1>1. CASE chan' = chan /\ ret' = ret /\ UNCHANGED readerVars
  BY <1>1 DEF AnswerInv, readerVars
<1>2. ASSUME NEW c \in Calls, WriteFails(c) \/ CtxDone(c) \/ ProcessExited(c) PROVE AnswerInv'
  <2>1. PICK r \in Outcomes : ret' = [ret EXCEPT ![c] = r] /\ chan' = chan /\ UNCHANGED readerVars
    BY <1>2 DEF WriteFails, CtxDone, ProcessExited, Leave, Outcomes
  <2>2. QED
    BY <1>0, <2>1 DEF AnswerInv, TypeOK, readerVars
<1>3. ASSUME NEW c \in Calls, Receive(c) PROVE AnswerInv'
  <2>1. /\ UNCHANGED readerVars
        /\ ret'[c] = "empty" \/ ret'[c] = chan[c]
        /\ chan'[c] = "none" \/ chan'[c] = "closed"
        /\ \A d \in Calls : d # c => ret'[d] = ret[d] /\ chan'[d] = chan[d]
    BY <1>3 DEF Receive, Leave, TypeOK
  <2>2. "empty" \notin Calls
    BY <1>0 DEF Outcomes
  <2>3. QED
    BY <1>0, <2>1, <2>2 DEF AnswerInv, readerVars
<1>4. CASE ReadLine
  <2>1. chan' = chan /\ ret' = ret /\ reader = "read" /\ out # <<>>
    BY <1>4 DEF ReadLine, callVars
  <2>2. CASE pending[Head(out).id] = NoCall
    BY <1>1, <1>4, <2>1, <2>2 DEF ReadLine
  <2>3. CASE pending[Head(out).id] # NoCall
    <3>1. target' = pending[Head(out).id] /\ line' = Head(out).call
      BY <1>4, <2>3 DEF ReadLine
    <3>2. QED
      BY <2>1, <2>3, <3>1, HeadAnswers DEF AnswerInv
  <2>4. QED
    BY <2>2, <2>3
<1>5. CASE Dispatch
  BY <1>5 DEF Dispatch, AnswerInv, TypeOK
<1>6. CASE Eof
  BY <1>0, <1>6 DEF Eof, AnswerInv, TypeOK
<1>7. CASE SignalDone
  BY <1>7 DEF SignalDone, AnswerInv, callVars
<1>8. ASSUME NEW c \in Calls, Register(c) \/ Write(c) \/ Unregister(c) PROVE AnswerInv'
  BY <1>1, <1>8 DEF Register, Write, Unregister
<1>9. CASE Notify \/ CloseStdin \/ CmdWait \/ CloseReturn \/ ServerRead \/ ServerExit \/ UNCHANGED vars
  BY <1>1, <1>9 DEF Notify, CloseStdin, CmdWait, CloseReturn, ServerRead, ServerExit, vars, callVars
<1>10. ASSUME NEW r \in todo, NEW again \in BOOLEAN, ServerAnswer(r, again) PROVE AnswerInv'
  BY <1>1, <1>10 DEF ServerAnswer, callVars
<1>11. QED
  BY <1>2, <1>3, <1>4, <1>5, <1>6, <1>7, <1>8, <1>9, <1>10 DEF Next, CallStep, ReaderStep, CloseStep

-----------------------------------------------------------------------------
(* Calls that are turned away *)

\* The subprocess and stdin never come back, and what turns a call away is their end.
LEMMA GoneStep == TypeOK /\ AnswerInv /\ GoneInv /\ [Next]_vars => GoneInv'
<1> SUFFICES ASSUME TypeOK, AnswerInv, GoneInv, [Next]_vars PROVE GoneInv'
  OBVIOUS
<1> USE DEF GoneInv, TurnedAwayMeansGone, StdinOpen
<1>0. \A c \in Calls : c \notin {"none", "closed", "empty", "exited", "write"}
  BY Names DEF Outcomes
<1>1. CASE chan' = chan /\ ret' = ret /\ alive' = alive /\ closer' = closer
           /\ (reader' = reader \/ (reader = "read" /\ reader' = "send"))
  BY <1>1
<1>2. ASSUME NEW c \in Calls, WriteFails(c) PROVE GoneInv'
  BY <1>2 DEF WriteFails, Leave, TypeOK, serverVars, readerVars
<1>3. ASSUME NEW c \in Calls, CtxDone(c) PROVE GoneInv'
  BY <1>3 DEF CtxDone, Leave, TypeOK, serverVars, readerVars
<1>4. ASSUME NEW c \in Calls, ProcessExited(c) PROVE GoneInv'
  BY <1>4 DEF ProcessExited, Leave, TypeOK, serverVars, readerVars
<1>5. ASSUME NEW c \in Calls, Receive(c) PROVE GoneInv'
  <2>1. /\ alive' = alive /\ closer' = closer /\ reader' = reader
        /\ \A d \in Calls : d # c => ret'[d] = ret[d] /\ chan'[d] = chan[d]
    BY <1>5 DEF Receive, Leave, TypeOK, serverVars, readerVars
  <2>2. CASE chan[c] = "closed"
    BY <1>5, <2>1, <2>2 DEF Receive, Leave, TypeOK
  <2>3. CASE chan[c] # "closed"
    <3>1. chan[c] \in Calls /\ ret'[c] = chan[c] /\ chan'[c] = "none"
      BY <1>5, <2>3 DEF Receive, Leave, TypeOK
    <3>2. ret'[c] \notin {"empty", "exited", "write"}
      BY <1>0, <3>1
    <3>3. QED
      BY <2>1, <3>1, <3>2
  <2>4. QED
    BY <2>2, <2>3
<1>6. CASE Dispatch
  <2>1. /\ ret' = ret /\ alive' = alive /\ closer' = closer /\ reader = "send" /\ reader' = "read"
        /\ \A d \in Calls : chan'[d] = chan[d] \/ chan'[d] \in Calls
    BY <1>6 DEF Dispatch, TypeOK, AnswerInv, serverVars
  <2>2. QED
    BY <1>0, <2>1
<1>7. CASE Eof
  <2>1. ret' = ret /\ alive' = alive /\ closer' = closer /\ reader' = "signalled" /\ ~alive
    BY <1>7 DEF Eof, serverVars
  <2>2. QED
    BY <2>1
<1>8. CASE SignalDone
  BY <1>8 DEF SignalDone, callVars, serverVars
<1>9. CASE CloseStdin \/ CmdWait \/ CloseReturn
  BY <1>9 DEF CloseStdin, CmdWait, CloseReturn, callVars, serverVars, readerVars
<1>10. CASE ServerExit
  BY <1>10 DEF ServerExit, callVars, readerVars
<1>11. ASSUME NEW c \in Calls, Register(c) \/ Write(c) \/ Unregister(c) PROVE GoneInv'
  BY <1>1, <1>11 DEF Register, Write, Unregister, serverVars, readerVars
<1>12. CASE Notify \/ ReadLine \/ ServerRead \/ UNCHANGED vars
  BY <1>1, <1>12 DEF Notify, ReadLine, ServerRead, vars, callVars, serverVars, readerVars
<1>13. ASSUME NEW r \in todo, NEW again \in BOOLEAN, ServerAnswer(r, again) PROVE GoneInv'
  BY <1>1, <1>13 DEF ServerAnswer, callVars, readerVars
<1>14. QED
  BY <1>2, <1>3, <1>4, <1>5, <1>6, <1>7, <1>8, <1>9, <1>10, <1>11, <1>12, <1>13
     DEF Next, CallStep, ReaderStep, CloseStep

-----------------------------------------------------------------------------
(* Places *)

\* A step that brings nothing to a place keeps PlaceInv.
LEMMA PlaceFrame ==
    ASSUME PlaceInv,
           repeats' = 0 => repeats = 0,
           Once(pipe) => Once(pipe'), Once(out) => Once(out'),
           \A c \in Calls : /\ pc'[c] \in {"new", "registered"} => pc[c] \in {"new", "registered"}
                            /\ In(pipe', c) => In(pipe, c)
                            /\ InTodo(c)' => InTodo(c)
                            /\ In(out', c) => In(out, c)
                            /\ InHand(c)' => InHand(c)
                            /\ InChan(c)' => InChan(c)
    PROVE  PlaceInv'
  BY Zenon DEF PlaceInv

\* While nothing is repeated, a request or its answer is in one place.
LEMMA PlaceStep ==
    TypeOK /\ IdInv /\ PendingInv /\ LinesInv /\ AnswerInv /\ PlaceInv /\ [Next]_vars => PlaceInv'
<1> SUFFICES ASSUME TypeOK, IdInv, PendingInv, LinesInv, AnswerInv, PlaceInv, [Next]_vars PROVE PlaceInv'
  OBVIOUS
<1>0. /\ "none" \notin Calls /\ "closed" \notin Calls
      /\ pipe \in Seq(Line) /\ out \in Seq(Line) /\ todo \subseteq Line
  BY Names DEF Outcomes, TypeOK
<1>1. ASSUME pipe' = pipe, out' = out, todo' = todo, repeats' = repeats,
             \A c \in Calls : /\ pc'[c] \in {"new", "registered"} => pc[c] \in {"new", "registered"}
                              /\ InHand(c)' => InHand(c)
                              /\ InChan(c)' => InChan(c)
      PROVE  PlaceInv'
  BY <1>1, PlaceFrame DEF InTodo
<1>2. ASSUME NEW c \in Calls, Register(c) PROVE PlaceInv'
  BY <1>1, <1>2 DEF Register, TypeOK, serverVars, readerVars, InHand, InChan
<1>3. ASSUME NEW c \in Calls, WriteFails(c) \/ CtxDone(c) \/ ProcessExited(c) PROVE PlaceInv'
  BY <1>1, <1>3 DEF WriteFails, CtxDone, ProcessExited, Leave, TypeOK, serverVars, readerVars, InHand, InChan
<1>4. ASSUME NEW c \in Calls, Receive(c) PROVE PlaceInv'
  <2>1. chan'[c] \notin Calls /\ \A d \in Calls : d # c => chan'[d] = chan[d]
    BY <1>0, <1>4 DEF Receive, TypeOK
  <2>2. QED
    BY <1>1, <1>4, <2>1 DEF Receive, Leave, TypeOK, serverVars, readerVars, InHand, InChan
<1>5. ASSUME NEW c \in Calls, Unregister(c) PROVE PlaceInv'
  BY <1>1, <1>5 DEF Unregister, TypeOK, serverVars, readerVars, InHand, InChan
<1>6. CASE Eof
  <2>1. \A d \in Calls : chan'[d] \in Calls => chan[d] \in Calls
    BY <1>0, <1>6 DEF Eof, TypeOK
  <2>2. QED
    BY <1>1, <1>6, <2>1 DEF Eof, serverVars, InHand, InChan
<1>7. CASE SignalDone \/ CloseStdin \/ CmdWait \/ CloseReturn \/ ServerExit \/ UNCHANGED vars
  BY <1>1, <1>7 DEF SignalDone, CloseStdin, CmdWait, CloseReturn, ServerExit, vars, callVars, serverVars,
                    readerVars, InHand, InChan
<1>8. CASE Notify
  <2>1. [id |-> 0, call |-> "initialize"] \in Line
    BY Names DEF Line
  <2>2. /\ pipe' = Append(pipe, [id |-> 0, call |-> "initialize"]) /\ pc' = pc /\ chan' = chan
        /\ out' = out /\ todo' = todo /\ repeats' = repeats /\ reader' = reader /\ line' = line
    BY <1>8 DEF Notify, callVars, readerVars
  <2>3. \A d \in Calls : In(pipe', d) => In(pipe, d)
    BY <1>0, <2>1, <2>2, InAppend
  <2>4. Once(pipe) => Once(pipe')
    BY <1>0, <2>1, <2>2, OnceAppend
  <2>5. QED
    BY <2>2, <2>3, <2>4, PlaceFrame DEF InTodo, InHand, InChan
<1>9. ASSUME NEW c \in Calls, Write(c) PROVE PlaceInv'
  <2>1. [id |-> id[c], call |-> c] \in Line
    BY IdRange DEF Line
  <2>2. /\ pipe' = Append(pipe, [id |-> id[c], call |-> c]) /\ pc[c] = "registered" /\ pc'[c] = "waiting"
        /\ \A d \in Calls : d # c => pc'[d] = pc[d]
        /\ chan' = chan /\ out' = out /\ todo' = todo /\ repeats' = repeats
        /\ reader' = reader /\ line' = line
    BY <1>9 DEF Write, TypeOK, readerVars
  <2>3. ~In(pipe, c) /\ ~InTodo(c) /\ ~In(out, c) /\ ~InHand(c) /\ ~InChan(c)
    BY <2>2 DEF PlaceInv
  <2>4. \A d \in Calls : In(pipe', d) => In(pipe, d) \/ d = c
    BY <1>0, <2>1, <2>2, InAppend
  <2>5. Once(pipe) => Once(pipe')
    BY <1>0, <2>1, <2>2, <2>3, OnceAppend
  <2>6. \A d \in Calls : (InTodo(d)' <=> InTodo(d)) /\ (InHand(d)' <=> InHand(d)) /\ (InChan(d)' <=> InChan(d))
    BY <2>2 DEF InTodo, InHand, InChan
  <2>7. QED
    BY <2>2, <2>3, <2>4, <2>5, <2>6 DEF PlaceInv
<1>10. CASE ReadLine
  <2>1. /\ out # <<>> /\ out' = Tail(out) /\ pc' = pc /\ chan' = chan
        /\ pipe' = pipe /\ todo' = todo /\ repeats' = repeats /\ reader = "read"
    BY <1>10 DEF ReadLine, callVars
  <2>2. \A d \in Calls : /\ In(out', d) => In(out, d)
                         /\ InTodo(d)' <=> InTodo(d)
                         /\ InChan(d)' <=> InChan(d)
    BY <1>0, <2>1, InTail DEF InTodo, InChan
  <2>3. Once(out) => Once(out') /\ (Head(out).id # 0 => ~In(out', Head(out).call))
    BY <1>0, <2>1, OnceTail
  <2>4. CASE pending[Head(out).id] = NoCall
    <3>1. reader' = reader /\ line' = line
      BY <1>10, <2>4 DEF ReadLine, readerVars
    <3>2. QED
      BY <2>1, <2>2, <2>3, <3>1, PlaceFrame DEF InHand
  <2>5. CASE pending[Head(out).id] # NoCall
    <3> DEFINE h == Head(out).call
    <3>1. Head(out).id # 0 /\ h \in Calls /\ In(out, h)
      BY <1>0, <2>1, <2>5, HeadAnswers, TailFacts, InHead DEF LinesInv
    <3>2. \A d \in Calls : InHand(d)' <=> d = h
      BY <1>10, <2>5 DEF ReadLine, InHand
    <3> HIDE DEF h
    <3>3. pc[h] \notin {"new", "registered"}
      BY <3>1 DEF PlaceInv
    <3>4. repeats = 0 => ~In(pipe, h) /\ ~InTodo(h) /\ ~InChan(h)
      BY <3>1 DEF PlaceInv
    <3>5. Once(out) => ~In(out', h)
      BY <2>3, <3>1 DEF h
    <3>6. QED
      BY <2>1, <2>2, <2>3, <3>1, <3>2, <3>3, <3>4, <3>5 DEF PlaceInv
  <2>6. QED
    BY <2>4, <2>5
<1>11. CASE Dispatch
  <2>1. /\ pc' = pc /\ pipe' = pipe /\ out' = out /\ todo' = todo /\ repeats' = repeats
        /\ target \in Calls /\ InHand(target)
        /\ \A d \in Calls : d # target => chan'[d] = chan[d]
        /\ reader' = "read"
    BY <1>11 DEF Dispatch, AnswerInv, serverVars, TypeOK, InHand
  <2>2. \A d \in Calls : /\ InTodo(d)' <=> InTodo(d)
                         /\ ~InHand(d)'
                         /\ InChan(d)' => InChan(d) \/ d = target
    BY <2>1 DEF InTodo, InHand, InChan
  <2>3. QED
    BY <2>1, <2>2 DEF PlaceInv
<1>12. CASE ServerRead
  <2>1. /\ pipe # <<>> /\ pipe' = Tail(pipe) /\ pc' = pc /\ chan' = chan
        /\ out' = out /\ repeats' = repeats /\ reader' = reader /\ line' = line
    BY <1>12 DEF ServerRead, callVars, readerVars
  <2>2. \A d \in Calls : /\ In(pipe', d) => In(pipe, d)
                         /\ InHand(d)' <=> InHand(d)
                         /\ InChan(d)' <=> InChan(d)
    BY <1>0, <2>1, InTail DEF InHand, InChan
  <2>3. Once(pipe) => Once(pipe') /\ (Head(pipe).id # 0 => ~In(pipe', Head(pipe).call))
    BY <1>0, <2>1, OnceTail
  <2>4. CASE Head(pipe).id = 0
    <3>1. todo' = todo
      BY <1>12, <2>4 DEF ServerRead
    <3>2. QED
      BY <2>1, <2>2, <2>3, <3>1, PlaceFrame DEF InTodo
  <2>5. CASE Head(pipe).id # 0
    <3> DEFINE h == Head(pipe).call
    <3>1. h \in Calls /\ In(pipe, h)
      BY <1>0, <2>1, <2>5, TailFacts, InHead DEF Line
    <3>2. \A d \in Calls : InTodo(d)' => InTodo(d) \/ d = h
      BY <1>12, <2>5 DEF ServerRead, InTodo
    <3> HIDE DEF h
    <3>3. pc[h] \notin {"new", "registered"}
      BY <3>1 DEF PlaceInv
    <3>4. repeats = 0 => ~In(out, h) /\ ~InHand(h) /\ ~InChan(h)
      BY <3>1 DEF PlaceInv
    <3>5. Once(pipe) => ~In(pipe', h)
      BY <2>3, <2>5 DEF h
    <3>6. QED
      BY <2>1, <2>2, <2>3, <3>1, <3>2, <3>3, <3>4, <3>5 DEF PlaceInv
  <2>6. QED
    BY <2>4, <2>5
<1>13. ASSUME NEW r \in todo, NEW again \in BOOLEAN, ServerAnswer(r, again) PROVE PlaceInv'
  <2>1. /\ out' = Append(out, r) /\ pc' = pc /\ chan' = chan
        /\ pipe' = pipe /\ reader' = reader /\ line' = line
        /\ todo' \subseteq todo
    BY <1>13 DEF ServerAnswer, callVars, readerVars
  <2>2. r \in Line /\ r.id # 0 /\ r.call \in Calls /\ InTodo(r.call)
    BY <1>0 DEF Line, LinesInv, InTodo
  <2>3. \A d \in Calls : /\ In(out', d) => In(out, d) \/ d = r.call
                         /\ InTodo(d)' => InTodo(d)
                         /\ InHand(d)' <=> InHand(d)
                         /\ InChan(d)' <=> InChan(d)
    BY <1>0, <2>1, <2>2, InAppend DEF InTodo, InHand, InChan
  <2>4. pc[r.call] \notin {"new", "registered"}
    BY <2>2 DEF PlaceInv
  <2>5. CASE again
    <3>1. repeats' # 0
      BY <1>13, <2>5 DEF ServerAnswer, TypeOK
    <3>2. QED
      BY <2>1, <2>3, <2>4, <3>1 DEF PlaceInv
  <2>6. CASE ~again
    <3>1. todo' = todo \ {r} /\ repeats' = repeats
      BY <1>13, <2>6 DEF ServerAnswer
    <3>2. ~InTodo(r.call)'
      <4>1. ASSUME NEW q \in todo, q.call = r.call PROVE q = r
        <5>1. q.id = r.id /\ q \in Line
          BY <1>0, <4>1 DEF LinesInv
        <5>2. QED
          BY <2>2, <4>1, <5>1 DEF Line
      <4>2. QED
        BY <3>1, <4>1 DEF InTodo
    <3>3. repeats = 0 => ~In(pipe, r.call) /\ ~In(out, r.call) /\ ~InHand(r.call) /\ ~InChan(r.call)
      BY <2>2 DEF PlaceInv
    <3>4. repeats = 0 => (Once(out) => Once(out'))
      BY <1>0, <2>1, <2>2, <3>3, OnceAppend
    <3>5. QED
      BY <2>1, <2>2, <2>3, <2>4, <3>1, <3>2, <3>3, <3>4 DEF PlaceInv
  <2>7. QED
    BY <2>5, <2>6
<1>14. QED
  BY <1>2, <1>3, <1>4, <1>5, <1>6, <1>7, <1>8, <1>9, <1>10, <1>11, <1>12, <1>13
     DEF Next, CallStep, ReaderStep, CloseStep

-----------------------------------------------------------------------------
(* Theorems *)

\* The invariant behind all that follows.
THEOREM IndInvCorrect == Spec => []IndInv
<1>1. IndInv /\ [Next]_vars => IndInv'
  BY TypeStep, IdStep, PendingStep, LinesStep, AnswerStep, GoneStep, PlaceStep DEF IndInv
<1>2. QED
  BY <1>1, InitInv, PTL DEF Spec

\* Types, and ids handed out once each (Process.nextID, process.go:110).
THEOREM TypeCorrect == Spec => []TypeOK
<1>1. IndInv => TypeOK
  BY DEF IndInv
<1>2. QED
  BY <1>1, IndInvCorrect, PTL

\* However many calls are under way and in whichever order the subprocess answers, late or
\* repeatedly, a call returns the answer to its own request (readLoop, process.go:183-227).
THEOREM OwnAnswerCorrect == Spec => []OwnAnswer
<1>1. IndInv => OwnAnswer
  BY DEF IndInv, AnswerInv, OwnAnswer
<1>2. QED
  BY <1>1, IndInvCorrect, PTL

\* On whichever path a call returns, nothing of it is left in the pending map
\* (process.go:125-129).
THEOREM NothingLeftPendingCorrect == Spec => []NothingLeftPending
<1>1. IndInv => NothingLeftPending
  BY Names DEF IndInv, PendingInv, NothingLeftPending
<1>2. QED
  BY <1>1, IndInvCorrect, PTL

\* Unless an answer is repeated, the reader never waits for a call, whatever has become of
\* it: a channel of capacity one is enough (process.go:120).
THEOREM ReaderNeverBlocksCorrect == Spec => []ReaderNeverBlocks
<1>1. ASSUME IndInv PROVE ReaderNeverBlocks
  <2> SUFFICES ASSUME reader = "send", repeats = 0 PROVE chan[target] = "none"
    BY DEF ReaderNeverBlocks
  <2>1. target \in Calls /\ InHand(target)
    BY <1>1 DEF IndInv, AnswerInv, InHand
  <2>2. chan[target] \notin Calls
    BY <1>1, <2>1 DEF IndInv, PlaceInv, InChan
  <2>3. chan[target] # "closed"
    BY <1>1, <2>1 DEF IndInv, GoneInv
  <2>4. QED
    BY <1>1, <2>1, <2>2, <2>3 DEF IndInv, TypeOK
<1>2. QED
  BY <1>1, IndInvCorrect, PTL

\* A call is turned away only when the subprocess or its stdin is gone for good
\* (process.go:131, 138, 196-204).
THEOREM TurnedAwayMeansGoneCorrect == Spec => []TurnedAwayMeansGone
<1>1. IndInv => TurnedAwayMeansGone
  BY DEF IndInv, GoneInv
<1>2. QED
  BY <1>1, IndInvCorrect, PTL
=============================================================================
