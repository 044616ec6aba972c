--------------------------- MODULE AgentGraph_proofs ---------------------------
(***************************************************************************)
(* Theorems of AgentGraph, for any number of overlapping runs, threads and *)
(* data types, any limits of attempts and any errors and crashes.          *)
(***************************************************************************)
EXTENDS AgentGraph, TLAPS

Places == {"idle", "lost"} \cup Active \cup Replies

\* Code is never kept without the analysis it was written from: in a graph
\* state, in a checkpoint, or by the domain context.
Coherent(state) == state.code # None => state.analysis

CoherentContext(c) == c.artifact # None => c.analysis

\* The run itself has passed the gate with the code in its state.
Earned(r) ==
  /\ chan[r].code # None /\ tested[r] = chan[r].code
  /\ chan[r].test = "pass" /\ chan[r].records
  /\ artifact[request[r].type] # None

\* What the status in the state says of the run, once it is final.
Final(r) ==
  \/ chan[r].status = "success" /\ Earned(r) /\ attempt[r] \in 1..request[r].retries
  \/ chan[r].status = "max_retries_exceeded" /\ ~chan[r].records

RunInv(r) ==
  /\ Coherent(chan[r]) /\ CoherentContext(seen[r])
  /\ node[r] \in {"idle", "loading"} => attempt[r] = 0
  /\ node[r] \in {"analyze_site", "generate_code", "run_tests", "decide_next"} =>
       attempt[r] < request[r].retries
  /\ node[r] \in {"generate_code", "run_tests", "decide_next", "alert_human", "save_success"} =>
       chan[r].analysis
  /\ node[r] = "decide_next" => Earned(r) \/ (chan[r].test # "pass" /\ ~chan[r].records)
  /\ node[r] \in {"alert_human", "save_success", "save_errors", "add_messages",
                  "success", "max_retries_exceeded"} => Final(r)
  /\ node[r] \in {"save_success", "success"} => chan[r].status = "success"
  /\ node[r] \in {"alert_human", "save_errors", "max_retries_exceeded"} =>
       chan[r].status = "max_retries_exceeded"

GraphInv ==
  /\ TypeOK
  /\ attempt \in [Run -> Nat]
  /\ \A t \in Thread : Coherent(checkpoint[t])
  /\ CoherentContext(context) /\ ContextIsBacked
  /\ \A r \in Run : RunInv(r)

-------------------------------------------------------------------------------

LEMMA RequestTypes ==
  ASSUME TypeOK, NEW r \in Run
  PROVE  request[r].thread \in Thread /\ request[r].type \in DataType
         /\ request[r].retries \in Nat \ {0}
  <1>1. request[r] \in [thread : Thread, type : DataType, retries : Nat \ {0}]
    BY AgentAssumption DEF TypeOK
  <1> QED
    BY <1>1

LEMMA GraphInit == Init => GraphInv
  <1> SUFFICES ASSUME Init PROVE GraphInv
    OBVIOUS
  <1>1. Blank \in State /\ NoContext \in Context
    BY DEF Blank, State, NoContext, Context
  <1>2. TypeOK
    <2>1. \A r \in Run : attempt[r] \in 0..request[r].retries
      <3> SUFFICES ASSUME NEW r \in Run PROVE attempt[r] \in 0..request[r].retries
        OBVIOUS
      <3>1. request[r] \in [thread : Thread, type : DataType, retries : Nat \ {0}]
        BY AgentAssumption DEF Init
      <3> QED
        BY <3>1 DEF Init
    <2> QED
      BY <1>1, <2>1 DEF Init, TypeOK
  <1>3. Coherent(Blank) /\ CoherentContext(NoContext)
    BY DEF Coherent, CoherentContext, Blank, NoContext
  <1>4. ASSUME NEW r \in Run PROVE RunInv(r)
    BY <1>3 DEF Init, RunInv
  <1>5. ContextIsBacked /\ attempt \in [Run -> Nat]
    BY DEF Init, ContextIsBacked, NoContext
  <1> QED
    BY <1>2, <1>3, <1>4, <1>5 DEF GraphInv, Init

\* What a step of run r may do to what it shares with the others.
Moves(r) ==
  /\ UNCHANGED request
  /\ \A q \in Run \ {r} : /\ node'[q] = node[q] /\ attempt'[q] = attempt[q]
                          /\ chan'[q] = chan[q] /\ seen'[q] = seen[q] /\ tested'[q] = tested[q]
  /\ \A d \in DataType : artifact[d] # None => artifact'[d] # None
  /\ \A t \in Thread : Coherent(checkpoint'[t])
  /\ CoherentContext(context')
  /\ context'.artifact # None => artifact'[context'.artifact] # None

Types ==
  /\ node \in [Run -> Places]
  /\ attempt \in [Run -> Nat]
  /\ chan \in [Run -> State]
  /\ seen \in [Run -> Context]
  /\ preflight \in [Run -> {"none", "passed", "disallowed"}]
  /\ context \in Context
  /\ artifact \in [DataType -> Run \cup {None}]
  /\ checkpoint \in [Thread -> State]
  /\ tested \in [Run -> Run \cup {None}]

LEMMA GraphTypes == GraphInv => Types
  BY DEF GraphInv, TypeOK, Types, Places

\* It then preserves the invariant when it preserves its own part of it.
LEMMA MoveStep ==
  ASSUME GraphInv, NEW r \in Run, Moves(r), Types', RunInv(r)',
         attempt'[r] \in 0..request[r].retries
  PROVE  GraphInv'
  <1>1. TypeOK'
    <2>1. \A q \in Run : attempt'[q] \in 0..request[q].retries
      BY DEF GraphInv, TypeOK, Moves
    <2> QED
      BY <2>1 DEF GraphInv, TypeOK, Types, Places, Moves
  <1>2. ASSUME NEW q \in Run, q # r PROVE RunInv(q)'
    <2>1. Earned(q) => Earned(q)'
      BY <1>2, RequestTypes DEF GraphInv, Earned, Moves
    <2>2. /\ node'[q] = node[q] /\ attempt'[q] = attempt[q] /\ chan'[q] = chan[q]
          /\ seen'[q] = seen[q] /\ UNCHANGED request
      BY <1>2 DEF Moves
    <2> QED
      BY <2>1, <2>2 DEF GraphInv, RunInv, Final, Coherent, CoherentContext
  <1>3. ContextIsBacked' /\ CoherentContext(context)' /\ (\A t \in Thread : Coherent(checkpoint[t]))'
    BY DEF Moves, ContextIsBacked, CoherentContext, Coherent
  <1>4. \A q \in Run : RunInv(q)'
    BY <1>2
  <1> QED
    BY <1>1, <1>3, <1>4 DEF GraphInv, Types

\* A node that returns or raises with nothing else changed in the shared state.
LEMMA ReturnsMoves ==
  ASSUME GraphInv, NEW r \in Run, NEW state \in State, Coherent(state), NEW next \in Places,
         NodeReturns(r, state, next)
  PROVE  /\ node' \in [Run -> Places] /\ node'[r] = next
         /\ chan' \in [Run -> State] /\ chan'[r] = state
         /\ checkpoint' \in [Thread -> State] /\ \A t \in Thread : Coherent(checkpoint'[t])
         /\ \A q \in Run \ {r} : node'[q] = node[q] /\ chan'[q] = chan[q]
  <1>1. request[r].thread \in Thread
    BY RequestTypes DEF GraphInv
  <1>2. Types
    BY GraphTypes
  <1>3. CASE checkpoint' = checkpoint
    BY <1>2, <1>3 DEF NodeReturns, Goto, Types, GraphInv
  <1>4. CASE checkpoint' = [checkpoint EXCEPT ![request[r].thread] = state]
    BY <1>1, <1>2, <1>4 DEF NodeReturns, Goto, Types, GraphInv
  <1> QED
    BY <1>3, <1>4 DEF NodeReturns

LEMMA ContextStays ==
  ASSUME GraphInv, UNCHANGED context,
         \A d \in DataType : artifact[d] # None => artifact'[d] # None
  PROVE  /\ CoherentContext(context')
         /\ context'.artifact # None => artifact'[context'.artifact] # None
  BY DEF GraphInv, ContextIsBacked, CoherentContext, TypeOK, Context

-------------------------------------------------------------------------------
(* The steps of a run                                                      *)

LEMMA LoadMemoryStep == ASSUME GraphInv, NEW r \in Run, LoadMemory(r) PROVE GraphInv'
  <1> USE DEF LoadMemory, Goto
  <1>1. Types /\ RunInv(r) /\ attempt[r] \in 0..request[r].retries
    BY GraphTypes DEF GraphInv, TypeOK
  <1>2. Types'
    BY <1>1 DEF Types, Places, Active, Replies
  <1>3. Moves(r)
    BY <1>1, ContextStays DEF Moves, Types, GraphInv
  <1>4. RunInv(r)'
    <2>1. node'[r] \in {"loading", "error500"} /\ CoherentContext(seen'[r])
      BY <1>1 DEF Types, GraphInv, RunInv
    <2> QED
      BY <1>1, <2>1 DEF RunInv
  <1> QED
    BY <1>1, <1>2, <1>3, <1>4, MoveStep

LEMMA PrepareRaisesStep == ASSUME GraphInv, NEW r \in Run, PrepareRaises(r) PROVE GraphInv'
  <1> USE DEF PrepareRaises, Goto
  <1>1. Types /\ RunInv(r) /\ attempt[r] \in 0..request[r].retries
    BY GraphTypes DEF GraphInv, TypeOK
  <1>2. Types'
    BY <1>1 DEF Types, Places, Replies
  <1>3. Moves(r)
    BY <1>1, ContextStays DEF Moves, Types, GraphInv
  <1>4. RunInv(r)'
    <2>1. node'[r] = "error500"
      BY <1>1 DEF Types
    <2> QED
      BY <1>1, <2>1 DEF RunInv
  <1> QED
    BY <1>1, <1>2, <1>3, <1>4, MoveStep

LEMMA PrepareStep == ASSUME GraphInv, NEW r \in Run, Prepare(r) PROVE GraphInv'
  <1> DEFINE state == Initial(r)
             next == IF state.code # None THEN "run_tests" ELSE "analyze_site"
  <1>1. Types /\ RunInv(r) /\ request[r].thread \in Thread /\ request[r].retries \in Nat \ {0}
    BY GraphTypes, RequestTypes DEF GraphInv
  <1>2. state \in State /\ Coherent(state)
    <2>1. checkpoint[request[r].thread] \in State /\ Coherent(checkpoint[request[r].thread])
      BY <1>1 DEF Types, GraphInv
    <2>2. seen[r] \in Context /\ CoherentContext(seen[r])
      BY <1>1 DEF Types, RunInv
    <2>3. ASSUME NEW name \in DataType PROVE artifact[name] \in Run \cup {None}
      BY <1>1 DEF Types
    <2>4. seen[r].artifact # None => seen[r].artifact \in DataType
      BY <2>2 DEF Context
    <2> QED
      BY <2>1, <2>2, <2>3, <2>4 DEF Initial, State, Context, Coherent, CoherentContext
  <1>3. NodeReturns(r, state, next) /\ next \in Places
    BY DEF Prepare, Places, Active, GraphNodes
  <1> HIDE DEF state
  <1>4. /\ node' \in [Run -> Places] /\ node'[r] = next
        /\ chan' \in [Run -> State] /\ chan'[r] = state
        /\ checkpoint' \in [Thread -> State] /\ \A t \in Thread : Coherent(checkpoint'[t])
        /\ \A q \in Run \ {r} : node'[q] = node[q] /\ chan'[q] = chan[q]
    BY <1>2, <1>3, ReturnsMoves
  <1>5. Types' /\ Moves(r)
    BY <1>1, <1>4, ContextStays DEF Prepare, Types, Moves
  <1>6. RunInv(r)' /\ attempt'[r] \in 0..request[r].retries
    BY <1>1, <1>2, <1>4 DEF Prepare, RunInv, Coherent
  <1> QED
    BY <1>5, <1>6, MoveStep

\* The nodes that only change the graph state and the preflight.
LEMMA AnalyzeStep ==
  ASSUME GraphInv, NEW r \in Run, AnalyzeSite(r) \/ GenerateCode(r) PROVE GraphInv'
  <1>1. Types /\ RunInv(r) /\ attempt[r] \in 0..request[r].retries
    BY GraphTypes DEF GraphInv, TypeOK
  <1>2. PICK state \in State, next \in {"generate_code", "run_tests"} :
          /\ NodeReturns(r, state, next)
          /\ node[r] \in {"analyze_site", "generate_code"} /\ state.analysis
    <2>1. chan[r] \in State
      BY <1>1 DEF Types
    <2>2. CASE AnalyzeSite(r)
      <3>1. [chan[r] EXCEPT !.analysis = TRUE] \in State
            /\ [chan[r] EXCEPT !.analysis = TRUE].analysis
        BY <2>1 DEF State
      <3> QED
        BY <2>2, <3>1 DEF AnalyzeSite
    <2>3. CASE GenerateCode(r)
      <3>1. PICK c \in {r, None} : NodeReturns(r, [chan[r] EXCEPT !.code = c], "run_tests")
        BY <2>3 DEF GenerateCode
      <3>2. [chan[r] EXCEPT !.code = c] \in State /\ [chan[r] EXCEPT !.code = c].analysis
        BY <1>1, <2>1, <2>3 DEF State, GenerateCode, RunInv
      <3> QED
        BY <2>3, <3>1, <3>2 DEF GenerateCode
    <2> QED
      BY <2>2, <2>3
  <1>3. Coherent(state) /\ next \in Places
    BY <1>2 DEF Coherent, Places, Active, GraphNodes
  <1>4. /\ node' \in [Run -> Places] /\ node'[r] = next
        /\ chan' \in [Run -> State] /\ chan'[r] = state
        /\ checkpoint' \in [Thread -> State] /\ \A t \in Thread : Coherent(checkpoint'[t])
        /\ \A q \in Run \ {r} : node'[q] = node[q] /\ chan'[q] = chan[q]
    BY <1>2, <1>3, ReturnsMoves
  <1>5. /\ UNCHANGED <<request, attempt, seen, context, artifact, tested>>
        /\ preflight' \in [Run -> {"none", "passed", "disallowed"}]
    BY <1>1 DEF AnalyzeSite, GenerateCode, Types
  <1>6. Types' /\ Moves(r)
    BY <1>1, <1>4, <1>5, ContextStays DEF Types, Moves
  <1>7. RunInv(r)'
    BY <1>1, <1>2, <1>3, <1>4, <1>5 DEF RunInv
  <1> QED
    BY <1>1, <1>5, <1>6, <1>7, MoveStep

LEMMA TestStep ==
  ASSUME GraphInv, NEW r \in Run, TestFails(r) \/ TestPasses(r) PROVE GraphInv'
  <1>1. Types /\ RunInv(r) /\ attempt[r] \in 0..request[r].retries /\ request[r].type \in DataType
    BY GraphTypes, RequestTypes DEF GraphInv, TypeOK
  <1>2. chan[r] \in State /\ node[r] = "run_tests" /\ chan[r].analysis /\ Coherent(chan[r])
    BY <1>1 DEF Types, RunInv, TestFails, TestPasses
  <1>3. PICK state :
          /\ NodeReturns(r, state, "decide_next")
          /\ \/ /\ state = [chan[r] EXCEPT !.test = "fail", !.records = FALSE]
                /\ tested' = [tested EXCEPT ![r] = None] /\ UNCHANGED artifact
             \/ /\ chan[r].code # None
                /\ state = [chan[r] EXCEPT !.test = "pass", !.records = TRUE]
                /\ tested' = [tested EXCEPT ![r] = chan[r].code] /\ artifact' = Promoted(r)
    BY DEF TestFails, TestPasses
  <1>4. state \in State /\ Coherent(state) /\ state.analysis /\ "decide_next" \in Places
        /\ state.code = chan[r].code
    BY <1>2, <1>3 DEF State, Coherent, Places, Active, GraphNodes
  <1>5. /\ node' \in [Run -> Places] /\ node'[r] = "decide_next"
        /\ chan' \in [Run -> State] /\ chan'[r] = state
        /\ checkpoint' \in [Thread -> State] /\ \A t \in Thread : Coherent(checkpoint'[t])
        /\ \A q \in Run \ {r} : node'[q] = node[q] /\ chan'[q] = chan[q]
    BY <1>3, <1>4, ReturnsMoves
  <1>6. UNCHANGED <<request, attempt, seen, preflight, context>>
    BY DEF TestFails, TestPasses
  <1>7. /\ artifact' \in [DataType -> Run \cup {None}]
        /\ \A d \in DataType : artifact[d] # None => artifact'[d] # None
        /\ tested' \in [Run -> Run \cup {None}]
        /\ \A q \in Run \ {r} : tested'[q] = tested[q]
    BY <1>1, <1>2, <1>3 DEF Types, Promoted, State
  <1>8. Types' /\ Moves(r)
    BY <1>1, <1>5, <1>6, <1>7, ContextStays DEF Types, Moves
  <1>9. Earned(r)' \/ (state.test # "pass" /\ ~state.records)
    <2>1. CASE chan[r].code # None /\ state = [chan[r] EXCEPT !.test = "pass", !.records = TRUE]
               /\ tested' = [tested EXCEPT ![r] = chan[r].code] /\ artifact' = Promoted(r)
      <3>1. tested'[r] = chan[r].code /\ artifact'[request[r].type] = chan[r].code
            /\ state.test = "pass" /\ state.records
        BY <1>1, <1>2, <2>1 DEF Types, Promoted, State
      <3> QED
        BY <1>4, <1>5, <1>6, <2>1, <3>1 DEF Earned
    <2>2. CASE state = [chan[r] EXCEPT !.test = "fail", !.records = FALSE]
      BY <1>2, <2>2 DEF State
    <2> QED
      BY <1>3, <2>1, <2>2
  <1>10. RunInv(r)'
    BY <1>1, <1>2, <1>4, <1>5, <1>6, <1>9 DEF RunInv
  <1> QED
    BY <1>1, <1>6, <1>8, <1>10, MoveStep

LEMMA DecideStep == ASSUME GraphInv, NEW r \in Run, DecideNext(r) PROVE GraphInv'
  <1>1. /\ Types /\ RunInv(r) /\ node[r] = "decide_next"
        /\ attempt[r] \in Nat /\ attempt[r] < request[r].retries
        /\ request[r].retries \in Nat \ {0}
    BY GraphTypes, RequestTypes DEF GraphInv, Types, RunInv, DecideNext
  <1>2. chan[r] \in State /\ chan[r].analysis
        /\ (Earned(r) \/ (chan[r].test # "pass" /\ ~chan[r].records))
    BY <1>1 DEF Types, RunInv
  <1> DEFINE To(status, next) == NodeReturns(r, [chan[r] EXCEPT !.status = status], next)
             Decided(status, next) ==
               /\ To(status, next)
               /\ (status = "success" <=> Passed(r))
               /\ status = "retry" => attempt[r] + 1 < request[r].retries
  <1>3. \/ Decided("success", "save_success")
        \/ Decided("max_retries_exceeded", "alert_human")
        \/ Decided("retry", "analyze_site")
    <2>0. /\ Passed(r) => To("success", "save_success")
          /\ ~Passed(r) /\ attempt[r] + 1 >= request[r].retries =>
               To("max_retries_exceeded", "alert_human")
          /\ ~Passed(r) /\ ~(attempt[r] + 1 >= request[r].retries) => To("retry", "analyze_site")
      BY DEF DecideNext
    <2> HIDE DEF To
    <2>1. CASE Passed(r)
      BY <2>0, <2>1
    <2>2. CASE ~Passed(r) /\ attempt[r] + 1 >= request[r].retries
      BY <2>0, <2>2
    <2>3. CASE ~Passed(r) /\ ~(attempt[r] + 1 >= request[r].retries)
      <3>1. attempt[r] + 1 < request[r].retries
        BY <1>1, <2>3
      <3> QED
        BY <2>0, <2>3, <3>1
    <2> QED
      BY <2>1, <2>2, <2>3
  <1>4. PICK status \in {"success", "max_retries_exceeded", "retry"}, next \in Places :
           /\ Decided(status, next)
           /\ status = "success" => next = "save_success"
           /\ status = "max_retries_exceeded" => next = "alert_human"
           /\ status = "retry" => next = "analyze_site"
    <2>1. {"save_success", "alert_human", "analyze_site"} \subseteq Places
      BY DEF Places, Active, GraphNodes
    <2> HIDE DEF Decided
    <2> QED
      BY <1>3, <2>1
  <1> DEFINE state == [chan[r] EXCEPT !.status = status]
  <1>5. /\ state \in State /\ Coherent(state) /\ state.analysis /\ state.status = status
        /\ state.code = chan[r].code /\ state.test = chan[r].test
        /\ state.records = chan[r].records
    BY <1>2 DEF State, Coherent
  <1>6. /\ NodeReturns(r, state, next)
        /\ (status = "success" <=> Passed(r))
        /\ status = "retry" => attempt[r] + 1 < request[r].retries
    BY <1>4
  <1> HIDE DEF state, To, Decided
  <1>7. /\ node' \in [Run -> Places] /\ node'[r] = next
        /\ chan' \in [Run -> State] /\ chan'[r] = state
        /\ checkpoint' \in [Thread -> State] /\ \A t \in Thread : Coherent(checkpoint'[t])
        /\ \A q \in Run \ {r} : node'[q] = node[q] /\ chan'[q] = chan[q]
    BY <1>5, <1>6, ReturnsMoves
  <1>8. /\ UNCHANGED <<request, seen, preflight, context, artifact, tested>>
        /\ attempt' \in [Run -> Nat] /\ attempt'[r] = attempt[r] + 1
        /\ \A q \in Run \ {r} : attempt'[q] = attempt[q]
    BY <1>1 DEF DecideNext, Types
  <1>9. Types' /\ Moves(r)
    BY <1>1, <1>7, <1>8, ContextStays DEF Types, Moves
  <1>10. attempt'[r] \in 0..request[r].retries /\ attempt'[r] \in 1..request[r].retries
    BY <1>1, <1>8
  <1>11. RunInv(r)'
    <2>1. CASE status = "success"
      <3>1. Earned(r)'
        BY <1>2, <1>5, <1>6, <1>7, <1>8, <2>1 DEF Passed, Earned
      <3>2. Final(r)'
        BY <1>4, <1>5, <1>7, <1>8, <1>10, <2>1, <3>1 DEF Final
      <3> QED
        BY <1>1, <1>4, <1>5, <1>7, <1>8, <2>1, <3>2 DEF RunInv
    <2>2. CASE status = "max_retries_exceeded"
      <3>1. ~chan[r].records
        BY <1>2, <1>6, <2>2 DEF Passed, Earned
      <3>2. Final(r)'
        BY <1>4, <1>5, <1>7, <2>2, <3>1 DEF Final
      <3> QED
        BY <1>1, <1>4, <1>5, <1>7, <1>8, <2>2, <3>2 DEF RunInv
    <2>3. CASE status = "retry"
      BY <1>1, <1>4, <1>5, <1>6, <1>7, <1>8, <2>3 DEF RunInv
    <2> QED
      BY <2>1, <2>2, <2>3
  <1> QED
    BY <1>8, <1>9, <1>10, <1>11, MoveStep DEF Moves

\* The steps that change nothing but the position of the run, the approved
\* crawlers and the context.
LEMMA SaveStep ==
  ASSUME GraphInv, NEW r \in Run,
         \/ AnalyzeSiteRaises(r) \/ PromotionRaises(r)
         \/ SaveSuccess(r) \/ SaveErrors(r) \/ AddMessages(r) \/ Failing(r)
  PROVE  GraphInv'
  <1> USE DEF Goto
  <1>1. Types /\ RunInv(r) /\ attempt[r] \in 0..request[r].retries /\ request[r].type \in DataType
    BY GraphTypes, RequestTypes DEF GraphInv, TypeOK
  <1>2. chan[r] \in State
    BY <1>1 DEF Types
  <1>3. UNCHANGED <<request, attempt, chan, seen, preflight, checkpoint, tested>>
    BY DEF AnalyzeSiteRaises, PromotionRaises, SaveSuccess, SaveErrors, AddMessages, Failing, NodeRaises
  <1>4. PICK next \in {"failing", "failed", "error500", "add_messages", "success",
                       "max_retries_exceeded"} :
          /\ node' = [node EXCEPT ![r] = next]
          /\ next = "add_messages" => node[r] \in {"save_success", "save_errors"}
          /\ next \in {"success", "max_retries_exceeded"} =>
               node[r] = "add_messages" /\ next = chan[r].status
    <2>1. CASE AnalyzeSiteRaises(r) \/ PromotionRaises(r)
      BY <2>1 DEF AnalyzeSiteRaises, PromotionRaises, NodeRaises
    <2>2. CASE SaveSuccess(r)
      BY <2>2 DEF SaveSuccess
    <2>3. CASE SaveErrors(r)
      BY <2>3 DEF SaveErrors, MemoryCommand
    <2>4. CASE AddMessages(r)
      BY <1>1, <2>4 DEF AddMessages, MemoryCommand, RunInv, Final
    <2>5. CASE Failing(r)
      BY <2>5 DEF Failing
    <2> QED
      BY <2>1, <2>2, <2>3, <2>4, <2>5
  <1>5. /\ artifact' \in [DataType -> Run \cup {None}]
        /\ \A d \in DataType : artifact[d] # None => artifact'[d] # None
    BY <1>1, <1>2 DEF AnalyzeSiteRaises, PromotionRaises, SaveSuccess, SaveErrors, AddMessages,
                      Failing, Promoted, Types, State
  <1>6. /\ context' \in Context /\ CoherentContext(context')
        /\ context'.artifact # None => artifact'[context'.artifact] # None
    <2>1. CASE UNCHANGED context
      BY <1>1, <1>5, <2>1, ContextStays DEF Types
    <2>2. CASE SaveSuccess(r) /\ context' = [artifact |-> request[r].type, analysis |-> chan[r].analysis]
      <3>1. chan[r].analysis /\ artifact[request[r].type] # None /\ UNCHANGED artifact
        BY <1>1, <2>2 DEF SaveSuccess, RunInv, Final, Earned
      <3> QED
        BY <1>1, <2>2, <3>1 DEF Context, CoherentContext
    <2> QED
      BY <2>1, <2>2 DEF AnalyzeSiteRaises, PromotionRaises, SaveSuccess, SaveErrors, AddMessages, Failing
  <1>7. Types' /\ Moves(r)
    <2>1. node' \in [Run -> Places]
      BY <1>1, <1>4 DEF Types, Places, Active, Replies
    <2>2. \A q \in Run \ {r} : node'[q] = node[q]
      BY <1>1, <1>4 DEF Types
    <2>3. \A t \in Thread : Coherent(checkpoint'[t])
      BY <1>3 DEF GraphInv
    <2> QED
      BY <1>1, <1>3, <1>5, <1>6, <2>1, <2>2, <2>3 DEF Types, Moves
  <1>8. RunInv(r)'
    <2>1. node'[r] = next
      BY <1>1, <1>4 DEF Types
    <2>2. Final(r) => Final(r)'
      BY <1>1, <1>3, <1>5 DEF Final, Earned
    <2> QED
      BY <1>1, <1>3, <1>4, <2>1, <2>2 DEF RunInv
  <1> QED
    BY <1>1, <1>3, <1>7, <1>8, MoveStep

LEMMA AlertStep == ASSUME GraphInv, NEW r \in Run, AlertHuman(r) PROVE GraphInv'
  <1>1. Types /\ RunInv(r) /\ attempt[r] \in 0..request[r].retries
    BY GraphTypes DEF GraphInv, TypeOK
  <1>2. node[r] = "alert_human" /\ chan[r] \in State /\ Coherent(chan[r])
        /\ NodeReturns(r, chan[r], "save_errors") /\ "save_errors" \in Places
    BY <1>1 DEF AlertHuman, RunInv, Types, Places, Active
  <1>3. /\ node' \in [Run -> Places] /\ node'[r] = "save_errors"
        /\ chan' \in [Run -> State] /\ chan'[r] = chan[r]
        /\ checkpoint' \in [Thread -> State] /\ \A t \in Thread : Coherent(checkpoint'[t])
        /\ \A q \in Run \ {r} : node'[q] = node[q] /\ chan'[q] = chan[q]
    BY <1>2, ReturnsMoves
  <1>4. UNCHANGED <<request, attempt, seen, preflight, context, artifact, tested>>
    BY DEF AlertHuman
  <1>5. Types' /\ Moves(r)
    BY <1>1, <1>3, <1>4, ContextStays DEF Types, Moves
  <1>6. RunInv(r)'
    BY <1>1, <1>2, <1>3, <1>4 DEF RunInv, Final, Earned
  <1> QED
    BY <1>1, <1>4, <1>5, <1>6, MoveStep

LEMMA EnvironmentStep == ASSUME GraphInv, Crash \/ ForgetContext PROVE GraphInv'
  <1>1. Types
    BY GraphTypes
  <1>2. UNCHANGED <<request, attempt, chan, seen, preflight, artifact, checkpoint, tested>>
    BY DEF Crash, ForgetContext
  <1>3. node' \in [Run -> Places] /\ \A r \in Run : node'[r] \in {node[r], "lost"}
    BY <1>1 DEF Crash, ForgetContext, Types, Places
  <1>4. context' \in Context /\ CoherentContext(context)' /\ ContextIsBacked'
    <2>1. NoContext \in Context /\ NoContext.artifact = None
      BY DEF NoContext, Context
    <2> QED
      BY <1>1, <1>2, <2>1 DEF Crash, ForgetContext, GraphInv, CoherentContext, ContextIsBacked, Types
  <1>5. TypeOK'
    BY <1>2, <1>3, <1>4 DEF GraphInv, TypeOK, Places
  <1>6. ASSUME NEW r \in Run PROVE RunInv(r)'
    <2>1. RunInv(r) /\ node'[r] \in {node[r], "lost"}
      BY <1>3 DEF GraphInv
    <2>2. Final(r) => Final(r)'
      BY <1>2 DEF Final, Earned
    <2>3. Earned(r) => Earned(r)'
      BY <1>2 DEF Earned
    <2>4. Coherent(chan[r])' = Coherent(chan[r]) /\ CoherentContext(seen[r])' = CoherentContext(seen[r])
      BY <1>2 DEF Coherent, CoherentContext
    <2> QED
      BY <1>2, <2>1, <2>2, <2>3, <2>4 DEF RunInv
  <1> QED
    BY <1>2, <1>4, <1>5, <1>6 DEF GraphInv, Coherent

LEMMA ForgetThreadStep == ASSUME GraphInv, NEW t \in Thread, ForgetThread(t) PROVE GraphInv'
  <1>1. UNCHANGED <<request, node, attempt, chan, seen, preflight, context, artifact, tested>>
        /\ checkpoint' = [checkpoint EXCEPT ![t] = Blank]
    BY DEF ForgetThread
  <1>2. Blank \in State /\ Coherent(Blank)
    BY DEF Blank, State, Coherent
  <1>3. checkpoint' \in [Thread -> State] /\ \A q \in Thread : Coherent(checkpoint'[q])
    <2>1. checkpoint \in [Thread -> State] /\ \A q \in Thread : Coherent(checkpoint[q])
      BY DEF GraphInv, TypeOK
    <2> QED
      BY <1>1, <1>2, <2>1
  <1>4. TypeOK'
    BY <1>1, <1>3 DEF GraphInv, TypeOK
  <1>5. ContextIsBacked' /\ CoherentContext(context)' /\ (attempt \in [Run -> Nat])'
    BY <1>1 DEF GraphInv, ContextIsBacked, CoherentContext
  <1>6. ASSUME NEW r \in Run PROVE RunInv(r)'
    BY <1>1 DEF GraphInv, RunInv, Final, Earned, Coherent, CoherentContext
  <1> QED
    BY <1>3, <1>4, <1>5, <1>6 DEF GraphInv, Coherent

LEMMA GraphNext == GraphInv /\ [Next]_vars => GraphInv'
  <1> SUFFICES ASSUME GraphInv, [Next]_vars PROVE GraphInv'
    OBVIOUS
  <1>1. CASE UNCHANGED vars
    <2>1. TypeOK' /\ (attempt \in [Run -> Nat])'
      BY <1>1 DEF vars, GraphInv, TypeOK
    <2>2. ContextIsBacked' /\ CoherentContext(context)' /\ (\A t \in Thread : Coherent(checkpoint[t]))'
      BY <1>1 DEF vars, GraphInv, ContextIsBacked, CoherentContext, Coherent
    <2>3. ASSUME NEW r \in Run PROVE RunInv(r)'
      BY <1>1 DEF vars, GraphInv, RunInv, Final, Earned, Coherent, CoherentContext
    <2> QED
      BY <2>1, <2>2, <2>3 DEF GraphInv
  <1>2. ASSUME NEW r \in Run, RunStep(r) PROVE GraphInv'
    BY <1>2, PrepareStep, PrepareRaisesStep, AnalyzeStep, TestStep, DecideStep, SaveStep, AlertStep
    DEF RunStep
  <1> QED
    BY <1>1, <1>2, LoadMemoryStep, EnvironmentStep, ForgetThreadStep DEF Next

\* The inductive invariant holds: code is never without its analysis, and a final
\* status is the one the run itself earned.
THEOREM GraphInvAlways == Spec => []GraphInv
  BY GraphInit, GraphNext, PTL DEF Spec

\* The graph states, attempts, contexts and artifacts keep to their values; no
\* run makes more attempts than its limit.
THEOREM GraphTypeCorrect == Spec => []TypeOK
  <1>1. GraphInv => TypeOK
    BY DEF GraphInv
  <1> QED
    BY <1>1, GraphInvAlways, PTL

\* A success was earned by the run that answers it, whatever other runs left in
\* the checkpoint, the context and the files.
THEOREM EarnedSuccessAlways == Spec => []EarnedSuccess
  <1>1. GraphInv => EarnedSuccess
    BY DEF GraphInv, RunInv, Final, Earned, EarnedSuccess
  <1> QED
    BY <1>1, GraphInvAlways, PTL

\* A run that has used up its attempts answers without records.
THEOREM NoStaleRecordsAlways == Spec => []NoStaleRecords
  <1>1. GraphInv => NoStaleRecords
    BY DEF GraphInv, RunInv, Final, NoStaleRecords
  <1> QED
    BY <1>1, GraphInvAlways, PTL

\* alert_human never meets a state without an analysis.
THEOREM AlertHasAnalysisAlways == Spec => []AlertHasAnalysis
  <1>1. GraphInv => AlertHasAnalysis
    BY DEF GraphInv, RunInv, AlertHasAnalysis
  <1> QED
    BY <1>1, GraphInvAlways, PTL

\* The context names only a data type whose approved crawler is on disk.
THEOREM ContextIsBackedAlways == Spec => []ContextIsBacked
  <1>1. GraphInv => ContextIsBacked
    BY DEF GraphInv
  <1> QED
    BY <1>1, GraphInvAlways, PTL
===============================================================================
