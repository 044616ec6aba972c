----------------------------- MODULE AgentMemory ------------------------------
(***************************************************************************)
(* The conversation memory of the agent service: the buffer of each        *)
(* session (a domain and a data type) in Redis, the messages in the        *)
(* checkpoint of each thread (a request id), and the process that falls    *)
(* back to dictionaries of its own when it is started without them.        *)
(*                                                                         *)
(* A run loads the buffer, starts the graph on the thread's checkpoint     *)
(* with the buffer behind it, adds messages of its own, and in the end     *)
(* saves what lies behind as many messages as it had loaded.  AgentGraph   *)
(* has the rest of a run.                                                  *)
(***************************************************************************)
EXTENDS Naturals, Sequences, SequencesExt

CONSTANTS
  Run, Thread, Session,
  Requests,     \* the functions from runs to [thread, session] to be considered
  Environment,  \* the values of app_env
  Talk,         \* bound on the messages of each run
  Limit,        \* conversation_buffer_size
  Faulty        \* runs whose Redis commands may raise

ASSUME MemoryAssumption ==
  /\ Requests \subseteq [Run -> [thread : Thread, session : Session]]
  /\ Environment \subseteq {"production", "development"}
  /\ Talk \in [Run -> Nat]
  /\ Limit \in Nat \ {0}
  /\ Faulty \subseteq Run

VARIABLES
  env,           \* app_env
  request,       \* the thread and the session of each run
  process,       \* the stores the process works with, or Down
  conversation,  \* per store, agent:conversation:{session}
  checkpoint,    \* per store, the messages of each thread's last checkpoint
  at,            \* where each run is
  history,       \* conversation_history of each run
  messages,      \* the messages of its graph state; then those still to be saved
  said,          \* the number of messages its nodes have added
  fresh,         \* history: its thread had no checkpoint when it started
  saved,         \* history: what each run has appended to the buffer of its session
  log            \* history: per store, what was ever appended to each buffer

stores == <<conversation, checkpoint>>

runVars == <<at, history, messages, said, fresh>>

histories == <<saved, log>>

vars == <<env, request, process, stores, runVars, histories>>

\* "local" is the memory of the process, lost with it.
Buffers == {"redis", "local"}
Savers == {"durable", "local"}

Down == [buffer |-> "none", saver |-> "none"]

Message == Run \X Nat

Steps == {"idle", "loaded", "graph", "saving", "done", "failed", "error500", "lost"}

InProcess == {"loaded", "graph", "saving"}

TypeOK ==
  /\ env \in Environment
  /\ request \in Requests
  /\ process \in {Down} \cup [buffer : Buffers, saver : Savers]
  /\ conversation \in [Buffers -> [Session -> Seq(Message)]]
  /\ checkpoint \in [Savers -> [Thread -> Seq(Message)]]
  /\ at \in [Run -> Steps]
  /\ history \in [Run -> Seq(Message)]
  /\ messages \in [Run -> Seq(Message)]
  /\ said \in [Run -> Nat] /\ \A r \in Run : said[r] <= Talk[r]
  /\ fresh \in [Run -> BOOLEAN]
  /\ saved \in [Run -> Seq(Message)]
  /\ log \in [Buffers -> [Session -> Seq(Message)]]

Init ==
  /\ env \in Environment
  /\ request \in Requests
  /\ process = Down
  /\ conversation = [b \in Buffers |-> [s \in Session |-> <<>>]]
  /\ checkpoint = [k \in Savers |-> [t \in Thread |-> <<>>]]
  /\ at = [r \in Run |-> "idle"]
  /\ history = [r \in Run |-> <<>>]
  /\ messages = [r \in Run |-> <<>>]
  /\ said = [r \in Run |-> 0]
  /\ fresh = [r \in Run |-> TRUE]
  /\ saved = [r \in Run |-> <<>>]
  /\ log = [b \in Buffers |-> [s \in Session |-> <<>>]]

-------------------------------------------------------------------------------
(* The process                                                             *)

\* Mutant: the checkpointer falls back in production, too.
Start_FallsBack ==
  /\ process = Down
  /\ \E b \in Buffers, k \in Savers :
       /\ env = "production" => b = "redis"
       /\ process' = [buffer |-> b, saver |-> k]
  /\ UNCHANGED <<env, request, stores, runVars, histories>>

\* lifespan: without Redis, or a durable checkpointer, a development process
\* goes on with its own memory, and a production process does not start.
Start ==
  /\ process = Down
  /\ \E b \in Buffers, k \in Savers :
       /\ env = "production" => b = "redis" /\ k = "durable"
       /\ process' = [buffer |-> b, saver |-> k]
  /\ UNCHANGED <<env, request, stores, runVars, histories>>

\* The process ends with all it held.
Crash ==
  /\ process # Down
  /\ process' = Down
  /\ conversation' = [conversation EXCEPT !["local"] = [s \in Session |-> <<>>]]
  /\ checkpoint' = [checkpoint EXCEPT !["local"] = [t \in Thread |-> <<>>]]
  /\ at' = [r \in Run |-> IF at[r] \in InProcess THEN "lost" ELSE at[r]]
  /\ UNCHANGED <<env, request, history, messages, said, fresh, histories>>

\* The buffer reaches its TTL or is evicted.
Expire(s) ==
  /\ conversation["redis"][s] # <<>>
  /\ conversation' = [conversation EXCEPT !["redis"][s] = <<>>]
  /\ UNCHANGED <<env, request, process, checkpoint, runVars, histories>>

\* A checkpoint that is kept in Redis is evicted.
EvictCheckpoint(t) ==
  /\ checkpoint["durable"][t] # <<>>
  /\ checkpoint' = [checkpoint EXCEPT !["durable"][t] = <<>>]
  /\ UNCHANGED <<env, request, process, conversation, runVars, histories>>

-------------------------------------------------------------------------------
(* A run                                                                   *)

Goto(r, step) == at' = [at EXCEPT ![r] = step]

Buffer(r) == conversation[process.buffer][request[r].session]

Kept(r) == checkpoint[process.saver][request[r].thread]

\* The state of the graph is written in the background: a crash or another run
\* on the thread may still find the older one.
Checkpoint(r, new) ==
  checkpoint' \in {checkpoint, [checkpoint EXCEPT ![process.saver][request[r].thread] = new]}

\* get_conversation_history is outside the try block.
Load(r) ==
  /\ process # Down
  /\ at[r] = "idle"
  /\ \/ Goto(r, "loaded") /\ history' = [history EXCEPT ![r] = Buffer(r)]
     \/ r \in Faulty /\ process.buffer = "redis" /\ Goto(r, "error500") /\ UNCHANGED history
  /\ UNCHANGED <<env, request, process, stores, messages, said, fresh, histories>>

\* ainvoke: the reducer of the messages appends those of the initial state.
Invoke(r) ==
  /\ at[r] = "loaded"
  /\ Goto(r, "graph")
  /\ fresh' = [fresh EXCEPT ![r] = (Kept(r) = <<>>)]
  /\ messages' = [messages EXCEPT ![r] = Kept(r) \o history[r]]
  /\ Checkpoint(r, Kept(r) \o history[r])
  /\ UNCHANGED <<env, request, process, conversation, history, said, histories>>

\* A node returns with a message.
Speak(r) ==
  /\ at[r] = "graph"
  /\ said[r] < Talk[r]
  /\ said' = [said EXCEPT ![r] = @ + 1]
  /\ messages' = [messages EXCEPT ![r] = Append(@, <<r, said[r] + 1>>)]
  /\ Checkpoint(r, Append(messages[r], <<r, said[r] + 1>>))
  /\ UNCHANGED <<env, request, process, conversation, at, history, fresh, histories>>

\* A node, the checkpointer or save_success raises.
GraphRaises(r) ==
  /\ at[r] = "graph"
  /\ Goto(r, "failed")
  /\ UNCHANGED <<env, request, process, stores, history, messages, said, fresh, histories>>

\* Mutant: the whole conversation is saved again.
GraphEnds_All(r) ==
  /\ at[r] = "graph"
  /\ Goto(r, "saving")
  /\ UNCHANGED <<env, request, process, stores, history, messages, said, fresh, histories>>

\* Mutant: off by one.
GraphEnds_SkipsOne(r) ==
  /\ at[r] = "graph"
  /\ Goto(r, "saving")
  /\ messages' = [messages EXCEPT ![r] = SubSeq(@, Len(history[r]) + 2, Len(@))]
  /\ UNCHANGED <<env, request, process, stores, history, said, fresh, histories>>

\* new_messages: those behind the length of the history.
GraphEnds(r) ==
  /\ at[r] = "graph"
  /\ Goto(r, "saving")
  /\ messages' = [messages EXCEPT ![r] = SubSeq(@, Len(history[r]) + 1, Len(@))]
  /\ UNCHANGED <<env, request, process, stores, history, said, fresh, histories>>

\* Mutant: LTRIM keeps the first messages.
Trimmed_Head(list) == SubSeq(list, 1, IF Len(list) > Limit THEN Limit ELSE Len(list))

\* Mutant: one message more than the limit is kept.
Trimmed_OneMore(list) ==
  IF Len(list) > Limit + 1 THEN SubSeq(list, Len(list) - Limit, Len(list)) ELSE list

Trimmed(list) == IF Len(list) > Limit THEN SubSeq(list, Len(list) - Limit + 1, Len(list)) ELSE list

Appended(r) ==
  LET s == request[r].session  b == process.buffer IN
  /\ conversation' = [conversation EXCEPT ![b][s] = Trimmed(Append(@, Head(messages[r])))]
  /\ saved' = [saved EXCEPT ![r] = Append(@, Head(messages[r]))]
  /\ log' = [log EXCEPT ![b][s] = Append(@, Head(messages[r]))]

\* RPUSH, LTRIM and EXPIRE in one transaction; if it raises, it may have been
\* executed or not, and the rest is not saved.
AddMessage(r) ==
  /\ at[r] = "saving"
  /\ messages[r] # <<>>
  /\ \/ Appended(r) /\ messages' = [messages EXCEPT ![r] = Tail(@)] /\ UNCHANGED at
     \/ /\ r \in Faulty /\ process.buffer = "redis"
        /\ Appended(r) \/ UNCHANGED <<conversation, histories>>
        /\ Goto(r, "failed") /\ UNCHANGED messages
  /\ UNCHANGED <<env, request, process, checkpoint, history, said, fresh>>

Reply(r) ==
  /\ at[r] = "saving"
  /\ messages[r] = <<>>
  /\ Goto(r, "done")
  /\ UNCHANGED <<env, request, process, stores, history, messages, said, fresh, histories>>

-------------------------------------------------------------------------------

Next ==
  \/ Start \/ Crash
  \/ \E s \in Session : Expire(s)
  \/ \E t \in Thread : EvictCheckpoint(t)
  \/ \E r \in Run : \/ Load(r) \/ Invoke(r) \/ Speak(r) \/ GraphRaises(r)
                    \/ GraphEnds(r) \/ AddMessage(r) \/ Reply(r)

Spec == Init /\ [][Next]_vars

-------------------------------------------------------------------------------

Own(r) == [i \in 1..said[r] |-> <<r, i>>]

\* A run that is answered has saved each of its own messages once and in
\* order, whatever other runs of the session or of the thread do meanwhile; and
\* it saves what others said, of its session or of another one, again only when
\* it resumed a thread, and before its own: otherwise it has saved its own
\* messages so far.
NewMessagesSaved ==
  \A r \in Run :
    LET others == Len(saved[r]) - said[r] IN
    /\ at[r] = "done" =>
         /\ others >= 0
         /\ SubSeq(saved[r], others + 1, Len(saved[r])) = Own(r)
         /\ \A i \in 1..others : saved[r][i][1] # r
    /\ fresh[r] => IsPrefix(saved[r], Own(r))

\* The buffer holds the last messages that were appended, without a gap and up
\* to the newest, and never more than its limit.
BufferIsRecent ==
  \A b \in Buffers, s \in Session :
    LET kept == conversation[b][s]
        all  == log[b][s]
    IN /\ Len(kept) <= Limit /\ Len(kept) <= Len(all)
       /\ \A i \in 1..Len(kept) : kept[i] = all[Len(all) - Len(kept) + i]

\* In production nothing is kept where a restart loses it.
ProductionIsDurable ==
  env = "production" =>
    /\ \A s \in Session : conversation["local"][s] = <<>>
    /\ \A t \in Thread : checkpoint["local"][t] = <<>>
===============================================================================
