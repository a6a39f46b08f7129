--------------------------------- MODULE Agent --------------------------------
(* The agent loop, src/src/agent/agent.c and agent_main.c, on top of the      *)
(* reasoning core. The engine of a reasoning core belongs either to a caller  *)
(* of the library or to an agent; an agent only ever solves with it and       *)
(* writes to its memory. Prompts are sequences of turns that fit the buffer   *)
(* they are printed into; allocations succeed.                                *)
EXTENDS Core

CONSTANTS
  Messages,          \* what a user says
  Replies,           \* what the engine answers
  MaxHistory,        \* CT_MAX_HISTORY
  MaxHistoryTurns,   \* opts.max_history_turns
  MaxTalk            \* bound: turns since the session was reset

ASSUME AgentAssumption ==
  /\ MaxHistory \in Nat \ {0, 1} /\ MaxHistoryTurns \in Nat \ {0} /\ MaxTalk \in Nat
  /\ Dim # 16   \* engine_create gives its memory 64 dimensions

VARIABLES
  owner,    \* whose engine it is: a caller's, who uses the population or, the
            \* bound being one of them in a behaviour, the memory and the
            \* router; or an agent's
  turns,    \* history[0 .. n_turns - 1]
  n_chats,
  asked,    \* the message ct_agent_chat is at, while the core solves
  prompt,   \* the turns of the last prompt
  talk      \* history: all turns since the session was reset

agentVars == <<owner, turns, n_chats, asked, prompt, talk>>
vars == <<coreVars, agentVars>>

Owners == {"caller", "store caller", "agent"}
NoMessage == "no message"
Streamed == "[streamed]"
Turn(role, content) == [role |-> role, content |-> content]

\* The last n of a sequence.
LastOf(s, n) == SubSeq(s, Max({1, Len(s) - n + 1}), Len(s))

\* The turn of a full conversation that makes room is the newest.
PushedOverNewest(ts, t) ==
  Append(IF Len(ts) >= MaxHistory THEN SubSeq(ts, 1, Len(ts) - 1) ELSE ts, t)

\* turn_push: the oldest turn makes room.
Pushed(ts, t) == Append(IF Len(ts) >= MaxHistory THEN Tail(ts) ELSE ts, t)

\* build_prompt: the last turns and the message.
Prompt(msg) == Append(LastOf(turns, MaxHistoryTurns), Turn("user", msg))

\* Both sides of an exchange are pushed, the user's first.
Exchange(msg, reply) ==
  /\ turns' = Pushed(Pushed(turns, Turn("user", msg)), Turn("assistant", reply))
  /\ talk' = talk \o <<Turn("user", msg), Turn("assistant", reply)>>
  /\ n_chats' = n_chats + 1

Talks == owner = "agent" /\ asked = NoMessage /\ Len(talk) + 2 <= MaxTalk   \* bound

\* ct_agent_chat: the core solves a problem made of the message first, in an
\* engine that nobody gave a hypothesis.
Chat(msg) ==
  /\ Talks
  /\ Solve(TRUE)
  /\ asked' = msg
  /\ UNCHANGED <<owner, turns, n_chats, prompt, talk>>

\* The reply is generated; the pattern offered to the memory has 16 dimensions.
ChatReplies(reply) ==
  /\ asked # NoMessage /\ AtRest
  /\ prompt' = Prompt(asked)
  /\ memory' = Written(memory, "pattern", [input |-> asked, dim |-> 16, confidence |-> 100])
  /\ Exchange(asked, reply)
  /\ asked' = NoMessage
  /\ UNCHANGED <<nodes, executors, history, solving, owner>>

\* Tokenizing or generating failed: an error is returned as the reply, and the
\* exchange leaves no trace in the history.
ChatFails ==
  /\ asked # NoMessage /\ AtRest
  /\ prompt' = Prompt(asked)
  /\ asked' = NoMessage
  /\ UNCHANGED <<coreVars, owner, turns, n_chats, talk>>

\* ct_agent_chat_stream: whatever became of the generation, the exchange is
\* pushed, with a placeholder for the reply.
ChatStream(msg) ==
  /\ Talks /\ AtRest
  /\ prompt' = Prompt(msg)
  /\ Exchange(msg, Streamed)
  /\ UNCHANGED <<coreVars, owner, asked>>

\* ct_agent_reset_session.
ResetSession ==
  /\ owner = "agent" /\ asked = NoMessage /\ AtRest
  /\ turns' = <<>> /\ n_chats' = 0 /\ talk' = <<>>
  /\ UNCHANGED <<coreVars, owner, asked, prompt>>

Init ==
  /\ CoreInit
  /\ owner \in Owners
  /\ turns = <<>> /\ n_chats = 0 /\ talk = <<>>
  /\ asked = NoMessage /\ prompt = <<>>

Next ==
  \/ SolveStep /\ UNCHANGED agentVars
  \/ owner = "caller" /\ OwnerStep /\ UNCHANGED agentVars
  \/ owner = "store caller" /\ StoreStep /\ UNCHANGED agentVars
  \/ \E msg \in Messages : Chat(msg) \/ ChatStream(msg)
  \/ \E reply \in Replies : ChatReplies(reply)
  \/ ChatFails
  \/ ResetSession

ReasoningSpec == Init /\ [][Next]_vars

-------------------------------------------------------------------------------
Turns == [role : {"user", "assistant"}, content : Messages \cup Replies \cup {Streamed}]

AgentTypeOK ==
  /\ owner \in Owners
  /\ {turns, prompt, talk} \subseteq Seq(Turns)
  /\ Len(turns) <= MaxHistory
  /\ n_chats \in Nat
  /\ asked \in Messages \cup {NoMessage}
  /\ asked # NoMessage => owner = "agent"

\* The history is the end of the conversation, in order and without a gap: what
\* was evicted is older than everything kept (agent.c:47-62). A prompt is the
\* message after as much of the conversation before it as is kept and asked
\* for (agent.c:65-98), also when the turn before it failed.
ConversationIsKept ==
  /\ turns = LastOf(talk, MaxHistory)
  /\ \A i \in DOMAIN talk : (talk[i].role = "user") <=> (i % 2 = 1)
  /\ 2 * n_chats = Len(talk)
  /\ talk # <<>> /\ prompt # <<>> =>
       \E n \in {Len(talk), Len(talk) - 2} :
          SubSeq(prompt, 1, Len(prompt) - 1) =
            LastOf(SubSeq(talk, 1, n), Min({MaxHistoryTurns, MaxHistory}))

\* No exchange ever reaches the memory of an agent's core, whose dimension is
\* not that of the patterns it offers, and no hypothesis its population.
AgentCoreIsIdle ==
  owner = "agent" => nodes = <<>> /\ memory = NothingStored

\* The reasoning core, its populations, stores and routers, and the agent.
ReasoningInv ==
  /\ CoreTypeOK /\ AgentTypeOK
  /\ InUseIsAlive
  /\ LineageIsRecorded
  /\ SelectsTheBest /\ FallsBackOnAnother /\ RanksTheBest
  /\ RecallsTheClosest
  /\ ConversationIsKept
  /\ AgentCoreIsIdle
===============================================================================
