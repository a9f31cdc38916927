----------------------------- MODULE ChatRounds -----------------------------
(***************************************************************************)
(* The AI chat proxy (internal/web/ollama.go): a chat sends the            *)
(* conversation to a backend, which streams text and may ask for tools;    *)
(* their results are appended and the next round sent.  Meanwhile other    *)
(* requests fetch the list of models and find out which API the backend    *)
(* speaks, and every round goes by what was found out last.                *)
(*                                                                         *)
(* The texts of answers go straight to the client and are left out.  The   *)
(* arguments of a call are the fragments they were streamed in: Whole is a *)
(* JSON object in one piece, Head and Tail one in two.  nil stands for     *)
(* arguments that were never set, which json.Marshal writes as null.       *)
(***************************************************************************)
EXTENDS Loops, FiniteSets

CONSTANTS
    Chats,        \* goroutines that may run handleOllamaChat
    Probes,       \* goroutines that may run handleOllamaModels
    MaxRounds,    \* ollamaMaxToolRounds: 5
    MaxHistory,   \* messages kept of the prior turns: 20
    Histories,    \* the prior turns that browsers send
    Prompts,      \* what is asked
    Deltas,       \* pieces of tool calls that a backend streams
    MaxDeltas,    \* bound: pieces in one round
    MaxChanges    \* bound: restarts of the backend

\* The empty string, which stands for what was never said.
NoText == ""

\* What browsers send are texts of the user and of the assistant (ollama.js);
\* a backend numbers its calls.
ASSUME ChatAssumption ==
    /\ MaxRounds \in Nat \ {0} /\ MaxHistory \in Nat
    /\ MaxDeltas \in Nat /\ MaxChanges \in Nat
    /\ Histories \subseteq Seq([role : {"user", "assistant"}, text : STRING,
                               calls : {<<>>}, id : {NoText}])
    /\ Prompts \subseteq STRING
    /\ Deltas \subseteq [index : Nat, id : STRING, name : STRING, args : Seq(STRING)]

VARIABLES
    chat,         \* what each chat request is at
    probe,        \* what each model request is at
    detectedAPI,  \* ollamaClient.detectedAPI
    backend,      \* what answers at the configured URL
    changes       \* restarts of the backend so far

chatVars == <<chat, probe, detectedAPI, backend, changes>>

Whole == <<"{}">>
Head2 == "{"
Tail2 == "}"
nil   == <<"nil">>
NoCall == [id |-> NoText, name |-> NoText, args |-> nil]
Silent == [at |-> "none"]

Message(role, text) == [role |-> role, text |-> text, calls |-> <<>>, id |-> NoText]
-----------------------------------------------------------------------------
(* Pure parts.                                                             *)

\* Seeded mistake: the turns are cut after the system prompt is in front.
ConversationCutLate(prior, prompt) ==
    LET all == <<Message("system", NoText)>> \o prior
        msgs == IF Len(all) <= MaxHistory THEN all
                ELSE SubSeq(all, Len(all) - MaxHistory + 1, Len(all))
    IN IF msgs # <<>> /\ msgs[Len(msgs)] = Message("user", prompt) THEN msgs
       ELSE Append(msgs, Message("user", prompt))

\* System prompt, the last of the prior turns, and the prompt unless the
\* browser has already put it there.
Conversation(prior, prompt) ==
    LET kept == IF Len(prior) <= MaxHistory THEN prior
                ELSE SubSeq(prior, Len(prior) - MaxHistory + 1, Len(prior))
        msgs == <<Message("system", NoText)>> \o kept
    IN IF msgs[Len(msgs)] = Message("user", prompt) THEN msgs
       ELSE Append(msgs, Message("user", prompt))

\* Arguments that json.Marshal of a RawMessage, and json.Unmarshal, take.
IsJSON(args) == args \in {Whole, <<Head2, Tail2>>}
Marshals(msgs) ==
    \A i \in 1 .. Len(msgs) : \A j \in 1 .. Len(msgs[i].calls) :
        LET args == msgs[i].calls[j].args IN IsJSON(args) \/ args = nil

\* toolExecutor: get_metrics, or "unknown tool".
Result(call) ==
    CASE call.name # "get_metrics" -> "unknown tool"
      [] ~IsJSON(call.args)        -> "error: invalid arguments"
      [] OTHER                     -> "metrics"

ToolMessage(call) == [Message("tool", Result(call)) EXCEPT !.id = call.id]

\* Seeded mistake: only calls of a known tool get a result.
AnsweredKnown(calls) ==
    LET known == SelectSeq(calls, LAMBDA c : c.name = "get_metrics")
    IN <<[Message("assistant", NoText) EXCEPT !.calls = calls]>>
       \o [j \in 1 .. Len(known) |-> ToolMessage(known[j])]

\* The assistant's turn and one result for each of its calls, in their order.
Answered(calls) ==
    <<[Message("assistant", NoText) EXCEPT !.calls = calls]>>
    \o [j \in 1 .. Len(calls) |-> ToolMessage(calls[j])]

\* Seeded mistake: a piece without an id clears the one that came before.
AccumulateAnyID(acc, d) ==
    LET old == IF d.index \in DOMAIN acc THEN acc[d.index]
               ELSE [NoCall EXCEPT !.args = <<>>]
        new == [id |-> d.id,
                name |-> IF d.name # NoText THEN d.name ELSE old.name,
                args |-> old.args \o d.args]
    IN [i \in DOMAIN acc \union {d.index} |-> IF i = d.index THEN new ELSE acc[i]]

\* accumMap after one more piece.
Accumulate(acc, d) ==
    LET old == IF d.index \in DOMAIN acc THEN acc[d.index]
               ELSE [NoCall EXCEPT !.args = <<>>]
        new == [id |-> IF d.id # NoText THEN d.id ELSE old.id,
                name |-> IF d.name # NoText THEN d.name ELSE old.name,
                args |-> old.args \o d.args]
    IN [i \in DOMAIN acc \union {d.index} |-> IF i = d.index THEN new ELSE acc[i]]

\* accumMap as a function on the pieces of a round, in their order.
Accumulated(pieces) ==
    LET acc[n \in 0 .. Len(pieces)] ==
            IF n = 0 THEN <<>> ELSE Accumulate(acc[n - 1], pieces[n])
    IN acc[Len(pieces)]

\* len(accumMap) places; an index beyond them is dropped and leaves one empty.
AssembleOpenAI(pieces) ==
    LET acc == Accumulated(pieces)
    IN [j \in 1 .. Cardinality(DOMAIN acc) |->
           IF j - 1 \in DOMAIN acc THEN acc[j - 1] ELSE NoCall]

\* The native API sends whole calls.
AssembleNative(pieces) ==
    [j \in 1 .. Len(pieces) |->
        [id |-> pieces[j].id, name |-> pieces[j].name,
         args |-> IF IsJSON(pieces[j].args) THEN pieces[j].args ELSE nil]]
-----------------------------------------------------------------------------
(* streamChat and doStreamRound.                                           *)

\* handleOllamaChat up to its first round.
BeginChat(r) ==
    /\ chat[r] = Silent
    /\ \E prior \in Histories, prompt \in Prompts :
           chat' = [chat EXCEPT ![r] = [at |-> "round", n |-> 0, prompt |-> prompt,
                                        msgs |-> Conversation(prior, prompt)]]
    /\ UNCHANGED <<probe, detectedAPI, backend, changes>>

\* effectiveAPIType: native until something else was found out.
EffectiveAPI == IF detectedAPI = NoText THEN "ollama" ELSE detectedAPI

\* Ollama serves the OpenAI-compatible API too.
Serves(api) == backend = "ollama" \/ backend = api

\* The conversation is posted; the backend begins to answer.
SendRound(r) ==
    /\ chat[r].at = "round"
    /\ Marshals(chat[r].msgs) /\ Serves(EffectiveAPI)
    /\ chat' = [chat EXCEPT ![r] = [at |-> EffectiveAPI, n |-> @.n, msgs |-> @.msgs,
                                    prompt |-> @.prompt, pieces |-> <<>>]]
    /\ UNCHANGED <<probe, detectedAPI, backend, changes>>

\* "marshal request", no connection, or an HTTP error.
SendFails(r) ==
    /\ chat[r].at = "round"
    /\ ~Marshals(chat[r].msgs) \/ ~Serves(EffectiveAPI)
    /\ chat' = [chat EXCEPT ![r] = [at |-> "failed", n |-> @.n, msgs |-> @.msgs,
                                    prompt |-> @.prompt]]
    /\ UNCHANGED <<probe, detectedAPI, backend, changes>>

Streaming(r) == chat[r].at \in {"ollama", "openai"}

\* A piece of a call arrives; with the native API, a whole one.
Chunk(r, d) ==
    /\ Streaming(r)
    /\ Len(chat[r].pieces) < MaxDeltas
    /\ chat[r].at = "ollama" => d.name # NoText
    /\ chat' = [chat EXCEPT ![r].pieces = Append(@, d)]
    /\ UNCHANGED <<probe, detectedAPI, backend, changes>>

\* The end of a round that asked for calls: they are executed, and the next
\* round follows unless there were MaxRounds.
Continue(r, calls) ==
    LET c == chat[r]
        more == c.n + 1 < MaxRounds
    IN chat' = [chat EXCEPT ![r] =
           IF calls = <<>>
           THEN [at |-> "done", n |-> c.n, msgs |-> c.msgs, prompt |-> c.prompt]
           ELSE [at |-> IF more THEN "round" ELSE "done", n |-> c.n + 1,
                 msgs |-> c.msgs \o Answered(calls), prompt |-> c.prompt]]

\* A chunk that says done, or the end of the body.
EndNative(r) ==
    /\ chat[r].at = "ollama"
    /\ Continue(r, AssembleNative(chat[r].pieces))
    /\ UNCHANGED <<probe, detectedAPI, backend, changes>>

\* [DONE] or the end of the body: calls count only when the backend gave
\* "tool_calls" as the reason why it ended.
EndOpenAI(r, reason) ==
    /\ chat[r].at = "openai"
    /\ Continue(r, IF reason = "tool_calls" THEN AssembleOpenAI(chat[r].pieces)
                   ELSE <<>>)
    /\ UNCHANGED <<probe, detectedAPI, backend, changes>>

\* The client has gone, a line is too long, or httpClient.Timeout has passed:
\* what was asked for so far is dropped.
StreamFails(r) ==
    /\ Streaming(r)
    /\ chat' = [chat EXCEPT ![r] = [at |-> "failed", n |-> @.n, msgs |-> @.msgs,
                                    prompt |-> @.prompt]]
    /\ UNCHANGED <<probe, detectedAPI, backend, changes>>
-----------------------------------------------------------------------------
(* fetchModels.                                                            *)

\* With "openai" found out there is nothing left to find out.
BeginProbe(p) ==
    /\ probe[p] = "idle" /\ detectedAPI # "openai"
    /\ probe' = [probe EXCEPT ![p] = "native"]
    /\ UNCHANGED <<chat, detectedAPI, backend, changes>>

\* The native list is tried, then the other one.
ProbeNative(p) ==
    /\ probe[p] = "native"
    /\ probe' = [probe EXCEPT ![p] = IF Serves("ollama") THEN "found ollama"
                                     ELSE "fallback"]
    /\ UNCHANGED <<chat, detectedAPI, backend, changes>>

ProbeOpenAI(p) ==
    /\ probe[p] = "fallback"
    /\ probe' = [probe EXCEPT ![p] = IF Serves("openai") THEN "found openai"
                                     ELSE "idle"]
    /\ UNCHANGED <<chat, detectedAPI, backend, changes>>

\* Whoever writes last wins.
Detected(p) ==
    /\ probe[p] \in {"found ollama", "found openai"}
    /\ detectedAPI' = IF probe[p] = "found ollama" THEN "ollama" ELSE "openai"
    /\ probe' = [probe EXCEPT ![p] = "idle"]
    /\ UNCHANGED <<chat, backend, changes>>

\* The backend stops, starts, or is replaced by another.
BackendChanges(b) ==
    /\ changes < MaxChanges /\ b # backend
    /\ backend' = b
    /\ changes' = changes + 1
    /\ UNCHANGED <<chat, probe, detectedAPI>>
-----------------------------------------------------------------------------
ChatInit ==
    /\ chat = [r \in Chats |-> Silent]
    /\ probe = [p \in Probes |-> "idle"]
    /\ detectedAPI = NoText
    /\ backend \in {"ollama", "openai"}
    /\ changes = 0

Converse(r) ==
    \/ SendRound(r) \/ SendFails(r)
    \/ \E d \in Deltas : Chunk(r, d)
    \/ EndNative(r)
    \/ \E reason \in {"tool_calls", "stop"} : EndOpenAI(r, reason)
    \/ StreamFails(r)
-----------------------------------------------------------------------------
(* Properties.                                                             *)

Ended(r) == chat[r].at \in {"none", "done", "failed"}

\* The system prompt, then turns of which the last is the prompt, then rounds.
Follows(msgs, prompt) ==
    LET turns == {i \in 1 .. Len(msgs) : msgs[i].role # "tool" /\ msgs[i].calls = <<>>}
    IN /\ \A i \in 1 .. Len(msgs) : msgs[i].role = "system" <=> i = 1
       /\ \E n \in 2 .. MaxHistory + 2 :
              turns = 1 .. n /\ msgs[n] = Message("user", prompt)

\* What is sent to the backend, in every round: the system prompt first and
\* once, then at most MaxHistory turns, and the user's prompt as the last turn
\* before any tool (handleOllamaChat).
PromptFollowsHistory ==
    \A r \in Chats : chat[r].at # "none" => Follows(chat[r].msgs, chat[r].prompt)

\* After a turn with calls come their results, and nowhere else.
Matched(msgs) ==
    /\ \A i \in 1 .. Len(msgs) :
           \/ msgs[i].role # "assistant" \/ msgs[i].calls = <<>>
           \/ /\ i + Len(msgs[i].calls) <= Len(msgs)
              /\ \A j \in 1 .. Len(msgs[i].calls) :
                     /\ msgs[i + j].role = "tool"
                     /\ msgs[i + j].id = msgs[i].calls[j].id
    /\ \A i \in 2 .. Len(msgs) :
           msgs[i].role = "tool" => msgs[i - 1].role = "tool" \/ msgs[i - 1].calls # <<>>

\* Every call that the conversation holds is followed by its results, one for
\* each call, in order and under its id, and no result without its call, however
\* the rounds mix the two APIs (streamChat).
ToolTurnsMatched ==
    \A r \in Chats : chat[r].at # "none" => Matched(chat[r].msgs)

\* The pieces for one call.
PiecesOf(pieces, i) == Kept(pieces, {k \in 1 .. Len(pieces) : pieces[k].index = i})

\* The last of texts that is not empty.
LastText(texts) ==
    LET said == {k \in 1 .. Len(texts) : texts[k] # NoText}
    IN IF said = {} THEN NoText
       ELSE texts[CHOOSE k \in said : \A j \in said : j <= k]

\* The call that the pieces for one index make.
CallOf(own) ==
    [id |-> LastText([k \in 1 .. Len(own) |-> own[k].id]),
     name |-> LastText([k \in 1 .. Len(own) |-> own[k].name]),
     args |-> Joined([k \in 1 .. Len(own) |-> own[k].args])]

\* Each call is made of its own pieces, in the order they came in, whatever
\* pieces of other calls came in between.  There are as many places as indices
\* were used: a backend that leaves a gap gets an empty call in its place, and
\* the call whose index is beyond the places is lost (doStreamRoundOpenAI).
CallsAsStreamed ==
    \A r \in Chats : chat[r].at = "openai" =>
        LET pieces == chat[r].pieces
            calls == AssembleOpenAI(pieces)
            used == {pieces[k].index : k \in 1 .. Len(pieces)}
        IN /\ Len(calls) = Cardinality(used)
           /\ \A j \in 1 .. Len(calls) :
                  calls[j] = IF j - 1 \in used THEN CallOf(PiecesOf(pieces, j - 1))
                             ELSE NoCall
=============================================================================
